--------------------------- MODULE TopologyProofs ---------------------------
(***************************************************************************)
(* Soundness of the discovered topology for any hosts, interfaces, names,  *)
(* VLAN options and network, with lost frames, flooding and failing tasks; *)
(* first, facts about the discovery frame.                                 *)
(***************************************************************************)
EXTENDS Topology, SequenceTheorems, TLAPS

-----------------------------------------------------------------------------
(***************************************************************************)
(* Arithmetic of the bytes of a number, for any number B of byte values.   *)
(***************************************************************************)
LEMMA ByteArith ==
    ASSUME NEW B \in Nat, B > 0
    PROVE  /\ \A x \in 0 .. B - 1 : x % B = x
           /\ \A x \in 0 .. B * B - 1 : /\ x \div B \in 0 .. B - 1
                                        /\ x % B \in 0 .. B - 1
                                        /\ B * (x \div B) + (x % B) = x
<1>1. ASSUME NEW x \in 0 .. B - 1 PROVE x % B = x
  BY <1>1, SMT
<1>2. ASSUME NEW x \in 0 .. B * B - 1 PROVE x \div B \in 0 .. B - 1
  BY <1>2, SMT
<1>3. ASSUME NEW x \in Nat PROVE x % B \in 0 .. B - 1 /\ B * (x \div B) + (x % B) = x
  BY <1>3, SMT
<1>4. \A x \in 0 .. B * B - 1 : x \in Nat
  BY SMT
<1>5. QED
  BY <1>1, <1>2, <1>3, <1>4, Zenon

(***************************************************************************)
(* The layout builder appends after the ARP header, for any elements.      *)
(***************************************************************************)
Laid(x, s, y, t, u, w) == <<x>> \o s \o <<y>> \o t \o <<u, w>>

IsLaid(p, S, x, s, y, t, u, w) ==
    /\ p \in Seq(S)
    /\ Len(p) = Len(s) + Len(t) + 4
    /\ p[1] = x
    /\ \A k \in 1 .. Len(s) : p[1 + k] = s[k]
    /\ p[Len(s) + 2] = y
    /\ \A k \in 1 .. Len(t) : p[Len(s) + 2 + k] = t[k]
    /\ p[Len(s) + Len(t) + 3] = u
    /\ p[Len(s) + Len(t) + 4] = w

LEMMA Layout ==
    ASSUME NEW S, NEW s \in Seq(S), NEW t \in Seq(S),
           NEW x \in S, NEW y \in S, NEW u \in S, NEW w \in S
    PROVE  IsLaid(Laid(x, s, y, t, u, w), S, x, s, y, t, u, w)
<1> DEFINE a  == <<x>>
           b  == <<y>>
           c  == <<u, w>>
           p1 == a \o s
           p2 == p1 \o b
           p3 == p2 \o t
           p  == p3 \o c
           n  == Len(s)
           h  == Len(t)
<1>1. n \in Nat /\ h \in Nat
  BY LenProperties
<1>2. a \in Seq(S) /\ b \in Seq(S) /\ c \in Seq(S)
  OBVIOUS
<1>a. /\ Len(a) = 1 /\ a[1] = x
      /\ Len(b) = 1 /\ b[1] = y
      /\ Len(c) = 2 /\ c[1] = u /\ c[2] = w
  OBVIOUS
<1> HIDE DEF a, b, c
<1>3m. p1 \in Seq(S)
  BY <1>2
<1>3. /\ Len(p1) = Len(a) + n
      /\ \A i \in 1 .. Len(a) : p1[i] = a[i]
      /\ \A i \in 1 .. n : p1[Len(a) + i] = s[i]
  BY <1>2
<1> HIDE DEF p1
<1>4m. p2 \in Seq(S)
  BY <1>2, <1>3m
<1>4. /\ Len(p2) = Len(p1) + Len(b)
      /\ \A i \in 1 .. Len(p1) : p2[i] = p1[i]
      /\ \A i \in 1 .. Len(b) : p2[Len(p1) + i] = b[i]
  BY <1>2, <1>3m
<1> HIDE DEF p2
<1>5m. p3 \in Seq(S)
  BY <1>4m
<1>5. /\ Len(p3) = Len(p2) + h
      /\ \A i \in 1 .. Len(p2) : p3[i] = p2[i]
      /\ \A i \in 1 .. h : p3[Len(p2) + i] = t[i]
  BY <1>4m
<1> HIDE DEF p3
<1>6m. p \in Seq(S)
  BY <1>2, <1>5m
<1>6. /\ Len(p) = Len(p3) + Len(c)
      /\ \A i \in 1 .. Len(p3) : p[i] = p3[i]
      /\ \A i \in 1 .. Len(c) : p[Len(p3) + i] = c[i]
  BY <1>2, <1>5m
<1> HIDE DEF p, n, h
<1>7. Len(p1) = n + 1 /\ Len(p2) = n + 2 /\ Len(p3) = n + h + 2 /\ Len(p) = n + h + 4
  BY <1>1, <1>a, <1>3, <1>4, <1>5, <1>6
<1>8. p[1] = x
  <2>1. 1 \in 1 .. Len(a) /\ 1 \in 1 .. Len(p1) /\ 1 \in 1 .. Len(p2) /\ 1 \in 1 .. Len(p3)
    BY <1>1, <1>a, <1>7
  <2>2. p[1] = p3[1] /\ p3[1] = p2[1]
    BY <2>1, <1>5, <1>6, Zenon
  <2>3. p2[1] = p1[1] /\ p1[1] = a[1]
    BY <2>1, <1>3, <1>4, Zenon
  <2>4. QED
    BY <2>2, <2>3, <1>a
<1>9. ASSUME NEW k \in 1 .. n PROVE p[1 + k] = s[k]
  <2>1. 1 + k \in 1 .. Len(p1) /\ 1 + k \in 1 .. Len(p2) /\ 1 + k \in 1 .. Len(p3)
    BY <1>1, <1>7
  <2>2. p[1 + k] = p3[1 + k] /\ p3[1 + k] = p2[1 + k]
    BY <2>1, <1>5, <1>6, Zenon
  <2>3. p2[1 + k] = p1[1 + k] /\ p1[Len(a) + k] = s[k]
    BY <2>1, <1>3, <1>4, Zenon
  <2>4. QED
    BY <2>2, <2>3, <1>a, Zenon
<1>10. p[n + 2] = y
  <2>1. 1 \in 1 .. Len(b) /\ Len(p1) + 1 = n + 2 /\ n + 2 \in 1 .. Len(p2)
        /\ n + 2 \in 1 .. Len(p3)
    BY <1>1, <1>a, <1>7
  <2>2. p[n + 2] = p3[n + 2] /\ p3[n + 2] = p2[n + 2]
    BY <2>1, <1>5, <1>6, Zenon
  <2>3. p2[Len(p1) + 1] = b[1]
    BY <2>1, <1>4, Zenon
  <2>4. QED
    BY <2>1, <2>2, <2>3, <1>a, Zenon
<1>11. ASSUME NEW k \in 1 .. h PROVE p[n + 2 + k] = t[k]
  <2>1. n + 2 + k \in 1 .. Len(p3)
    BY <1>1, <1>7
  <2>2. QED
    BY <2>1, <1>5, <1>6, <1>7, Zenon
<1>12. p[n + h + 3] = u /\ p[n + h + 4] = w
  <2>1. /\ 1 \in 1 .. Len(c) /\ Len(p3) + 1 = n + h + 3
        /\ 2 \in 1 .. Len(c) /\ Len(p3) + 2 = n + h + 4
    BY <1>1, <1>a, <1>7
  <2>2. QED
    BY <2>1, <1>a, <1>6, Zenon
<1>13. p = Laid(x, s, y, t, u, w)
  BY Zenon DEF Laid, p, p3, p2, p1, a, b, c
<1>14. QED
  BY <1>6m, <1>7, <1>8, <1>9, <1>10, <1>11, <1>12, <1>13, Zenon DEF IsLaid, n, h

LEMMA RadixPos == Radix \in Nat /\ Radix > 0
BY DEF Radix

(***************************************************************************)
(* The bytes of the payload: where each part of it lies.                   *)
(***************************************************************************)
LEMMA PayloadBytes ==
    ASSUME NEW nic \in Seq(Byte), NEW host \in Seq(Byte), NEW vlan \in U16,
           Len(nic) < Radix, Len(host) < Radix
    PROVE  IsLaid(Payload(nic, host, vlan), Byte,
                  Len(nic), nic, Len(host), host, vlan \div Radix, vlan % Radix)
<1>1. Len(nic) \in Nat /\ Len(host) \in Nat
  BY LenProperties
<1>2. Len(nic) \in Byte /\ Len(host) \in Byte
  BY <1>1, RadixPos DEF Byte
<1>3. AsU8(Len(nic)) = Len(nic) /\ AsU8(Len(host)) = Len(host)
  BY <1>2, RadixPos, ByteArith DEF AsU8, Byte
<1>4. vlan \div Radix \in Byte /\ vlan % Radix \in Byte
  BY RadixPos, ByteArith, Zenon DEF Byte, U16
<1>5. Payload(nic, host, vlan) = <<Len(nic)>> \o nic \o <<Len(host)>> \o host
                                   \o <<vlan \div Radix, vlan % Radix>>
  BY <1>3, Zenon DEF Payload
<1>6. Payload(nic, host, vlan)
        = Laid(Len(nic), nic, Len(host), host, vlan \div Radix, vlan % Radix)
  BY <1>5, Zenon DEF Laid
<1>7. QED
  BY <1>2, <1>4, <1>6, Layout, Zenon

(***************************************************************************)
(* parse inverts builder: the peer the receiver extracts is the sender's   *)
(* host name, interface name, address and VLAN id, and it is taken for a   *)
(* request exactly when the sender broadcast it.  The one-byte length      *)
(* fields bound the names; packet.rs:71 and :76.                           *)
(***************************************************************************)
THEOREM RoundTrip ==
    ASSUME NEW nic \in Seq(Byte), NEW host \in Seq(Byte), NEW vlan \in U16,
           NEW mac, NEW dst, NEW tag,
           Len(nic) < Radix, Len(host) < Radix
    PROVE  parse(Retag(builder(nic, mac, dst, vlan, host), tag))
             = [peer    |-> [host |-> host, nic |-> nic, mac |-> mac, vlan |-> vlan],
                request |-> dst = Broadcast]
<1> DEFINE f == Retag(builder(nic, mac, dst, vlan, host), tag)
           d == Payload(nic, host, vlan)
           n == Len(nic)
           h == Len(host)
<1>1. f.data = d /\ f.src = mac /\ (f.op = Request <=> dst = Broadcast)
  BY DEF Retag, builder, Request, Reply
<1>2. /\ n \in Byte /\ h \in Byte
      /\ Len(d) = n + h + 4 /\ d[1] = n
      /\ (\A k \in 1 .. n : d[1 + k] = nic[k])
      /\ d[n + 2] = h
      /\ (\A k \in 1 .. h : d[n + 2 + k] = host[k])
      /\ d[n + h + 3] = vlan \div Radix /\ d[n + h + 4] = vlan % Radix
  BY PayloadBytes, LenProperties DEF IsLaid
<1> HIDE DEF f, d
<1>3. NicLen(f) = n
  BY <1>1, <1>2 DEF NicLen, At
<1>4. HostLen(f) = h
  BY <1>1, <1>2, <1>3 DEF HostLen, At
<1>5. \A k \in 1 .. n : At(f, k) = nic[k]
  BY <1>1, <1>2 DEF At
<1>6. \A k \in 1 .. h : At(f, n + 1 + k) = host[k]
  BY <1>1, <1>2 DEF At
<1>7. Radix * At(f, n + h + 2) + At(f, n + h + 3) = vlan
  <2>1. At(f, n + h + 2) = vlan \div Radix /\ At(f, n + h + 3) = vlan % Radix
    BY <1>1, <1>2 DEF At
  <2>2. QED
    BY <2>1, RadixPos, ByteArith, Zenon DEF U16
<1>8. [k \in 1 .. n |-> At(f, k)] = nic
  BY <1>2, <1>5
<1>9. [k \in 1 .. h |-> At(f, n + 1 + k)] = host
  BY <1>2, <1>6
<1>10. parse(f) = [peer    |-> [host |-> host, nic |-> nic, mac |-> mac, vlan |-> vlan],
                   request |-> dst = Broadcast]
  BY <1>1, <1>3, <1>4, <1>7, <1>8, <1>9 DEF parse
<1>11. QED
  BY <1>10 DEF f

(***************************************************************************)
(* Whatever bytes arrive, parse never slices past the receive buffer: the  *)
(* two length bytes cannot reach index 1024 (packet.rs:127-141).           *)
(***************************************************************************)
THEOREM ParseInBounds ==
    ASSUME NEW f \in Frames
    PROVE  ParseEnd(f) <= RecvBuf
<1>1. f.data \in Seq(Byte) /\ f.tagged \in BOOLEAN
  BY DEF Frames
<1>2. \A i \in Nat : At(f, i) \in Byte
  <2>1. 0 \in Byte
    BY RadixPos DEF Byte
  <2>2. ASSUME NEW i \in Nat, i < Len(f.data) PROVE f.data[i + 1] \in Byte
    <3>1. i + 1 \in 1 .. Len(f.data)
      BY <1>1, <2>2, LenProperties
    <3>2. QED
      BY <1>1, <3>1, ElementOfSeq
  <2>3. QED
    BY <2>1, <2>2, Zenon DEF At
<1>3. NicLen(f) \in Byte
  BY <1>2, Zenon DEF NicLen
<1>4. HostLen(f) \in Byte
  <2>1. NicLen(f) + 1 \in Nat
    BY <1>3, RadixPos DEF Byte
  <2>2. QED
    BY <1>2, <2>1, Zenon DEF HostLen
<1>5. HeaderLen(f.tagged) \in Nat /\ HeaderLen(f.tagged) <= 46
  BY SMT DEF HeaderLen, EthLen, VlanLen, ArpLen
<1>6. /\ NicLen(f) \in Nat /\ NicLen(f) <= 255
      /\ HostLen(f) \in Nat /\ HostLen(f) <= 255
  BY <1>3, <1>4, SMT DEF Byte, Radix
<1> HIDE DEF HeaderLen
<1>7. QED
  BY <1>5, <1>6, SMT DEF ParseEnd, RecvBuf

(***************************************************************************)
(* Linux bounds an interface name to 15 bytes and a host name to 64, so    *)
(* builder never slices past the 256-byte send buffer (packet.rs:88).      *)
(***************************************************************************)
THEOREM SendFits ==
    ASSUME NEW nic \in Seq(Byte), NEW host \in Seq(Byte), NEW vlan \in U16,
           NEW mac, NEW dst,
           Len(nic) <= 15, Len(host) <= 64
    PROVE  BuilderFits(builder(nic, mac, dst, vlan, host))
<1>1. Len(nic) \in Nat /\ Len(host) \in Nat
  BY LenProperties
<1>2. Len(nic) < Radix /\ Len(host) < Radix
  BY <1>1, SMT DEF Radix
<1>3. Len(Payload(nic, host, vlan)) = Len(nic) + Len(host) + 4
  BY <1>2, PayloadBytes, Zenon DEF IsLaid
<1> DEFINE f == builder(nic, mac, dst, vlan, host)
<1>4. f.data = Payload(nic, host, vlan)
  BY DEF builder
<1> HIDE DEF f
<1>5. HeaderLen(f.tagged) \in Nat /\ HeaderLen(f.tagged) <= 46
  BY SMT DEF HeaderLen, EthLen, VlanLen, ArpLen
<1>6. HeaderLen(f.tagged) + Len(f.data) <= SendBuf
  BY <1>1, <1>3, <1>4, <1>5, SMT DEF SendBuf
<1>7. QED
  BY <1>6, Zenon DEF BuilderFits, f

-----------------------------------------------------------------------------
(***************************************************************************)
(* Operators                                                               *)
(***************************************************************************)
\* Queues stay typed under the four things the tasks do to them.
LEMMA SeqOps ==
    ASSUME NEW S, NEW s \in Seq(S), NEW e \in S
    PROVE  Append(s, e) \in Seq(S) /\ <<e>> \in Seq(S)
OBVIOUS

LEMMA SeqTake ==
    ASSUME NEW S, NEW s \in Seq(S), s # <<>>
    PROVE  Head(s) \in S /\ Tail(s) \in Seq(S)
OBVIOUS

LEMMA SeqEmpty == ASSUME NEW S PROVE <<>> \in Seq(S)
OBVIOUS

LEMMA AtType ==
    ASSUME NEW f \in Frames
    PROVE  \A k \in Nat : At(f, k) \in Byte
<1>1. f.data \in Seq(Byte)
  BY DEF Frames
<1>2. 0 \in Byte
  BY RadixPos DEF Byte
<1>3. ASSUME NEW k \in Nat, k < Len(f.data) PROVE f.data[k + 1] \in Byte
  <2>1. k + 1 \in 1 .. Len(f.data)
    BY <1>1, <1>3, LenProperties
  <2>2. QED
    BY <1>1, <2>1, ElementOfSeq
<1>4. QED
  BY <1>2, <1>3, Zenon DEF At

\* Whatever the bytes of a frame, parse yields a well-formed peer.
LEMMA ParseType ==
    ASSUME NEW f \in Frames
    PROVE  parse(f).peer \in Peers /\ parse(f).request \in BOOLEAN
<1> DEFINE n == NicLen(f)
           h == HostLen(f)
<1>1. \A k \in Nat : At(f, k) \in Byte
  BY AtType
<1>2. n \in Byte
  BY <1>1, Zenon DEF NicLen
<1>3. n \in Nat
  BY <1>2, RadixPos DEF Byte
<1>4. h \in Byte
  <2>1. n + 1 \in Nat
    BY <1>3
  <2>2. QED
    BY <1>1, <2>1, Zenon DEF HostLen
<1>5. h \in Nat
  BY <1>4, RadixPos DEF Byte
<1> HIDE DEF n, h
<1>6. [k \in 1 .. h |-> At(f, n + 1 + k)] \in Seq(Byte)
  <2>1. \A k \in 1 .. h : n + 1 + k \in Nat
    BY <1>3, <1>5
  <2>2. \A k \in 1 .. h : At(f, n + 1 + k) \in Byte
    BY <1>1, <2>1, Zenon
  <2>3. QED
    BY <1>5, <2>2
<1>7. [k \in 1 .. n |-> At(f, k)] \in Seq(Byte)
  <2>1. \A k \in 1 .. n : At(f, k) \in Byte
    <3>1. \A k \in 1 .. n : k \in Nat
      BY <1>3
    <3>2. QED
      BY <1>1, <3>1, Zenon
  <2>2. QED
    BY <1>3, <2>1
<1>8. Radix * At(f, n + h + 2) + At(f, n + h + 3) \in U16
  <2>1. At(f, n + h + 2) \in Byte /\ At(f, n + h + 3) \in Byte
    <3>1. n + h + 2 \in Nat /\ n + h + 3 \in Nat
      BY <1>3, <1>5
    <3>2. QED
      BY <1>1, <3>1, Zenon
  <2>2. \A B \in Nat : \A x, y \in 0 .. B - 1 : B * x + y \in 0 .. B * B - 1
    <3> SUFFICES ASSUME NEW B \in Nat, NEW x \in 0 .. B - 1, NEW y \in 0 .. B - 1
                 PROVE  B * x + y \in 0 .. B * B - 1
      OBVIOUS
    <3>1. B * x <= B * (B - 1)
      BY SMT
    <3>2. B * (B - 1) = B * B - B
      BY SMT
    <3>3. B * x \in Nat /\ B * B \in Nat
      BY SMT
    <3>4. QED
      BY <3>1, <3>2, <3>3, SMT
  <2>3. QED
    BY <2>1, <2>2, RadixPos, Zenon DEF Byte, U16
<1>9. f.src \in Macs
  BY DEF Frames
<1>10. QED
  BY <1>6, <1>7, <1>8, <1>9 DEF parse, Peers, n, h

LEMMA Tag == \A v \in U16 : AsVid(v) \in Vid
<1>1. \A B \in Nat \ {0} : \A x \in Nat : x % B \in 0 .. B - 1
  BY SMT
<1>2. TagRadix \in Nat \ {0}
  BY DEF TagRadix
<1>3. \A v \in U16 : v \in Nat
  BY RadixPos DEF U16
<1>4. QED
  BY <1>1, <1>2, <1>3, Zenon DEF AsVid, Vid

\* Names fit the one-byte length fields.
LEMMA Names ==
    ASSUME NEW n \in Nics
    PROVE  /\ HostOf[n] \in Hosts /\ MacOf[n] \in Macs
           /\ NameOf[n] \in Seq(Byte) /\ Len(NameOf[n]) < Radix
           /\ HostName[HostOf[n]] \in Seq(Byte) /\ Len(HostName[HostOf[n]]) < Radix
<1>1. HostOf[n] \in Hosts /\ MacOf[n] \in Macs /\ NameOf[n] \in Seq(Byte)
  BY NicAssumption
<1>2. HostName[HostOf[n]] \in Seq(Byte)
  BY <1>1, NameAssumption
<1>3. Len(NameOf[n]) \in Nat /\ Len(HostName[HostOf[n]]) \in Nat
  BY <1>1, <1>2, LenProperties
<1>4. Len(NameOf[n]) <= 15 /\ Len(HostName[HostOf[n]]) <= 192
  BY <1>1, NameAssumption
<1>5. Len(NameOf[n]) < Radix /\ Len(HostName[HostOf[n]]) < Radix
  BY <1>3, <1>4, SMT DEF Radix
<1>6. QED
  BY <1>1, <1>2, <1>5

LEMMA BuilderType ==
    ASSUME NEW n \in Nics, NEW dst \in Macs \cup {Broadcast}, NEW v \in U16, NEW tag \in BOOLEAN
    PROVE  LET f == builder(NameOf[n], MacOf[n], dst, v, HostName[HostOf[n]])
           IN  f \in Frames /\ Retag(f, tag) \in Frames /\ f.vid = AsVid(v)
<1>1. Payload(NameOf[n], HostName[HostOf[n]], v) \in Seq(Byte)
  BY Names, PayloadBytes, Zenon DEF IsLaid
<1>2. AsVid(v) \in Vid
  BY Tag
<1>3. MacOf[n] \in Macs
  BY Names
<1>4. QED
  BY <1>1, <1>2, <1>3 DEF builder, Frames, Request, Reply, Retag

\* FrameFor names the interface it is sent on.
LEMMA FrameType ==
    ASSUME NEW msg \in Msgs
    PROVE  /\ FrameFor(msg) \in Frames
           /\ FrameFor(msg).vid = AsVid(msg.peer.vlan)
<1>1. msg.nic \in Nics /\ msg.peer \in Peers
  BY DEF Msgs
<1>2. msg.peer.mac \in Macs \cup {Broadcast} /\ msg.peer.vlan \in U16
  BY <1>1 DEF Peers
<1>3. QED
  BY <1>1, <1>2, BuilderType DEF FrameFor

LEMMA EntryType ==
    ASSUME NEW msg \in Msgs
    PROVE  Entry(msg) \in Nics \X Nodes \X U16
<1>1. msg.nic \in Nics /\ msg.peer \in Peers
  BY DEF Msgs
<1>2. PeerNode(msg.peer) \in Nodes /\ msg.peer.vlan \in U16
  BY <1>1 DEF PeerNode, Peers, Nodes
<1>3. QED
  BY <1>1, <1>2 DEF Entry

-----------------------------------------------------------------------------
(***************************************************************************)
(* Main's loops                                                            *)
(***************************************************************************)
LEMMA RangeFacts ==
    ASSUME NEW h \in Hosts
    PROVE  /\ Len(Ranges(h)) \in Nat /\ Len(Ranges(h)) >= 1
           /\ \A k \in 1 .. Len(Ranges(h)) : /\ Ranges(h)[k][1] \in U16
                                             /\ Ranges(h)[k][2] \in U16
                                             /\ Ranges(h)[k][1] <= Ranges(h)[k][2]
<1> DEFINE opt == IF VlanRanges[h] = <<>> THEN <<<<1, 4094>>>> ELSE VlanRanges[h]
           Pair == {p \in U16 \X U16 : p[1] <= p[2]}
<1>1. 0 \in U16 /\ 1 \in U16 /\ 4094 \in U16
  BY SMT DEF U16, Radix
<1>2. <<1, 4094>> \in Pair /\ <<0, 0>> \in Pair
  BY <1>1
<1>3. VlanRanges[h] \in Seq(U16 \X U16)
  BY RangeAssumption
<1>4. \A k \in 1 .. Len(VlanRanges[h]) : VlanRanges[h][k] \in Pair
  <2>1. DOMAIN VlanRanges[h] = 1 .. Len(VlanRanges[h])
    BY <1>3, LenProperties
  <2>2. \A k \in 1 .. Len(VlanRanges[h]) : VlanRanges[h][k] \in U16 \X U16
    BY <1>3, ElementOfSeq
  <2>3. QED
    BY <2>1, <2>2, RangeAssumption DEF vlan_range
<1> HIDE DEF Pair
<1>5. VlanRanges[h] \in Seq(Pair)
  BY <1>3, <1>4, LenProperties
<1>6. opt \in Seq(Pair)
  BY <1>2, <1>5, SeqOps
<1> HIDE DEF opt
<1>7. Ranges(h) = Append(opt, <<0, 0>>)
  BY DEF Ranges, opt
<1>8. Ranges(h) \in Seq(Pair) /\ Len(Ranges(h)) = Len(opt) + 1
  BY <1>2, <1>6, <1>7, AppendProperties
<1>9. Len(opt) \in Nat
  BY <1>6, LenProperties
<1>10. \A k \in 1 .. Len(Ranges(h)) : Ranges(h)[k] \in Pair
  BY <1>8, ElementOfSeq
<1>11. QED
  BY <1>8, <1>9, <1>10 DEF Pair

-----------------------------------------------------------------------------
(***************************************************************************)
(* The inductive invariant                                                 *)
(***************************************************************************)
IInv == TypeOK /\ SoundInv /\ TopoSound

LEMMA InitInv == Init => IInv
<1> SUFFICES ASSUME Init PROVE IInv
  OBVIOUS
<1>1. TypeOK
  BY SeqEmpty DEF Init, TypeOK, Cursors
<1>2. WireSound /\ CursorSound /\ TopoSound
  BY DEF Init, WireSound, CursorSound, TopoSound
<1>3. RxSound
  BY SeqEmpty DEF Init, RxSound
<1>4. HeldSound
  BY SeqEmpty DEF Init, HeldSound
<1>5. TopoChSound
  BY SeqEmpty DEF Init, TopoChSound
<1>6. QED
  BY <1>1, <1>2, <1>3, <1>4, <1>5 DEF IInv, SoundInv

\* The end of a process empties its queues and leaves the rest alone.
LEMMA ExitInv ==
    ASSUME IInv, NEW h \in Hosts, Exit(h), UNCHANGED nics
    PROVE  IInv'
<1>1. TypeOK'
  BY SeqEmpty DEF IInv, TypeOK, Exit, Cursors
<1>2. WireSound' /\ TopoSound'
  BY DEF IInv, SoundInv, Exit, WireSound, TopoSound
<1>3. RxSound'
  BY SeqEmpty DEF IInv, SoundInv, Exit, RxSound
<1>4. HeldSound'
  BY SeqEmpty DEF IInv, SoundInv, Exit, HeldSound
<1>5. TopoChSound'
  BY SeqEmpty DEF IInv, SoundInv, TypeOK, Exit, TopoChSound
<1>6. CursorSound'
  BY DEF IInv, SoundInv, TypeOK, Exit, CursorSound
<1>7. QED
  BY <1>1, <1>2, <1>3, <1>4, <1>5, <1>6 DEF IInv, SoundInv

\* Each part of the invariant depends on its own variables only.
LEMMA Keep ==
    ASSUME IInv
    PROVE  /\ wire' \subseteq wire => WireSound'
           /\ UNCHANGED rxq => RxSound'
           /\ UNCHANGED held => HeldSound'
           /\ UNCHANGED topoCh => TopoChSound'
           /\ UNCHANGED <<phase, cursor>> => CursorSound'
           /\ UNCHANGED <<connection, screen>> => TopoSound'
BY DEF IInv, SoundInv, WireSound, RxSound, HeldSound, TopoChSound, CursorSound, TopoSound

LEMMA StartProbeInv ==
    ASSUME IInv, NEW h \in Hosts, StartProbe(h)
    PROVE  IInv'
<1>1. /\ Ranges(h)[1][1] \in U16 /\ Ranges(h)[1][1] <= Ranges(h)[1][2]
      /\ 1 \in 1 .. Len(Ranges(h))
  BY RangeFacts
<1>2. PICK n \in UpNics(h) :
          /\ nics' = [nics EXCEPT ![h] = UpNics(h)]
          /\ todo' = [todo EXCEPT ![h] = UpNics(h) \ {n}]
          /\ cursor' = [cursor EXCEPT ![h] = First(h, n)]
  BY DEF StartProbe
<1>3. UpNics(h) \subseteq Nics /\ n \in Nics
  BY DEF UpNics, NicsOf
<1>4. First(h, n) \in [nic : Nics, r : Nat, v : U16]
      /\ First(h, n).r = 1 /\ First(h, n).v = Ranges(h)[1][1]
  BY <1>1, <1>3 DEF First
<1> HIDE DEF First, UpNics
<1>5. TypeOK'
  BY <1>2, <1>3, <1>4 DEF IInv, TypeOK, StartProbe, Cursors
<1>6. CursorSound'
  BY <1>1, <1>2, <1>4 DEF IInv, TypeOK, SoundInv, CursorSound, StartProbe
<1>7. WireSound' /\ RxSound' /\ HeldSound' /\ TopoChSound' /\ TopoSound'
  BY Keep DEF StartProbe
<1>8. QED
  BY <1>5, <1>6, <1>7 DEF IInv, SoundInv

LEMMA MainSendInv ==
    ASSUME IInv, NEW h \in Hosts, MainSend(h)
    PROVE  IInv'
<1> DEFINE c == cursor[h]
           req == [nic |-> c.nic,
                   peer |-> [host |-> <<>>, nic |-> <<>>, mac |-> Broadcast, vlan |-> c.v]]
<1>1. /\ phase[h] = "send" /\ c \in [nic : Nics, r : Nat, v : U16]
      /\ c.r \in 1 .. Len(Ranges(h)) /\ c.v <= Ranges(h)[c.r][2]
  BY DEF MainSend, IInv, SoundInv, CursorSound
<1>2. req \in Msgs
  BY <1>1, SeqEmpty DEF Msgs, Peers
<1>3. packetCh' = [packetCh EXCEPT ![h] = Append(@, req)]
  BY DEF MainSend
<1> HIDE DEF req
<1>4. packetCh' \in [Hosts -> Seq(Msgs)]
  BY <1>2, <1>3, SeqOps DEF IInv, TypeOK
<1>5. /\ Len(Ranges(h)) \in Nat /\ 1 \in 1 .. Len(Ranges(h))
      /\ \A k \in 1 .. Len(Ranges(h)) : /\ Ranges(h)[k][1] \in U16
                                        /\ Ranges(h)[k][2] \in U16
                                        /\ Ranges(h)[k][1] <= Ranges(h)[k][2]
  BY RangeFacts
<1>6. \A x \in U16, y \in U16 : x < y => x + 1 \in U16 /\ x + 1 <= y
  BY RadixPos DEF U16
<1>7. /\ cursor' \in [Hosts -> Cursors] /\ phase' \in [Hosts -> {"init", "send", "join", "exit"}]
      /\ todo' \in [Hosts -> SUBSET Nics]
      /\ \A k \in Hosts \ {h} : cursor'[k] = cursor[k] /\ phase'[k] = phase[k]
      /\ phase'[h] = "send" => /\ cursor'[h] \in [nic : Nics, r : Nat, v : U16]
                               /\ cursor'[h].r \in 1 .. Len(Ranges(h))
                               /\ cursor'[h].v <= Ranges(h)[cursor'[h].r][2]
  <2>1. CASE /\ c.v < Ranges(h)[c.r][2]
             /\ cursor' = [cursor EXCEPT ![h].v = @ + 1]
             /\ UNCHANGED <<phase, todo>>
    <3>1. c.v + 1 \in U16 /\ c.v + 1 <= Ranges(h)[c.r][2]
      BY <1>1, <1>5, <1>6, <2>1
    <3>2. [c EXCEPT !.v = @ + 1] \in [nic : Nics, r : Nat, v : U16]
      BY <1>1, <3>1
    <3>3. cursor' = [cursor EXCEPT ![h] = [c EXCEPT !.v = @ + 1]]
      BY <2>1
    <3>4. QED
      BY <1>1, <2>1, <3>1, <3>2, <3>3 DEF IInv, TypeOK, Cursors
  <2>2. CASE /\ c.v = Ranges(h)[c.r][2] /\ c.r < Len(Ranges(h))
             /\ cursor' = [cursor EXCEPT ![h] = [c EXCEPT !.r = @ + 1,
                                                !.v = Ranges(h)[c.r + 1][1]]]
             /\ UNCHANGED <<phase, todo>>
    <3> DEFINE d == [c EXCEPT !.r = @ + 1, !.v = Ranges(h)[c.r + 1][1]]
    <3>1. c.r + 1 \in 1 .. Len(Ranges(h)) /\ c.r + 1 \in Nat
      BY <1>1, <1>5, <2>2
    <3>2. /\ d \in [nic : Nics, r : Nat, v : U16]
          /\ d.r = c.r + 1 /\ d.v = Ranges(h)[c.r + 1][1]
      BY <1>1, <1>5, <3>1
    <3>3. cursor' = [cursor EXCEPT ![h] = d]
      BY <2>2
    <3> HIDE DEF d
    <3>4. QED
      BY <1>1, <1>5, <2>2, <3>1, <3>2, <3>3 DEF IInv, TypeOK, Cursors
  <2>3. CASE /\ \E n \in todo[h] : /\ cursor' = [cursor EXCEPT ![h] = First(h, n)]
                                   /\ todo' = [todo EXCEPT ![h] = @ \ {n}]
             /\ UNCHANGED phase
    <3>1. PICK n \in todo[h] : /\ cursor' = [cursor EXCEPT ![h] = First(h, n)]
                               /\ todo' = [todo EXCEPT ![h] = @ \ {n}]
      BY <2>3
    <3>2. n \in Nics
      BY DEF IInv, TypeOK
    <3>3. First(h, n) \in [nic : Nics, r : Nat, v : U16]
          /\ First(h, n).r = 1 /\ First(h, n).v = Ranges(h)[1][1]
      BY <1>5, <3>2 DEF First
    <3> HIDE DEF First
    <3>4. QED
      BY <1>1, <1>5, <2>3, <3>1, <3>3 DEF IInv, TypeOK, Cursors
  <2>4. CASE /\ cursor' = [cursor EXCEPT ![h] = NoCursor]
             /\ phase' = [phase EXCEPT ![h] = "join"]
             /\ UNCHANGED todo
    BY <2>4 DEF IInv, TypeOK, Cursors
  <2>5. QED
    BY <2>1, <2>2, <2>3, <2>4 DEF MainSend
<1>8. CursorSound'
  BY <1>7 DEF CursorSound, IInv, SoundInv
<1>9. TypeOK'
  BY <1>4, <1>7 DEF MainSend, IInv, TypeOK, recvVars, showVars
<1>10. WireSound' /\ RxSound' /\ HeldSound' /\ TopoChSound' /\ TopoSound'
  BY Keep DEF MainSend, recvVars, showVars
<1>11. QED
  BY <1>8, <1>9, <1>10 DEF IInv, SoundInv

-----------------------------------------------------------------------------
(***************************************************************************)
(* recv_packet                                                             *)
(***************************************************************************)
LEMMA SocketInv ==
    ASSUME IInv, NEW n \in Nics, NewSocket(n) \/ Bind(n)
    PROVE  IInv'
<1>1. TypeOK'
  BY DEF IInv, TypeOK, NewSocket, Bind, mainVars, showVars
<1>2. SoundInv' /\ TopoSound'
  BY Keep DEF NewSocket, Bind, mainVars, showVars, SoundInv
<1>3. QED
  BY <1>1, <1>2 DEF IInv

LEMMA DiesInv ==
    ASSUME IInv, NEW n \in Nics, Dies(n),
           UNCHANGED <<mainVars, packetCh, topoCh, sender, showVars, wire>>
    PROVE  IInv'
<1>1. TypeOK'
  BY SeqEmpty DEF IInv, TypeOK, Dies, mainVars, showVars
<1>2. RxSound'
  BY SeqEmpty DEF IInv, TypeOK, SoundInv, RxSound, Dies
<1>3. HeldSound'
  BY SeqEmpty DEF IInv, TypeOK, SoundInv, HeldSound, Dies
<1>4. WireSound' /\ TopoChSound' /\ CursorSound' /\ TopoSound'
  BY Keep DEF mainVars, showVars
<1>5. QED
  BY <1>1, <1>2, <1>3, <1>4 DEF IInv, SoundInv

\* What a receiver parses out of a true frame is a true connection.
LEMMA GoodParse ==
    ASSUME NEW h \in Hosts, NEW r \in GoodRx(h)
    PROVE  [nic |-> r.nic, peer |-> parse(r.frame).peer] \in GoodMsg(h)
<1> DEFINE f == r.frame
           p == parse(f).peer
           msg == [nic |-> r.nic, peer |-> p]
<1>1. r.nic \in Nics /\ f \in Frames /\ HostOf[r.nic] = h /\ GoodFrame(r.nic, f)
  BY DEF GoodRx
<1>2. p \in Peers
  BY <1>1, ParseType
<1>3. p.vlan \in U16
  BY <1>2 DEF Peers
<1>4. PICK m \in Nics :
         /\ r.nic \in Reach(m, AsVid(p.vlan))
         /\ f = Retag(builder(NameOf[m], MacOf[m], f.dst, p.vlan, HostName[HostOf[m]]),
                      f.tagged)
  BY <1>1 DEF GoodFrame
<1>5. parse(f) = [peer    |-> [host |-> HostName[HostOf[m]], nic |-> NameOf[m],
                               mac |-> MacOf[m], vlan |-> p.vlan],
                  request |-> f.dst = Broadcast]
  <2> DEFINE v   == p.vlan
             dst == f.dst
             tag == f.tagged
             nic == NameOf[m]
             mac == MacOf[m]
             hst == HostName[HostOf[m]]
             g   == Retag(builder(nic, mac, dst, v, hst), tag)
  <2>1. v \in U16 /\ f = g
    BY <1>3, <1>4
  <2>2. nic \in Seq(Byte) /\ hst \in Seq(Byte) /\ Len(nic) < Radix /\ Len(hst) < Radix
    BY Names
  <2> HIDE DEF v, dst, tag, nic, mac, hst
  <2>3. parse(g) = [peer    |-> [host |-> hst, nic |-> nic, mac |-> mac, vlan |-> v],
                    request |-> dst = Broadcast]
    BY <2>1, <2>2, RoundTrip
  <2> HIDE DEF g
  <2>4. parse(f) = [peer    |-> [host |-> hst, nic |-> nic, mac |-> mac, vlan |-> v],
                    request |-> dst = Broadcast]
    BY <2>1, <2>3, Zenon
  <2>5. QED
    BY <2>4, Zenon DEF v, dst, nic, mac, hst
<1>6. /\ p.host = HostName[HostOf[m]] /\ p.nic = NameOf[m] /\ p.mac = MacOf[m]
  BY <1>5
<1>7. Entry(msg) = <<r.nic, NodeOf(m), p.vlan>>
  BY <1>6 DEF Entry, PeerNode, NodeOf
<1>8. IsFact(h, <<r.nic, NodeOf(m), p.vlan>>)
  BY <1>1, <1>4 DEF IsFact
<1>9. msg \in Msgs
  BY <1>1, <1>2 DEF Msgs
<1>10. IsFact(h, Entry(msg))
  BY <1>7, <1>8, Zenon
<1>11. QED
  BY <1>9, <1>10 DEF GoodMsg

LEMMA RecvFrameInv ==
    ASSUME IInv, NEW n \in Nics, RecvFrame(n)
    PROVE  IInv'
<1> DEFINE h   == HostOf[n]
           got == Head(rxq[n])
           p   == parse(got.frame)
           msg == [nic |-> got.nic, peer |-> p.peer]
<1>1. h \in Hosts
  BY Names
<1>2. /\ rxq[n] \in Seq(GoodRx(h)) /\ rxq[n] # <<>>
      /\ rxq[n] \in Seq([nic : Nics, frame : Frames])
  BY DEF IInv, SoundInv, RxSound, TypeOK, RecvFrame
<1>3. got \in GoodRx(h) /\ Tail(rxq[n]) \in Seq(GoodRx(h))
      /\ Tail(rxq[n]) \in Seq([nic : Nics, frame : Frames])
  BY <1>2, SeqTake
<1>4. msg \in GoodMsg(h)
  BY <1>1, <1>3, GoodParse
<1>5. msg \in Msgs
  BY <1>4 DEF GoodMsg
<1>6. CASE Dies(n) /\ UNCHANGED packetCh
  BY <1>6, DiesInv DEF RecvFrame
<1>7. CASE /\ packetCh' = IF p.request THEN [packetCh EXCEPT ![h] = Append(@, msg)]
                                       ELSE packetCh
           /\ held' = [held EXCEPT ![n] = <<msg>>]
           /\ rxq' = [rxq EXCEPT ![n] = Tail(@)]
           /\ UNCHANGED sock
  <2> HIDE DEF msg, p, got, h
  <2>0. UNCHANGED <<mainVars, topoCh, sender, showVars, wire>>
    BY DEF RecvFrame
  <2>1. packetCh' \in [Hosts -> Seq(Msgs)]
    <3>1. packetCh \in [Hosts -> Seq(Msgs)]
      BY DEF IInv, TypeOK
    <3>2. Append(packetCh[h], msg) \in Seq(Msgs)
      BY <1>1, <1>5, <3>1, SeqOps
    <3>3. QED
      BY <1>1, <1>7, <3>1, <3>2
  <2>2. <<msg>> \in Seq(Msgs) /\ <<msg>> \in Seq(GoodMsg(h))
    BY <1>4, <1>5
  <2>3. held' \in [Nics -> Seq(Msgs)] /\ rxq' \in [Nics -> Seq([nic : Nics, frame : Frames])]
    BY <1>3, <1>7, <2>2 DEF IInv, TypeOK
  <2>4. TypeOK'
    BY <1>7, <2>0, <2>1, <2>3 DEF IInv, TypeOK, mainVars, showVars
  <2>5. RxSound'
    <3>1. \A k \in Nics \ {n} : rxq'[k] = rxq[k]
      BY <1>7 DEF IInv, TypeOK
    <3>2. rxq'[n] = Tail(rxq[n])
      BY <1>7 DEF IInv, TypeOK
    <3>3. QED
      BY <1>3, <3>1, <3>2 DEF IInv, SoundInv, RxSound, h
  <2>6. HeldSound'
    <3>1. \A k \in Nics \ {n} : held'[k] = held[k]
      BY <1>7 DEF IInv, TypeOK
    <3>2. held'[n] = <<msg>>
      BY <1>7 DEF IInv, TypeOK
    <3>3. QED
      BY <2>2, <3>1, <3>2 DEF IInv, SoundInv, HeldSound, h
  <2>7. WireSound' /\ TopoChSound' /\ CursorSound' /\ TopoSound'
    BY <2>0, Keep DEF mainVars, showVars
  <2>8. QED
    BY <2>4, <2>5, <2>6, <2>7 DEF IInv, SoundInv
<1>8. QED
  BY <1>6, <1>7 DEF RecvFrame

LEMMA RecvTopoInv ==
    ASSUME IInv, NEW n \in Nics, RecvTopo(n)
    PROVE  IInv'
<1> DEFINE h == HostOf[n]
<1>1. h \in Hosts
  BY Names
<1>2. /\ held[n] \in Seq(GoodMsg(h)) /\ held[n] \in Seq(Msgs) /\ held[n] # <<>>
      /\ topoCh[h] \in Seq(GoodMsg(h)) /\ topoCh[h] \in Seq(Msgs)
  BY <1>1 DEF IInv, SoundInv, HeldSound, TopoChSound, TypeOK, RecvTopo
<1>3. Head(held[n]) \in GoodMsg(h) /\ Head(held[n]) \in Msgs
  BY <1>2, SeqTake
<1>4. CASE Dies(n) /\ UNCHANGED topoCh
  BY <1>4, DiesInv DEF RecvTopo
<1>5. CASE /\ topoCh' = [topoCh EXCEPT ![h] = Append(@, Head(held[n]))]
           /\ held' = [held EXCEPT ![n] = <<>>]
           /\ UNCHANGED <<sock, rxq>>
  <2> HIDE DEF h
  <2>0. UNCHANGED <<mainVars, packetCh, sender, showVars, wire>>
    BY DEF RecvTopo
  <2>1. Append(topoCh[h], Head(held[n])) \in Seq(GoodMsg(h))
        /\ Append(topoCh[h], Head(held[n])) \in Seq(Msgs)
    BY <1>2, <1>3, SeqOps
  <2>2. TypeOK'
    BY <1>1, <1>5, <2>0, <2>1, SeqEmpty DEF IInv, TypeOK, mainVars, showVars
  <2>3. TopoChSound'
    BY <1>1, <1>5, <2>1 DEF IInv, TypeOK, SoundInv, TopoChSound
  <2>4. HeldSound'
    BY <1>5, SeqEmpty DEF IInv, TypeOK, SoundInv, HeldSound
  <2>5. WireSound' /\ RxSound' /\ CursorSound' /\ TopoSound'
    BY <1>5, <2>0, Keep DEF mainVars, showVars
  <2>6. QED
    BY <2>2, <2>3, <2>4, <2>5 DEF IInv, SoundInv
<1>6. QED
  BY <1>4, <1>5 DEF RecvTopo

-----------------------------------------------------------------------------
(***************************************************************************)
(* send_packet and the network                                             *)
(***************************************************************************)
\* The frame send_packet builds is a true one wherever the switch takes it.
LEMMA GoodSend ==
    ASSUME NEW msg \in Msgs, NEW flood,
           NEW m \in Receivers(msg.nic, FrameFor(msg), flood)
    PROVE  GoodFrame(m, FrameFor(msg))
<1> DEFINE n   == msg.nic
           v   == msg.peer.vlan
           dst == msg.peer.mac
           nic == NameOf[n]
           mac == MacOf[n]
           hst == HostName[HostOf[n]]
           f   == FrameFor(msg)
<1>1. n \in Nics /\ msg.peer \in Peers
  BY DEF Msgs
<1>2. v \in U16
  BY <1>1 DEF Peers
<1>3. nic \in Seq(Byte) /\ hst \in Seq(Byte) /\ Len(nic) < Radix /\ Len(hst) < Radix
  BY <1>1, Names
<1>4. f = builder(nic, mac, dst, v, hst)
  BY DEF FrameFor
<1>5. m \in Reach(n, AsVid(v))
  BY FrameType DEF Receivers
<1>6. f.dst = dst
  BY <1>4 DEF builder
<1> HIDE DEF f, nic, mac, hst, dst, v
<1>7. f = Retag(builder(nic, mac, dst, v, hst), f.tagged)
  BY <1>4 DEF builder, Retag
<1>8. parse(Retag(builder(nic, mac, dst, v, hst), f.tagged))
        = [peer    |-> [host |-> hst, nic |-> nic, mac |-> mac, vlan |-> v],
           request |-> dst = Broadcast]
  BY <1>2, <1>3, RoundTrip
<1>9. parse(f).peer.vlan = v
  BY <1>7, <1>8
<1>10. f = Retag(builder(NameOf[n], MacOf[n], f.dst, parse(f).peer.vlan,
                         HostName[HostOf[n]]), f.tagged)
  BY <1>6, <1>7, <1>9, Zenon DEF nic, mac, hst
<1>11. GoodFrame(m, f)
  BY <1>1, <1>5, <1>9, <1>10, Zenon DEF GoodFrame
<1>12. QED
  BY <1>11, Zenon DEF f

\* Taking the tag off leaves a true frame true.
LEMMA GoodRetag ==
    ASSUME NEW n \in Nics, NEW f \in Frames, GoodFrame(n, f), NEW tag \in BOOLEAN
    PROVE  Retag(f, tag) \in Frames /\ GoodFrame(n, Retag(f, tag))
<1> DEFINE g == Retag(f, tag)
<1>1. g \in Frames /\ g.data = f.data /\ g.src = f.src /\ g.op = f.op /\ g.dst = f.dst
      /\ g.tagged = tag
  BY DEF Retag, Frames
<1>2. \A b : Retag(Retag(b, f.tagged), tag) = Retag(b, tag)
  BY DEF Retag
<1> HIDE DEF g
<1>3. \A k : At(g, k) = At(f, k)
  BY <1>1, Zenon DEF At
<1>4. NicLen(g) = NicLen(f)
  BY <1>3, Zenon DEF NicLen
<1>5. HostLen(g) = HostLen(f)
  BY <1>3, <1>4, Zenon DEF HostLen
<1>6. parse(g).peer.vlan = parse(f).peer.vlan
  BY <1>3, <1>4, <1>5 DEF parse
<1>7. PICK m \in Nics :
         /\ n \in Reach(m, AsVid(parse(f).peer.vlan))
         /\ f = Retag(builder(NameOf[m], MacOf[m], f.dst, parse(f).peer.vlan,
                              HostName[HostOf[m]]), f.tagged)
  BY DEF GoodFrame
<1>8. Retag(f, tag) = Retag(builder(NameOf[m], MacOf[m], f.dst, parse(f).peer.vlan,
                                    HostName[HostOf[m]]), tag)
  BY <1>2, <1>7, Zenon
<1>9. g = Retag(builder(NameOf[m], MacOf[m], g.dst, parse(g).peer.vlan,
                        HostName[HostOf[m]]), g.tagged)
  BY <1>1, <1>6, <1>8, Zenon DEF g
<1>10. GoodFrame(n, g)
  BY <1>6, <1>7, <1>9, Zenon DEF GoodFrame
<1>11. QED
  BY <1>1, <1>10, Zenon DEF g

LEMMA SenderDiesInv ==
    ASSUME IInv, NEW h \in Hosts, SenderDies(h),
           UNCHANGED <<mainVars, recvVars, topoCh, showVars, wire>>
    PROVE  IInv'
<1>1. TypeOK'
  BY SeqEmpty DEF IInv, TypeOK, SenderDies, mainVars, recvVars, showVars
<1>2. SoundInv' /\ TopoSound'
  BY Keep DEF mainVars, recvVars, showVars, SoundInv
<1>3. QED
  BY <1>1, <1>2 DEF IInv

LEMMA SendPacketInv ==
    ASSUME IInv, NEW h \in Hosts, SendPacket(h)
    PROVE  IInv'
<1> DEFINE msg == Head(packetCh[h])
           f   == FrameFor(msg)
           new(flood) == {[to |-> m, frame |-> f] : m \in Receivers(msg.nic, f, flood)}
<1>1. packetCh[h] \in Seq(Msgs) /\ packetCh[h] # <<>>
  BY DEF IInv, TypeOK, SendPacket
<1>2. msg \in Msgs /\ Tail(packetCh[h]) \in Seq(Msgs)
  BY <1>1, SeqTake
<1>3. f \in Frames /\ f.vid \in Vid /\ msg.nic \in Nics
  <2>1. f \in Frames
    BY <1>2, FrameType
  <2>2. QED
    BY <1>2, <2>1 DEF Frames, Msgs
<1>4. UNCHANGED <<mainVars, recvVars, topoCh, showVars>>
  BY DEF SendPacket
<1>5. CASE SenderDies(h) /\ UNCHANGED wire
  BY <1>4, <1>5, SenderDiesInv
<1>6. ASSUME packetCh' = [packetCh EXCEPT ![h] = Tail(@)], UNCHANGED sender,
             wire' \subseteq [to : Nics, frame : Frames]
      PROVE  TypeOK' /\ RxSound' /\ HeldSound' /\ TopoChSound' /\ CursorSound' /\ TopoSound'
  <2>1. TypeOK'
    BY <1>2, <1>4, <1>6 DEF IInv, TypeOK, mainVars, recvVars, showVars
  <2>2. RxSound' /\ HeldSound' /\ TopoChSound' /\ CursorSound' /\ TopoSound'
    BY <1>4, Keep DEF mainVars, recvVars, showVars
  <2>3. QED
    BY <2>1, <2>2
<1>7. CASE packetCh' = [packetCh EXCEPT ![h] = Tail(@)] /\ UNCHANGED <<sender, wire>>
  <2>1. wire' \subseteq [to : Nics, frame : Frames] /\ WireSound'
    BY <1>7, Keep DEF IInv, TypeOK
  <2>2. QED
    BY <1>6, <1>7, <2>1 DEF IInv, SoundInv
<1>8. CASE /\ packetCh' = [packetCh EXCEPT ![h] = Tail(@)]
           /\ \E flood \in {FALSE, Flooding} : wire' = wire \cup new(flood)
           /\ UNCHANGED sender
  <2>1. PICK flood \in {FALSE, Flooding} : wire' = wire \cup new(flood)
    BY <1>8
  <2>2. \A m \in Receivers(msg.nic, f, flood) : m \in Nics /\ GoodFrame(m, f)
    <3>1. Receivers(msg.nic, f, flood) \subseteq Reach(msg.nic, f.vid)
      BY DEF Receivers
    <3>2. Reach(msg.nic, f.vid) \subseteq Nics
      BY <1>3, NetworkAssumption
    <3>3. QED
      BY <1>2, <3>1, <3>2, GoodSend
  <2> HIDE DEF f
  <2>3. \A d \in new(flood) : /\ d \in [to : Nics, frame : Frames]
                              /\ GoodFrame(d.to, d.frame)
    BY <1>3, <2>2
  <2> HIDE DEF new
  <2>4. wire' \subseteq [to : Nics, frame : Frames]
    BY <2>1, <2>3 DEF IInv, TypeOK
  <2>5. WireSound'
    BY <2>1, <2>3, Zenon DEF IInv, SoundInv, WireSound
  <2>6. QED
    BY <1>6, <1>8, <2>4, <2>5 DEF IInv, SoundInv
<1>9. QED
  BY <1>5, <1>7, <1>8 DEF SendPacket

LEMMA SenderStartInv ==
    ASSUME IInv, NEW h \in Hosts, SenderStart(h)
    PROVE  IInv'
<1>1. TypeOK'
  BY DEF IInv, TypeOK, SenderStart, mainVars, recvVars, showVars
<1>2. SoundInv' /\ TopoSound'
  BY Keep DEF SenderStart, mainVars, recvVars, showVars, SoundInv
<1>3. QED
  BY <1>1, <1>2 DEF IInv

LEMMA DeliverInv ==
    ASSUME IInv, NEW d \in wire, Deliver(d)
    PROVE  IInv'
<1> DEFINE r == [nic |-> d.to, frame |-> Retag(d.frame, FALSE)]
<1>1. d.to \in Nics /\ d.frame \in Frames /\ GoodFrame(d.to, d.frame)
  BY DEF IInv, TypeOK, SoundInv, WireSound
<1>2. Retag(d.frame, FALSE) \in Frames /\ GoodFrame(d.to, Retag(d.frame, FALSE))
  BY <1>1, GoodRetag
<1>3. r \in [nic : Nics, frame : Frames]
  BY <1>1, <1>2
<1>4. ASSUME NEW n \in Nics, Hears(n, d.to) PROVE r \in GoodRx(HostOf[n])
  <2>1. HostOf[d.to] = HostOf[n]
    BY <1>4 DEF Hears
  <2>2. QED
    BY <1>2, <1>3, <2>1 DEF GoodRx
<1>5. rxq' = [n \in Nics |-> IF Hears(n, d.to) THEN Append(rxq[n], r) ELSE rxq[n]]
  BY DEF Deliver
<1>6. wire' \subseteq wire /\ UNCHANGED <<mainVars, sock, held, packetCh, topoCh, sender, showVars>>
  BY DEF Deliver
<1> HIDE DEF r
<1>7. rxq' \in [Nics -> Seq([nic : Nics, frame : Frames])]
  <2>1. \A n \in Nics : /\ rxq[n] \in Seq([nic : Nics, frame : Frames])
                        /\ Append(rxq[n], r) \in Seq([nic : Nics, frame : Frames])
    BY <1>3, SeqOps DEF IInv, TypeOK
  <2>2. QED
    BY <1>5, <2>1
<1>8. TypeOK'
  BY <1>6, <1>7 DEF IInv, TypeOK, mainVars, showVars
<1>9. RxSound'
  <2> SUFFICES ASSUME NEW n \in Nics PROVE rxq'[n] \in Seq(GoodRx(HostOf[n]))
    BY DEF RxSound
  <2>1. rxq[n] \in Seq(GoodRx(HostOf[n]))
    BY DEF IInv, SoundInv, RxSound
  <2>2. CASE Hears(n, d.to)
    <3>1. Append(rxq[n], r) \in Seq(GoodRx(HostOf[n]))
      BY <1>4, <2>1, <2>2, SeqOps
    <3>2. QED
      BY <1>5, <2>2, <3>1
  <2>3. CASE ~Hears(n, d.to)
    BY <1>5, <2>1, <2>3
  <2>4. QED
    BY <2>2, <2>3
<1>10. WireSound' /\ HeldSound' /\ TopoChSound' /\ CursorSound' /\ TopoSound'
  BY <1>6, Keep DEF mainVars, showVars
<1>11. QED
  BY <1>8, <1>9, <1>10 DEF IInv, SoundInv

LEMMA LoseInv ==
    ASSUME IInv, NEW d \in wire, Lose(d)
    PROVE  IInv'
<1>1. TypeOK'
  BY DEF IInv, TypeOK, Lose, mainVars, recvVars, showVars
<1>2. SoundInv' /\ TopoSound'
  BY Keep DEF Lose, mainVars, recvVars, showVars, SoundInv
<1>3. QED
  BY <1>1, <1>2 DEF IInv

-----------------------------------------------------------------------------
(***************************************************************************)
(* show_topo                                                               *)
(***************************************************************************)
LEMMA ShowRecvFact ==
    ASSUME IInv, NEW h \in Hosts, ShowRecv(h)
    PROVE  LET msg == Head(topoCh[h])
           IN  /\ msg \in Msgs /\ IsFact(h, Entry(msg))
               /\ Tail(topoCh[h]) \in Seq(GoodMsg(h))
               /\ Tail(topoCh[h]) \in Seq(Msgs)
<1>1. topoCh[h] \in Seq(GoodMsg(h)) /\ topoCh[h] \in Seq(Msgs) /\ topoCh[h] # <<>>
  BY DEF IInv, TypeOK, SoundInv, TopoChSound, ShowRecv
<1>2. Head(topoCh[h]) \in GoodMsg(h)
  BY <1>1, SeqTake
<1>3. QED
  BY <1>1, <1>2, SeqTake DEF GoodMsg

LEMMA ShowRecvInv ==
    ASSUME IInv, NEW h \in Hosts, ShowRecv(h)
    PROVE  IInv'
<1> DEFINE msg == Head(topoCh[h])
           e   == Entry(msg)
<1>1. /\ e \in Nics \X Nodes \X U16 /\ IsFact(h, e)
      /\ Tail(topoCh[h]) \in Seq(GoodMsg(h)) /\ Tail(topoCh[h]) \in Seq(Msgs)
  BY ShowRecvFact, EntryType
<1>2. /\ topoCh' = [topoCh EXCEPT ![h] = Tail(@)]
      /\ UNCHANGED <<mainVars, recvVars, packetCh, sender, screen, wire>>
      /\ \/ UNCHANGED <<connection, show>>
         \/ /\ connection' = [connection EXCEPT ![h] = @ \cup {e}]
            /\ show' = [show EXCEPT ![h] = IF Tail(topoCh[h]) = <<>> THEN "sleep" ELSE "recv"]
  BY DEF ShowRecv
<1> HIDE DEF e, msg
<1>3. TypeOK'
  <2>1. /\ connection' \in [Hosts -> SUBSET (Nics \X Nodes \X U16)]
        /\ show' \in [Hosts -> {"off", "recv", "sleep", "end"}]
    <3>1. CASE UNCHANGED <<connection, show>>
      BY <3>1 DEF IInv, TypeOK
    <3>2. CASE /\ connection' = [connection EXCEPT ![h] = @ \cup {e}]
               /\ show' = [show EXCEPT ![h] = IF Tail(topoCh[h]) = <<>> THEN "sleep" ELSE "recv"]
      BY <1>1, <3>2 DEF IInv, TypeOK
    <3>3. QED
      BY <1>2, <3>1, <3>2
  <2>2. topoCh' \in [Hosts -> Seq(Msgs)]
    BY <1>1, <1>2 DEF IInv, TypeOK
  <2>3. QED
    BY <1>2, <2>1, <2>2 DEF IInv, TypeOK, mainVars, recvVars
<1>4. TopoChSound'
  BY <1>1, <1>2 DEF IInv, TypeOK, SoundInv, TopoChSound
<1>5. TopoSound'
  <2>1. CASE UNCHANGED connection
    BY <1>2, <2>1, Keep
  <2>2. CASE connection' = [connection EXCEPT ![h] = @ \cup {e}]
    BY <1>1, <1>2, <2>2 DEF IInv, TypeOK, TopoSound
  <2>3. QED
    BY <1>2, <2>1, <2>2
<1>6. WireSound' /\ RxSound' /\ HeldSound' /\ CursorSound'
  BY <1>2, Keep DEF mainVars, recvVars
<1>7. QED
  BY <1>3, <1>4, <1>5, <1>6 DEF IInv, SoundInv

LEMMA ShowWakeInv ==
    ASSUME IInv, NEW h \in Hosts, ShowWake(h)
    PROVE  IInv'
<1>1. TypeOK'
  BY DEF IInv, TypeOK, ShowWake, mainVars, recvVars
<1>2. TopoSound'
  <2>1. \A k \in Hosts : /\ connection'[k] = connection[k]
                        /\ \/ screen'[k] = screen[k]
                           \/ screen'[k] = connection[k]
    BY DEF IInv, TypeOK, ShowWake
  <2>2. QED
    BY <2>1 DEF IInv, TopoSound
<1>3. WireSound' /\ RxSound' /\ HeldSound' /\ CursorSound' /\ TopoChSound'
  BY Keep DEF ShowWake, mainVars, recvVars
<1>4. QED
  BY <1>1, <1>2, <1>3 DEF IInv, SoundInv

LEMMA ShowEndInv ==
    ASSUME IInv, NEW h \in Hosts, ShowEnd(h)
    PROVE  IInv'
<1>1. TypeOK'
  BY SeqEmpty DEF IInv, TypeOK, ShowEnd, mainVars, recvVars
<1>2. TopoChSound'
  BY SeqEmpty DEF IInv, TypeOK, SoundInv, TopoChSound, ShowEnd
<1>3. WireSound' /\ RxSound' /\ HeldSound' /\ CursorSound' /\ TopoSound'
  BY Keep DEF ShowEnd, mainVars, recvVars
<1>4. QED
  BY <1>1, <1>2, <1>3 DEF IInv, SoundInv

LEMMA StutterInv == IInv /\ UNCHANGED vars => IInv'
BY DEF IInv, TypeOK, SoundInv, WireSound, RxSound, HeldSound, TopoChSound, CursorSound,
       TopoSound, vars, mainVars, recvVars, showVars

LEMMA NextInv == IInv /\ [Next]_vars => IInv'
<1> SUFFICES ASSUME IInv, [Next]_vars PROVE IInv'
  OBVIOUS
<1>1. ASSUME NEW h \in Hosts, StartExit(h) \/ MainPanic(h) \/ MainReturn(h) PROVE IInv'
  BY <1>1, ExitInv DEF StartExit, MainPanic, MainReturn
<1>2. ASSUME NEW h \in Hosts, StartProbe(h) \/ MainSend(h) PROVE IInv'
  BY <1>2, StartProbeInv, MainSendInv
<1>3. ASSUME NEW h \in Hosts, Sender(h) \/ SenderEnd(h) PROVE IInv'
  BY <1>3, SenderStartInv, SendPacketInv, SenderDiesInv DEF Sender, SenderEnd
<1>4. ASSUME NEW h \in Hosts, ShowTopo(h) PROVE IInv'
  BY <1>4, ShowRecvInv, ShowWakeInv, ShowEndInv DEF ShowTopo
<1>5. ASSUME NEW n \in Nics, Recv(n) PROVE IInv'
  BY <1>5, SocketInv, RecvFrameInv, RecvTopoInv DEF Recv
<1>6. ASSUME NEW n \in Nics, RecvPanic(n) PROVE IInv'
  BY <1>6, DiesInv DEF RecvPanic
<1>7. ASSUME NEW d \in wire, Deliver(d) \/ Lose(d) PROVE IInv'
  BY <1>7, DeliverInv, LoseInv
<1>8. CASE UNCHANGED vars
  BY <1>8, StutterInv
<1>9. QED
  BY <1>1, <1>2, <1>3, <1>4, <1>5, <1>6, <1>7, <1>8 DEF Next, Main

-----------------------------------------------------------------------------
LEMMA Inductive == Spec => []IInv
  BY InitInv, NextInv, PTL DEF Spec

(***************************************************************************)
(* All tasks keep their state well formed.                                 *)
(***************************************************************************)
THEOREM TypeCorrect == Spec => []TypeOK
<1>1. IInv => TypeOK
  BY DEF IInv
<1>2. QED
  BY <1>1, Inductive, PTL

(***************************************************************************)
(* Every frame and message on the way is true.                             *)
(***************************************************************************)
THEOREM PathSound == Spec => []SoundInv
<1>1. IInv => SoundInv
  BY DEF IInv
<1>2. QED
  BY <1>1, Inductive, PTL

(***************************************************************************)
(* What show_topo keeps and prints is true of the network, for any number  *)
(* of hosts, interfaces and VLANs, any names and any schedule, with loss,  *)
(* flooding, unbound sockets and dying tasks.                              *)
(***************************************************************************)
THEOREM Soundness == Spec => []TopoSound
<1>1. IInv => TopoSound
  BY DEF IInv
<1>2. QED
  BY <1>1, Inductive, PTL

(***************************************************************************)
(* The tasks, channels and frames implement the abstract record: a table   *)
(* only gains true entries, and the screen is a snapshot of it.            *)
(***************************************************************************)
THEOREM Refinement == Spec => Implements
<1>1. Init => Knowledge!Init
  BY DEF Init, Knowledge!Init
<1>2. IInv /\ [Next]_vars => [Knowledge!Next]_(Knowledge!vars)
  <2> SUFFICES ASSUME IInv, [Next]_vars PROVE [Knowledge!Next]_(Knowledge!vars)
    OBVIOUS
  <2>1. ASSUME NEW h \in Hosts, ShowRecv(h) PROVE Knowledge!Learn(h) \/ UNCHANGED <<connection, screen>>
    <3> DEFINE e == Entry(Head(topoCh[h]))
    <3>1. IsFact(h, e)
      BY <2>1, ShowRecvFact
    <3>2. UNCHANGED screen
      BY <2>1 DEF ShowRecv
    <3>3. CASE UNCHANGED connection
      BY <3>2, <3>3
    <3>4. CASE connection' = [connection EXCEPT ![h] = @ \cup {e}]
      <4> HIDE DEF e
      <4>1. e \in connection'[h]
        BY <3>4 DEF IInv, TypeOK
      <4>2. QED
        BY <3>1, <3>2, <3>4, <4>1 DEF Knowledge!Learn
    <3>5. QED
      BY <2>1, <3>3, <3>4 DEF ShowRecv
  <2>2. ASSUME NEW h \in Hosts, ShowWake(h) PROVE Knowledge!Show(h) \/ UNCHANGED <<connection, screen>>
    BY <2>2 DEF ShowWake, Knowledge!Show
  <2>3. ASSUME NEW h \in Hosts, StartExit(h) \/ MainPanic(h) \/ MainReturn(h) \/ StartProbe(h)
        PROVE  UNCHANGED <<connection, screen>>
    BY <2>3 DEF StartExit, MainPanic, MainReturn, StartProbe, Exit
  <2>4. ASSUME NEW h \in Hosts, MainSend(h) \/ Sender(h) \/ SenderEnd(h) \/ ShowEnd(h)
        PROVE  UNCHANGED <<connection, screen>>
    BY <2>4 DEF MainSend, Sender, SenderStart, SendPacket, SenderEnd, ShowEnd, showVars
  <2>5. ASSUME NEW n \in Nics, Recv(n) \/ RecvPanic(n)
        PROVE  UNCHANGED <<connection, screen>>
    BY <2>5 DEF Recv, NewSocket, Bind, RecvFrame, RecvTopo, RecvPanic, showVars
  <2>6. ASSUME NEW d \in wire, Deliver(d) \/ Lose(d)
        PROVE  UNCHANGED <<connection, screen>>
    BY <2>6 DEF Deliver, Lose, showVars
  <2>7. CASE UNCHANGED vars
    BY <2>7 DEF vars, showVars, Knowledge!vars
  <2>8. QED
    BY <2>1, <2>2, <2>3, <2>4, <2>5, <2>6, <2>7
       DEF Next, Main, ShowTopo, Knowledge!Next, Knowledge!vars
<1>3. QED
  BY <1>1, <1>2, Inductive, PTL DEF Spec, Implements, Knowledge!Spec

-----------------------------------------------------------------------------
(***************************************************************************)
(* A process that has not started                                          *)
(***************************************************************************)
\* Before main has chosen its interfaces none of its tasks exists, and no
\* frame of its interfaces is in flight.
IdleInv ==
    /\ \A h \in Hosts : nics[h] \subseteq NicsOf(h)
    /\ \A h \in Hosts : phase[h] = "init" =>
          /\ show[h] = "off" /\ sender[h] = "off"
          /\ packetCh[h] = <<>> /\ connection[h] = screen[h]
          /\ \A n \in NicsOf(h) : sock[n] = "off"
    /\ \A n \in Nics : sock[n] \notin {"unbound", "bound"} => held[n] = <<>>

LEMMA IdleInit == Init => IdleInv
  BY DEF Init, IdleInv, NicsOf

LEMMA IdleNext == IInv /\ IdleInv /\ [Next]_vars => IdleInv'
<1> SUFFICES ASSUME IInv, IdleInv, [Next]_vars PROVE IdleInv'
  OBVIOUS
<1>0. TypeOK /\ HostOf \in [Nics -> Hosts]
  BY NicAssumption DEF IInv
<1> USE DEF IdleInv, NicsOf
<1>1. ASSUME NEW h \in Hosts, Exit(h), UNCHANGED nics PROVE IdleInv'
  BY <1>0, <1>1 DEF TypeOK, Exit
<1>2. ASSUME NEW h \in Hosts, StartProbe(h) PROVE IdleInv'
  BY <1>0, <1>2 DEF TypeOK, StartProbe, UpNics
<1>3. ASSUME NEW h \in Hosts, MainSend(h) PROVE IdleInv'
  BY <1>0, <1>3 DEF TypeOK, MainSend, recvVars, showVars
<1>4. ASSUME NEW h \in Hosts, SenderStart(h) \/ SenderEnd(h) PROVE IdleInv'
  BY <1>0, <1>4 DEF TypeOK, SenderStart, SenderEnd, SenderDies, mainVars, recvVars, showVars
<1>5. ASSUME NEW h \in Hosts, SendPacket(h) PROVE IdleInv'
  <2>1. phase[h] # "init" /\ UNCHANGED <<mainVars, recvVars, topoCh, showVars>>
    BY <1>5 DEF SendPacket
  <2>2. \A k \in Hosts \ {h} : packetCh'[k] = packetCh[k] /\ sender'[k] = sender[k]
    <3>1. CASE packetCh' = [packetCh EXCEPT ![h] = Tail(@)] /\ UNCHANGED sender
      BY <1>0, <3>1 DEF TypeOK
    <3>2. CASE SenderDies(h)
      BY <1>0, <3>2 DEF TypeOK, SenderDies
    <3>3. QED
      BY <1>5, <3>1, <3>2 DEF SendPacket
  <2>3. QED
    BY <2>1, <2>2 DEF mainVars, recvVars, showVars
<1>6. ASSUME NEW h \in Hosts, ShowRecv(h) \/ ShowWake(h) \/ ShowEnd(h) PROVE IdleInv'
  BY <1>0, <1>6 DEF TypeOK, ShowRecv, ShowWake, ShowEnd, mainVars, recvVars
<1>7. ASSUME NEW n \in Nics, NewSocket(n) \/ Bind(n) \/ RecvPanic(n) PROVE IdleInv'
  <2>1. sock[n] # "off" /\ UNCHANGED <<mainVars, packetCh, sender, showVars>>
    BY <1>7 DEF NewSocket, Bind, RecvPanic
  <2>2. \A k \in Nics \ {n} : sock'[k] = sock[k] /\ held'[k] = held[k]
    BY <1>0, <1>7 DEF TypeOK, NewSocket, Bind, RecvPanic, Dies
  <2>3. sock'[n] \in {"unbound", "bound"} \/ held'[n] = <<>>
    BY <1>0, <1>7 DEF TypeOK, NewSocket, Bind, RecvPanic, Dies
  <2>4. QED
    BY <2>1, <2>2, <2>3 DEF mainVars, showVars
<1>8. ASSUME NEW n \in Nics, RecvFrame(n) \/ RecvTopo(n) PROVE IdleInv'
  <2>1. sock[n] \in {"unbound", "bound"} /\ UNCHANGED <<mainVars, sender, showVars>>
    BY <1>8 DEF RecvFrame, RecvTopo
  <2>2. \A k \in Nics \ {n} : sock'[k] = sock[k] /\ held'[k] = held[k]
    BY <1>0, <1>8 DEF TypeOK, RecvFrame, RecvTopo, Dies
  <2>3. sock'[n] = sock[n] \/ held'[n] = <<>>
    BY <1>0, <1>8 DEF TypeOK, RecvFrame, RecvTopo, Dies
  <2>4. \A k \in Hosts \ {HostOf[n]} : packetCh'[k] = packetCh[k]
    BY <1>0, <1>8 DEF TypeOK, RecvFrame, RecvTopo
  <2>5. phase[HostOf[n]] # "init"
    BY <1>0, <2>1
  <2>6. QED
    BY <1>0, <2>1, <2>2, <2>3, <2>4, <2>5 DEF mainVars, showVars
<1>9. ASSUME NEW d \in wire, Deliver(d) \/ Lose(d) PROVE IdleInv'
  BY <1>0, <1>9 DEF TypeOK, Deliver, Lose, mainVars, recvVars, showVars
<1>10. CASE UNCHANGED vars
  BY <1>10 DEF vars, mainVars, recvVars, showVars
<1> QED
  BY <1>1, <1>2, <1>3, <1>4, <1>5, <1>6, <1>7, <1>8, <1>9, <1>10
     DEF Next, Main, Sender, ShowTopo, Recv, StartExit, MainPanic, MainReturn

-----------------------------------------------------------------------------
(***************************************************************************)
(* What is on the screen                                                   *)
(***************************************************************************)
\* The message show_topo takes names an interface of its own host.
LEMMA HeadNic ==
    ASSUME IInv, NEW h \in Hosts, ShowRecv(h)
    PROVE  Head(topoCh[h]).nic \in NicsOf(h)
<1>1. Head(topoCh[h]) \in Msgs /\ IsFact(h, Entry(Head(topoCh[h])))
  BY ShowRecvFact
<1>2. QED
  BY <1>1 DEF IsFact, Entry, Msgs, NicsOf

LEMMA FreshNext == IInv /\ IdleInv /\ ScreenFresh /\ [Next]_vars => ScreenFresh'
<1> SUFFICES ASSUME IInv, IdleInv, ScreenFresh, [Next]_vars PROVE ScreenFresh'
  OBVIOUS
<1>0. TypeOK /\ HostOf \in [Nics -> Hosts]
  BY NicAssumption DEF IInv
<1> USE DEF ScreenFresh
<1>1. ASSUME NEW h \in Hosts, Exit(h), UNCHANGED nics PROVE ScreenFresh'
  BY <1>0, <1>1 DEF TypeOK, Exit
<1>2. ASSUME NEW h \in Hosts, StartProbe(h) PROVE ScreenFresh'
  BY <1>0, <1>2 DEF TypeOK, StartProbe, IdleInv
<1>3. ASSUME UNCHANGED <<nics, topoCh, showVars>> PROVE ScreenFresh'
  BY <1>3 DEF showVars
<1>4. ASSUME NEW h \in Hosts, ShowRecv(h) PROVE ScreenFresh'
  <2>1. Head(topoCh[h]).nic \in NicsOf(h) /\ topoCh[h] # <<>> /\ topoCh[h] \in Seq(Msgs)
    BY <1>0, <1>4, HeadNic DEF ShowRecv, TypeOK
  <2>2. \A k \in Hosts \ {h} : /\ topoCh'[k] = topoCh[k] /\ connection'[k] = connection[k]
                               /\ show'[k] = show[k]
    BY <1>0, <1>4 DEF ShowRecv, TypeOK
  <2>3. topoCh'[h] = Tail(topoCh[h]) /\ UNCHANGED <<nics, screen>>
    BY <1>0, <1>4 DEF ShowRecv, TypeOK, mainVars
  <2>4. nics[h] = NicsOf(h) /\ topoCh'[h] = <<>> => show'[h] = "sleep"
    BY <1>0, <1>4, <2>1, <2>3 DEF ShowRecv, TypeOK
  <2>5. QED
    BY <2>2, <2>3, <2>4
<1>5. ASSUME NEW h \in Hosts, ShowWake(h) PROVE ScreenFresh'
  BY <1>0, <1>5 DEF TypeOK, ShowWake, mainVars
<1>6. ASSUME NEW h \in Hosts, ShowEnd(h) PROVE ScreenFresh'
  BY <1>0, <1>6 DEF TypeOK, ShowEnd, mainVars
<1>7. ASSUME NEW n \in Nics, RecvTopo(n) PROVE ScreenFresh'
  <2>1. CASE UNCHANGED topoCh
    BY <1>3, <1>7, <2>1 DEF RecvTopo, mainVars
  <2>2. CASE topoCh' = [topoCh EXCEPT ![HostOf[n]] = Append(@, Head(held[n]))]
    <3>1. Append(topoCh[HostOf[n]], Head(held[n])) # <<>>
      <4>1. HostOf[n] \in Hosts /\ topoCh[HostOf[n]] \in Seq(Msgs)
        BY <1>0 DEF TypeOK
      <4>2. Head(held[n]) \in Msgs
        BY <1>0, <1>7, SeqTake DEF TypeOK, RecvTopo
      <4>3. QED
        BY <4>1, <4>2
    <3>2. QED
      BY <1>0, <1>7, <2>2, <3>1 DEF RecvTopo, TypeOK, mainVars, showVars
  <2>3. QED
    BY <1>7, <2>1, <2>2 DEF RecvTopo
<1>8. ASSUME NEW h \in Hosts, MainSend(h) \/ Sender(h) \/ SenderEnd(h)
      PROVE  UNCHANGED <<nics, topoCh, showVars>>
  BY <1>8 DEF MainSend, Sender, SenderStart, SendPacket, SenderEnd, mainVars
<1>9. ASSUME NEW n \in Nics, NewSocket(n) \/ Bind(n) \/ RecvFrame(n) \/ RecvPanic(n)
      PROVE  UNCHANGED <<nics, topoCh, showVars>>
  BY <1>9 DEF NewSocket, Bind, RecvFrame, RecvPanic, mainVars
<1>10. ASSUME NEW d \in wire, Deliver(d) \/ Lose(d)
       PROVE  UNCHANGED <<nics, topoCh, showVars>>
  BY <1>10 DEF Deliver, Lose, mainVars
<1>11. CASE UNCHANGED vars
  BY <1>3, <1>11 DEF vars, mainVars, showVars
<1> QED
  <2> HIDE DEF ScreenFresh
  <2> QED
    BY <1>1, <1>2, <1>3, <1>4, <1>5, <1>6, <1>7, <1>8, <1>9, <1>10, <1>11
       DEF Next, Main, ShowTopo, Recv, StartExit, MainPanic, MainReturn

(***************************************************************************)
(* show_topo never waits for its channel with a table it has not printed,  *)
(* whatever arrives while it sleeps.                                       *)
(***************************************************************************)
THEOREM ScreenIsFresh == Spec => []ScreenFresh
<1>1. Init => ScreenFresh
  BY DEF Init, ScreenFresh
<1>2. QED
  BY <1>1, FreshNext, IdleInit, IdleNext, Inductive, PTL DEF Spec

-----------------------------------------------------------------------------
(***************************************************************************)
(* What a reply owes                                                       *)
(***************************************************************************)
\* Hardware addresses are unique, as the switch's forwarding needs them to be.
UniqueMacs == \A m, n \in Nics : MacOf[m] = MacOf[n] => m = n

Says(msg, n, mac, v) == msg.nic = n /\ msg.peer.mac = mac /\ msg.peer.vlan = v
InTable(c, n, mac, v) == \E e \in c : e[1] = n /\ e[2].mac = mac /\ e[3] = v
InQueue(q, n, mac, v) == \E i \in DOMAIN q : Says(q[i], n, mac, v)

\* The three places where a connection is recorded, before and after a step.
LEMMA RecordedPlaces ==
    ASSUME NEW h, NEW n, NEW mac, NEW v
    PROVE  /\ Recorded(h, n, mac, v) <=>
                 \/ InTable(connection[h], n, mac, v)
                 \/ InQueue(topoCh[h], n, mac, v)
                 \/ \E k \in NicsOf(h) : InQueue(held[k], n, mac, v)
           /\ Recorded(h, n, mac, v)' <=>
                 \/ InTable(connection'[h], n, mac, v)
                 \/ InQueue(topoCh'[h], n, mac, v)
                 \/ \E k \in NicsOf(h) : InQueue(held'[k], n, mac, v)
BY Zenon DEF Recorded, InTable, InQueue, Says, NicsOf

LEMMA QueueOps ==
    ASSUME NEW q \in Seq(Msgs), NEW msg \in Msgs, NEW n, NEW mac, NEW v
    PROVE  /\ InQueue(q, n, mac, v) => InQueue(Append(q, msg), n, mac, v)
           /\ Says(msg, n, mac, v) => InQueue(Append(q, msg), n, mac, v)
           /\ Says(msg, n, mac, v) => InQueue(<<msg>>, n, mac, v)
           /\ ~InQueue(<<>>, n, mac, v)
<1>1. Len(q) \in Nat /\ DOMAIN q = 1 .. Len(q)
  BY LenProperties
<1>2. /\ DOMAIN Append(q, msg) = 1 .. Len(q) + 1
      /\ \A i \in 1 .. Len(q) : Append(q, msg)[i] = q[i]
      /\ Append(q, msg)[Len(q) + 1] = msg
  BY <1>1
<1>3. Len(q) + 1 \in 1 .. Len(q) + 1 /\ 1 .. Len(q) \subseteq 1 .. Len(q) + 1
  BY <1>1
<1>4. DOMAIN <<msg>> = {1} /\ <<msg>>[1] = msg /\ DOMAIN <<>> = {}
  OBVIOUS
<1>5. ASSUME InQueue(q, n, mac, v) PROVE InQueue(Append(q, msg), n, mac, v)
  <2>1. PICK i \in 1 .. Len(q) : Says(q[i], n, mac, v)
    BY <1>1, <1>5 DEF InQueue
  <2>2. i \in DOMAIN Append(q, msg) /\ Append(q, msg)[i] = q[i]
    BY <1>2, <1>3
  <2>3. QED
    BY <2>1, <2>2, Zenon DEF InQueue
<1>6. ASSUME Says(msg, n, mac, v) PROVE InQueue(Append(q, msg), n, mac, v)
  <2>1. Len(q) + 1 \in DOMAIN Append(q, msg)
    BY <1>2, <1>3
  <2>2. QED
    BY <1>2, <1>6, <2>1, Zenon DEF InQueue
<1>7. ASSUME Says(msg, n, mac, v) PROVE InQueue(<<msg>>, n, mac, v)
  <2>1. 1 \in DOMAIN <<msg>>
    BY <1>4
  <2>2. QED
    BY <1>4, <1>7, <2>1, Zenon DEF InQueue
<1>8. ~InQueue(<<>>, n, mac, v)
  BY <1>4 DEF InQueue
<1>9. QED
  BY <1>5, <1>6, <1>7, <1>8

LEMMA QueueTake ==
    ASSUME NEW q \in Seq(Msgs), q # <<>>, NEW n, NEW mac, NEW v, InQueue(q, n, mac, v)
    PROVE  Says(Head(q), n, mac, v) \/ InQueue(Tail(q), n, mac, v)
<1>1. Len(q) \in Nat \ {0} /\ DOMAIN q = 1 .. Len(q) /\ Head(q) = q[1]
  BY LenProperties, EmptySeq
<1>2. /\ DOMAIN Tail(q) = 1 .. Len(q) - 1
      /\ \A i \in 1 .. Len(q) - 1 : Tail(q)[i] = q[i + 1]
  BY <1>1
<1>3. PICK i \in 1 .. Len(q) : Says(q[i], n, mac, v)
  BY <1>1 DEF InQueue
<1>4. CASE i = 1
  BY <1>1, <1>3, <1>4
<1>5. CASE i # 1
  <2>1. i - 1 \in 1 .. Len(q) - 1 /\ (i - 1) + 1 = i
    BY <1>1, <1>5
  <2>2. i - 1 \in DOMAIN Tail(q) /\ Tail(q)[i - 1] = q[i]
    BY <1>2, <2>1
  <2>3. QED
    BY <1>3, <2>2, Zenon DEF InQueue
<1>6. QED
  BY <1>4, <1>5

\* A recv_packet task reports one peer at a time.
HeldOne == \A n \in Nics : held[n] = <<>> \/ Tail(held[n]) = <<>>

LEMMA HeldOneNext == IInv /\ HeldOne /\ [Next]_vars => HeldOne'
<1> SUFFICES ASSUME IInv, HeldOne, [Next]_vars PROVE HeldOne'
  OBVIOUS
<1>0. held \in [Nics -> Seq(Msgs)]
  BY DEF IInv, TypeOK
<1> USE DEF HeldOne
<1>1. ASSUME NEW h \in Hosts, Exit(h) PROVE HeldOne'
  BY <1>0, <1>1 DEF Exit
<1>2. ASSUME UNCHANGED held PROVE HeldOne'
  BY <1>2
<1>3. ASSUME NEW n \in Nics, RecvFrame(n) \/ RecvTopo(n) \/ RecvPanic(n) PROVE HeldOne'
  <2>1. held' = [held EXCEPT ![n] = <<>>] \/ \E msg : held' = [held EXCEPT ![n] = <<msg>>]
    BY <1>3, Zenon DEF RecvFrame, RecvTopo, RecvPanic, Dies
  <2>2. ASSUME NEW msg PROVE Tail(<<msg>>) = <<>>
    OBVIOUS
  <2>3. CASE held' = [held EXCEPT ![n] = <<>>]
    BY <1>0, <2>3
  <2>4. ASSUME NEW msg, held' = [held EXCEPT ![n] = <<msg>>] PROVE HeldOne'
    BY <1>0, <2>2, <2>4
  <2>5. QED
    BY <2>1, <2>3, <2>4
<1>4. ASSUME NEW h \in Hosts, StartProbe(h) \/ MainSend(h) \/ Sender(h) \/ SenderEnd(h) \/ ShowTopo(h)
      PROVE  UNCHANGED held
  BY <1>4 DEF StartProbe, MainSend, Sender, SenderStart, SendPacket, SenderEnd, ShowTopo,
              ShowRecv, ShowWake, ShowEnd, recvVars
<1>5. ASSUME NEW n \in Nics, NewSocket(n) \/ Bind(n) PROVE UNCHANGED held
  BY <1>5 DEF NewSocket, Bind
<1>6. ASSUME NEW d \in wire, Deliver(d) \/ Lose(d) PROVE UNCHANGED held
  BY <1>6 DEF Deliver, Lose, recvVars
<1>7. CASE UNCHANGED vars
  BY <1>7 DEF vars, recvVars
<1> QED
  <2> HIDE DEF HeldOne
  <2> QED
    BY <1>1, <1>2, <1>3, <1>4, <1>5, <1>6, <1>7
       DEF Next, Main, Recv, StartExit, MainPanic, MainReturn

\* A recorded connection stays recorded where nothing is taken away.
LEMMA RecordedSame ==
    ASSUME NEW h \in Hosts, NEW n, NEW mac, NEW v, Recorded(h, n, mac, v),
           connection[h] \subseteq connection'[h], topoCh'[h] = topoCh[h],
           \A k \in NicsOf(h) : held'[k] = held[k]
    PROVE  Recorded(h, n, mac, v)'
<1>1. InTable(connection[h], n, mac, v) => InTable(connection'[h], n, mac, v)
  BY DEF InTable
<1>2. QED
  BY <1>1, RecordedPlaces, Zenon

\* From the receiving task to show_topo and into the table, a connection of a
\* used interface is never lost while show_topo lives.
LEMMA RecordedKeeps ==
    ASSUME IInv, HeldOne, [Next]_vars, NEW h \in Hosts, show'[h] # "end", show[h] # "end",
           NEW n \in nics[h], NEW mac, NEW v, Recorded(h, n, mac, v)
    PROVE  Recorded(h, n, mac, v)'
<1> DEFINE Goal == Recorded(h, n, mac, v)'
<1>0. TypeOK /\ HostOf \in [Nics -> Hosts]
  BY NicAssumption DEF IInv
<1>a. ASSUME UNCHANGED <<connection, topoCh, held>> PROVE Goal
  BY <1>a, RecordedSame
<1>b. NicsOf(h) \subseteq Nics
  BY DEF NicsOf
<1>1. ASSUME NEW k \in Hosts, Exit(k) PROVE Goal
  <2>1. k # h
    BY <1>0, <1>1 DEF Exit, TypeOK
  <2>2. /\ connection'[h] = connection[h] /\ topoCh'[h] = topoCh[h]
        /\ \A m \in NicsOf(h) : held'[m] = held[m]
    BY <1>0, <1>1, <2>1 DEF Exit, TypeOK, NicsOf
  <2>3. QED
    BY <2>2, RecordedSame
<1>2. ASSUME NEW k \in Hosts, ShowEnd(k) PROVE Goal
  <2>1. k # h
    BY <1>0, <1>2 DEF ShowEnd, TypeOK
  <2>2. UNCHANGED <<connection, held>> /\ topoCh'[h] = topoCh[h]
    BY <1>0, <1>2, <2>1 DEF ShowEnd, TypeOK, recvVars
  <2>3. QED
    BY <2>2, RecordedSame
<1>3. ASSUME NEW k \in Hosts, ShowRecv(k) PROVE Goal
  <2> DEFINE msg == Head(topoCh[k])
  <2>1. UNCHANGED held /\ topoCh' = [topoCh EXCEPT ![k] = Tail(@)] /\ topoCh[k] # <<>>
    BY <1>3 DEF ShowRecv, recvVars
  <2>2. /\ msg.nic \notin nics[k] => connection' = connection
        /\ msg.nic \in nics[k] => connection' = [connection EXCEPT ![k] = @ \cup {Entry(msg)}]
    BY <1>3 DEF ShowRecv
  <2>3. CASE k # h
    <3>1. topoCh'[h] = topoCh[h] /\ connection'[h] = connection[h]
      BY <1>0, <2>1, <2>2, <2>3 DEF TypeOK
    <3>2. QED
      BY <2>1, <3>1, RecordedSame
  <2>4. CASE k = h
    <3>1. connection[h] \subseteq connection'[h] /\ topoCh'[h] = Tail(topoCh[h])
      BY <1>0, <2>1, <2>2, <2>4 DEF TypeOK
    <3>2. CASE InQueue(topoCh[h], n, mac, v)
      <4>1. CASE Says(Head(topoCh[h]), n, mac, v)
        <5>1. Entry(msg) \in connection'[h]
          BY <1>0, <2>2, <2>4, <4>1 DEF Says, TypeOK
        <5>2. Entry(msg)[1] = n /\ Entry(msg)[2].mac = mac /\ Entry(msg)[3] = v
          BY <2>4, <4>1 DEF Says, Entry, PeerNode
        <5>3. InTable(connection'[h], n, mac, v)
          BY <5>1, <5>2, Zenon DEF InTable
        <5>4. QED
          BY <5>3, RecordedPlaces, Zenon
      <4>2. CASE InQueue(Tail(topoCh[h]), n, mac, v)
        BY <3>1, <4>2, RecordedPlaces, Zenon
      <4>3. QED
        BY <1>0, <2>1, <2>4, <3>2, <4>1, <4>2, QueueTake DEF TypeOK
    <3>3. CASE InTable(connection[h], n, mac, v)
      <4>1. InTable(connection'[h], n, mac, v)
        BY <3>1, <3>3 DEF InTable
      <4>2. QED
        BY <4>1, RecordedPlaces, Zenon
    <3>4. CASE \E m \in NicsOf(h) : InQueue(held[m], n, mac, v)
      BY <2>1, <3>4, RecordedPlaces, Zenon
    <3>5. QED
      BY <3>2, <3>3, <3>4, RecordedPlaces, Zenon
  <2>5. QED
    BY <2>3, <2>4
<1>4. ASSUME NEW m \in Nics, RecvFrame(m) \/ RecvPanic(m) PROVE Goal
  <2>1. /\ held[m] = <<>> /\ UNCHANGED <<connection, topoCh>>
        /\ \A k \in Nics \ {m} : held'[k] = held[k]
    BY <1>0, <1>4 DEF RecvFrame, RecvPanic, Dies, TypeOK, showVars
  <2>2. ~InQueue(held[m], n, mac, v)
    BY <2>1 DEF InQueue
  <2>3. \A k \in NicsOf(h) : InQueue(held[k], n, mac, v) => InQueue(held'[k], n, mac, v)
    BY <1>b, <2>1, <2>2
  <2>4. QED
    BY <2>1, <2>3, RecordedPlaces, Zenon
<1>5. ASSUME NEW m \in Nics, RecvTopo(m) PROVE Goal
  <2> DEFINE k == HostOf[m]
             msg == Head(held[m])
  <2>1. /\ UNCHANGED connection /\ held[m] # <<>> /\ Tail(held[m]) = <<>>
        /\ \A j \in Nics \ {m} : held'[j] = held[j]
    BY <1>0, <1>5 DEF RecvTopo, Dies, TypeOK, HeldOne, showVars
  <2>2. k \in Hosts /\ held[m] \in Seq(Msgs) /\ topoCh[k] \in Seq(Msgs)
    BY <1>0 DEF TypeOK
  <2>3. CASE k # h
    <3>1. topoCh'[h] = topoCh[h] /\ m \notin NicsOf(h)
      BY <1>0, <1>5, <2>3 DEF RecvTopo, TypeOK, NicsOf
    <3>2. \A j \in NicsOf(h) : held'[j] = held[j]
      BY <1>b, <2>1, <3>1
    <3>3. QED
      BY <2>1, <3>1, <3>2, RecordedSame
  <2>4. CASE k = h
    <3>1. topoCh'[h] = Append(topoCh[h], msg)
      BY <1>0, <1>5, <2>4 DEF RecvTopo, TypeOK
    <3>2. msg \in Msgs
      BY <2>1, <2>2, SeqTake
    <3> HIDE DEF msg
    <3>3. CASE InQueue(topoCh[h], n, mac, v)
      <4>1. InQueue(topoCh'[h], n, mac, v)
        BY <2>2, <2>4, <3>1, <3>2, <3>3, QueueOps
      <4>2. QED
        BY <4>1, RecordedPlaces, Zenon
    <3>4. CASE InTable(connection[h], n, mac, v)
      BY <2>1, <3>4, RecordedPlaces
    <3>5. ASSUME NEW j \in NicsOf(h), InQueue(held[j], n, mac, v) PROVE Goal
      <4>1. CASE j = m
        <5>1. Says(msg, n, mac, v)
          <6>1. Says(msg, n, mac, v) \/ InQueue(Tail(held[m]), n, mac, v)
            BY <2>1, <2>2, <3>5, <4>1, QueueTake DEF msg
          <6>2. ~InQueue(Tail(held[m]), n, mac, v)
            BY <2>1 DEF InQueue
          <6>3. QED
            BY <6>1, <6>2
        <5>2. InQueue(topoCh'[h], n, mac, v)
          BY <2>2, <2>4, <3>1, <3>2, <5>1, QueueOps
        <5>3. QED
          BY <5>2, RecordedPlaces, Zenon
      <4>2. CASE j # m
        BY <1>b, <2>1, <3>5, <4>2, RecordedPlaces
      <4>3. QED
        BY <4>1, <4>2
    <3>6. QED
      BY <3>3, <3>4, <3>5, RecordedPlaces, Zenon
  <2>5. QED
    BY <2>3, <2>4
<1>6. ASSUME NEW k \in Hosts, StartProbe(k) \/ MainSend(k) \/ Sender(k) \/ SenderEnd(k) \/ ShowWake(k)
      PROVE  UNCHANGED <<connection, topoCh, held>>
  BY <1>6 DEF StartProbe, MainSend, Sender, SenderStart, SendPacket, SenderEnd, ShowWake,
              recvVars, showVars
<1>7. ASSUME NEW m \in Nics, NewSocket(m) \/ Bind(m)
      PROVE  UNCHANGED <<connection, topoCh, held>>
  BY <1>7 DEF NewSocket, Bind, showVars
<1>8. ASSUME NEW d \in wire, Deliver(d) \/ Lose(d)
      PROVE  UNCHANGED <<connection, topoCh, held>>
  BY <1>8 DEF Deliver, Lose, recvVars, showVars
<1>9. ASSUME UNCHANGED vars PROVE Goal
  BY <1>a, <1>9 DEF vars, recvVars, showVars
<1> QED
  <2> HIDE DEF Goal
  <2>1. Goal
    BY <1>a, <1>1, <1>2, <1>3, <1>4, <1>5, <1>6, <1>7, <1>8, <1>9
       DEF Next, Main, Recv, ShowTopo, StartExit, MainPanic, MainReturn
  <2>2. QED
    BY <2>1 DEF Goal

\* Frames carry the address of an interface whose process has started.
WireInv ==
    \A d \in wire : \A n \in Nics :
        d.frame.src = MacOf[n] => phase[HostOf[n]] # "init"

\* msg, on its way to send_packet, does not answer a peer that is not recorded.
Owed(h, msg) ==
    msg.nic \in nics[h] /\ msg.peer.mac # Broadcast
        => Recorded(h, msg.nic, msg.peer.mac, msg.peer.vlan)

QueueOwed(h) == \A i \in DOMAIN packetCh[h] : Owed(h, packetCh[h][i])
WireOwed(h) ==
    \A d \in wire : \A n \in nics[h] :
        d.frame.src = MacOf[n] /\ d.frame.op = Reply
            => Recorded(h, n, d.frame.dst, parse(d.frame).peer.vlan)

LEMMA OwedParts ==
    /\ AnsweredIsRecorded <=>
         \A h \in Hosts : show[h] # "end" => QueueOwed(h) /\ WireOwed(h)
    /\ AnsweredIsRecorded' <=>
         \A h \in Hosts : show'[h] # "end" => QueueOwed(h)' /\ WireOwed(h)'
BY Zenon DEF AnsweredIsRecorded, QueueOwed, WireOwed, Owed

\* What send_packet puts into a frame.
LEMMA FrameSays ==
    ASSUME NEW msg \in Msgs
    PROVE  LET f == FrameFor(msg)
           IN  /\ f.src = MacOf[msg.nic] /\ f.dst = msg.peer.mac
               /\ f.op = Reply => msg.peer.mac # Broadcast
               /\ parse(f).peer.vlan = msg.peer.vlan
<1> DEFINE n   == msg.nic
           v   == msg.peer.vlan
           dst == msg.peer.mac
           nic == NameOf[n]
           mac == MacOf[n]
           hst == HostName[HostOf[n]]
           f   == builder(nic, mac, dst, v, hst)
<1>1. n \in Nics /\ msg.peer \in Peers
  BY DEF Msgs
<1>2. v \in U16
  BY <1>1 DEF Peers
<1>3. nic \in Seq(Byte) /\ hst \in Seq(Byte) /\ Len(nic) < Radix /\ Len(hst) < Radix
  BY <1>1, Names
<1>4. FrameFor(msg) = f
  BY DEF FrameFor
<1> HIDE DEF nic, mac, hst, dst, v
<1>5. f.src = mac /\ f.dst = dst /\ (f.op = Reply => dst # Broadcast)
  BY DEF builder, Request, Reply
<1>6. f = Retag(f, f.tagged)
  BY DEF builder, Retag
<1>7. parse(Retag(f, f.tagged))
        = [peer    |-> [host |-> hst, nic |-> nic, mac |-> mac, vlan |-> v],
           request |-> dst = Broadcast]
  BY <1>2, <1>3, RoundTrip
<1>8. parse(f).peer.vlan = v
  BY <1>6, <1>7
<1> HIDE DEF f
<1>9. QED
  BY <1>4, <1>5, <1>8 DEF mac, dst, v

\* A step that adds no frame and no message owes nothing new.
LEMMA OwedSame ==
    ASSUME IInv, HeldOne, [Next]_vars, NEW h \in Hosts, show'[h] # "end", show[h] # "end",
           nics'[h] = nics[h]
    PROVE  /\ \A msg : Owed(h, msg) => Owed(h, msg)'
           /\ QueueOwed(h) /\ packetCh'[h] = packetCh[h] => QueueOwed(h)'
           /\ QueueOwed(h) /\ packetCh'[h] = <<>> => QueueOwed(h)'
           /\ WireOwed(h) /\ wire' \subseteq wire => WireOwed(h)'
<1>1. ASSUME NEW n \in nics[h], NEW mac, NEW v, Recorded(h, n, mac, v)
      PROVE  Recorded(h, n, mac, v)'
  BY <1>1, RecordedKeeps
<1>2. ASSUME NEW msg, Owed(h, msg) PROVE Owed(h, msg)'
  BY <1>1, <1>2, Zenon DEF Owed
<1>3. ASSUME QueueOwed(h), packetCh'[h] = packetCh[h] PROVE QueueOwed(h)'
  BY <1>2, <1>3, Zenon DEF QueueOwed
<1>4. ASSUME packetCh'[h] = <<>> PROVE QueueOwed(h)'
  BY <1>4 DEF QueueOwed
<1>5. ASSUME WireOwed(h), wire' \subseteq wire PROVE WireOwed(h)'
  <2>1. SUFFICES ASSUME NEW d \in wire, NEW n \in nics[h],
                        d.frame.src = MacOf[n], d.frame.op = Reply
                 PROVE  Recorded(h, n, d.frame.dst, parse(d.frame).peer.vlan)'
    BY <1>5, Zenon DEF WireOwed
  <2>2. Recorded(h, n, d.frame.dst, parse(d.frame).peer.vlan)
    BY <1>5, <2>1, Zenon DEF WireOwed
  <2>3. QED
    BY <1>1, <2>2, Zenon
<1>6. QED
  BY <1>2, <1>3, <1>4, <1>5, Zenon

LEMMA QueueGrows ==
    ASSUME NEW h \in Hosts, packetCh[h] \in Seq(Msgs), NEW msg \in Msgs,
           packetCh'[h] = Append(packetCh[h], msg),
           \A i \in DOMAIN packetCh[h] : \A m : m = packetCh[h][i] => Owed(h, m)', Owed(h, msg)'
    PROVE  QueueOwed(h)'
<1> DEFINE q == packetCh[h]
<1>1. Len(q) \in Nat /\ DOMAIN q = 1 .. Len(q)
  BY LenProperties
<1>2. /\ DOMAIN Append(q, msg) = 1 .. Len(q) + 1
      /\ \A i \in 1 .. Len(q) : Append(q, msg)[i] = q[i]
      /\ Append(q, msg)[Len(q) + 1] = msg
  BY <1>1
<1>3. ASSUME NEW i \in DOMAIN packetCh'[h]
      PROVE  packetCh'[h][i] = msg \/ \E j \in DOMAIN packetCh[h] : packetCh'[h][i] = packetCh[h][j]
  <2>1. i \in 1 .. Len(q) + 1
    BY <1>2, <1>3
  <2>2. CASE i \in 1 .. Len(q)
    BY <1>1, <1>2, <2>2
  <2>3. CASE i = Len(q) + 1
    BY <1>2, <2>3
  <2>4. QED
    BY <1>1, <2>1, <2>2, <2>3
<1>4. ASSUME NEW i \in DOMAIN packetCh'[h], NEW m, m = packetCh'[h][i] PROVE Owed(h, m)'
  BY <1>3, <1>4, Zenon
<1>5. QED
  BY <1>4, Zenon DEF QueueOwed, Owed

LEMMA ShowStaysEnded ==
    ASSUME IInv, IdleInv, [Next]_vars, NEW h \in Hosts, show[h] = "end"
    PROVE  show'[h] = "end"
<1>0. TypeOK
  BY DEF IInv
<1>1. ASSUME NEW k \in Hosts, Exit(k) PROVE show'[h] = "end"
  BY <1>0, <1>1 DEF Exit, TypeOK
<1>2. ASSUME NEW k \in Hosts, StartProbe(k) PROVE show'[h] = "end"
  BY <1>0, <1>2 DEF StartProbe, TypeOK, IdleInv
<1>3. ASSUME NEW k \in Hosts, ShowTopo(k) PROVE show'[h] = "end"
  BY <1>0, <1>3 DEF ShowTopo, ShowRecv, ShowWake, ShowEnd, TypeOK
<1>4. ASSUME NEW k \in Hosts, MainSend(k) \/ Sender(k) \/ SenderEnd(k) PROVE UNCHANGED show
  BY <1>4 DEF MainSend, Sender, SenderStart, SendPacket, SenderEnd, showVars
<1>5. ASSUME NEW n \in Nics, Recv(n) \/ RecvPanic(n) PROVE UNCHANGED show
  BY <1>5 DEF Recv, NewSocket, Bind, RecvFrame, RecvTopo, RecvPanic, showVars
<1>6. ASSUME NEW d \in wire, Deliver(d) \/ Lose(d) PROVE UNCHANGED show
  BY <1>6 DEF Deliver, Lose, showVars
<1>7. CASE UNCHANGED vars
  BY <1>7 DEF vars, showVars
<1> QED
  BY <1>1, <1>2, <1>3, <1>4, <1>5, <1>6, <1>7
     DEF Next, Main, StartExit, MainPanic, MainReturn

\* A frame is put on the wire for the head of send_packet's queue.
LEMMA WireGrows ==
    ASSUME IInv, NEW h \in Hosts, SendPacket(h), NEW d \in wire', d \notin wire
    PROVE  LET msg == Head(packetCh[h])
           IN  msg \in Msgs /\ msg.nic \in nics[h] /\ d.frame = FrameFor(msg)
<1> DEFINE msg == Head(packetCh[h])
<1>1. packetCh[h] \in Seq(Msgs) /\ packetCh[h] # <<>>
  BY DEF IInv, TypeOK, SendPacket
<1>2. msg \in Msgs
  BY <1>1, SeqTake
<1>3. /\ msg.nic \in nics[h]
      /\ \E flood : wire' = wire \cup
            {[to |-> m, frame |-> FrameFor(msg)] : m \in Receivers(msg.nic, FrameFor(msg), flood)}
  BY Zenon DEF SendPacket
<1>4. PICK flood : wire' = wire \cup
            {[to |-> m, frame |-> FrameFor(msg)] : m \in Receivers(msg.nic, FrameFor(msg), flood)}
  BY <1>3
<1> HIDE DEF msg
<1>5. \E m : d = [to |-> m, frame |-> FrameFor(msg)]
  BY <1>4
<1>6. d.frame = FrameFor(msg)
  BY <1>5
<1>7. QED
  BY <1>2, <1>3, <1>6 DEF msg

LEMMA WireNext ==
    ASSUME UniqueMacs, IInv, IdleInv, WireInv, [Next]_vars
    PROVE  WireInv'
<1>0. TypeOK /\ HostOf \in [Nics -> Hosts]
  BY NicAssumption DEF IInv
<1>1. \A h \in Hosts : phase[h] # "init" => phase'[h] # "init"
  <2>1. ASSUME NEW h \in Hosts, Exit(h) \/ StartProbe(h) \/ MainSend(h)
        PROVE  \A k \in Hosts : phase[k] # "init" => phase'[k] # "init"
    BY <1>0, <2>1 DEF TypeOK, Exit, StartProbe, MainSend
  <2>2. ASSUME NEW h \in Hosts, Sender(h) \/ SenderEnd(h) \/ ShowTopo(h) PROVE UNCHANGED phase
    BY <2>2 DEF Sender, SenderStart, SendPacket, SenderEnd, ShowTopo, ShowRecv, ShowWake,
                ShowEnd, mainVars
  <2>3. ASSUME NEW n \in Nics, Recv(n) \/ RecvPanic(n) PROVE UNCHANGED phase
    BY <2>3 DEF Recv, NewSocket, Bind, RecvFrame, RecvTopo, RecvPanic, mainVars
  <2>4. ASSUME NEW d \in wire, Deliver(d) \/ Lose(d) PROVE UNCHANGED phase
    BY <2>4 DEF Deliver, Lose, mainVars
  <2>5. CASE UNCHANGED vars
    BY <2>5 DEF vars, mainVars
  <2> QED
    BY <2>1, <2>2, <2>3, <2>4, <2>5 DEF Next, Main, StartExit, MainPanic, MainReturn
<1>2. CASE wire' \subseteq wire
  BY <1>0, <1>1, <1>2 DEF WireInv
<1>3. ASSUME NEW h \in Hosts, SendPacket(h) PROVE WireInv'
  <2> SUFFICES ASSUME NEW d \in wire', NEW n \in Nics, d.frame.src = MacOf[n]
               PROVE  phase'[HostOf[n]] # "init"
    BY DEF WireInv
  <2>1. CASE d \in wire
    BY <1>0, <1>1, <2>1 DEF WireInv
  <2>2. CASE d \notin wire
    <3> DEFINE msg == Head(packetCh[h])
    <3>1. msg \in Msgs /\ msg.nic \in nics[h] /\ d.frame = FrameFor(msg)
      BY <1>3, <2>2, WireGrows
    <3> HIDE DEF msg
    <3>2. MacOf[msg.nic] = MacOf[n] /\ msg.nic \in NicsOf(h)
      BY <3>1, FrameSays DEF IdleInv
    <3>3. HostOf[n] = h
      BY <3>2 DEF UniqueMacs, NicsOf
    <3>4. phase[h] # "init"
      BY <1>3 DEF SendPacket, IdleInv
    <3>5. QED
      BY <1>1, <3>3, <3>4
  <2>3. QED
    BY <2>1, <2>2
<1>4. ASSUME NEW h \in Hosts, StartExit(h) \/ StartProbe(h) \/ Main(h) \/ SenderStart(h) \/ SenderEnd(h)
                                \/ ShowTopo(h)
      PROVE  wire' \subseteq wire
  BY <1>4 DEF StartExit, StartProbe, Main, MainSend, MainPanic, MainReturn, Exit, SenderStart,
              SenderEnd, ShowTopo, ShowRecv, ShowWake, ShowEnd
<1>5. ASSUME NEW n \in Nics, Recv(n) \/ RecvPanic(n) PROVE wire' \subseteq wire
  BY <1>5 DEF Recv, NewSocket, Bind, RecvFrame, RecvTopo, RecvPanic
<1>6. ASSUME NEW d \in wire, Deliver(d) \/ Lose(d) PROVE wire' \subseteq wire
  BY <1>6 DEF Deliver, Lose
<1>7. CASE UNCHANGED vars
  BY <1>2, <1>7 DEF vars
<1> QED
  BY <1>2, <1>3, <1>4, <1>5, <1>6, <1>7 DEF Next, Sender

LEMMA AnswerNext ==
    ASSUME UniqueMacs, IInv, IdleInv, HeldOne, WireInv, AnsweredIsRecorded, [Next]_vars
    PROVE  AnsweredIsRecorded'
<1> SUFFICES ASSUME NEW h \in Hosts, show'[h] # "end"
             PROVE  QueueOwed(h)' /\ WireOwed(h)'
  BY OwedParts, Zenon
<1> DEFINE Goal == QueueOwed(h)' /\ WireOwed(h)'
<1>0. TypeOK /\ HostOf \in [Nics -> Hosts]
  BY NicAssumption DEF IInv
<1>1. show[h] # "end" /\ QueueOwed(h) /\ WireOwed(h)
  BY ShowStaysEnded, OwedParts, Zenon
<1>2. ASSUME nics'[h] = nics[h]
      PROVE  /\ \A msg : Owed(h, msg) => Owed(h, msg)'
             /\ packetCh'[h] = packetCh[h] => QueueOwed(h)'
             /\ packetCh'[h] = <<>> => QueueOwed(h)'
             /\ wire' \subseteq wire => WireOwed(h)'
  BY <1>1, <1>2, OwedSame
<1>3. ASSUME NEW i \in DOMAIN packetCh[h], NEW m, m = packetCh[h][i] PROVE Owed(h, m)
  BY <1>1, <1>3, Zenon DEF QueueOwed
<1>4. packetCh[h] \in Seq(Msgs) /\ packetCh \in [Hosts -> Seq(Msgs)]
  BY <1>0 DEF TypeOK
<1>5. ASSUME NEW k \in Hosts, Exit(k), UNCHANGED nics PROVE Goal
  <2>1. (packetCh'[h] = packetCh[h] \/ packetCh'[h] = <<>>) /\ wire' = wire
    BY <1>4, <1>5 DEF Exit
  <2>2. QED
    BY <1>2, <1>5, <2>1
<1>6. ASSUME NEW k \in Hosts, StartProbe(k) PROVE Goal
  <2>1. UNCHANGED <<packetCh, wire>>
    BY <1>6 DEF StartProbe
  <2>2. CASE k # h
    <3>1. nics'[h] = nics[h]
      BY <1>0, <1>6, <2>2 DEF StartProbe, TypeOK
    <3>2. QED
      BY <1>2, <2>1, <3>1
  <2>3. CASE k = h
    <3>1. phase[h] = "init" /\ packetCh'[h] = <<>>
      BY <1>6, <2>1, <2>3 DEF StartProbe, IdleInv
    <3>2. \A d \in wire' : \A n \in nics'[h] : d.frame.src # MacOf[n]
      <4>1. nics'[h] \subseteq NicsOf(h)
        BY <1>0, <1>6, <2>3 DEF StartProbe, UpNics, TypeOK
      <4>2. \A n \in nics'[h] : n \in Nics /\ phase[HostOf[n]] = "init"
        BY <3>1, <4>1 DEF NicsOf
      <4>3. QED
        BY <2>1, <4>2 DEF WireInv
    <3>3. QueueOwed(h)'
      BY <3>1 DEF QueueOwed
    <3>4. WireOwed(h)'
      BY <3>2, Zenon DEF WireOwed
    <3>5. QED
      BY <3>3, <3>4
  <2>4. QED
    BY <2>2, <2>3
<1>7. ASSUME NEW k \in Hosts, MainSend(k) PROVE Goal
  <2> DEFINE req == [nic |-> cursor[k].nic,
                     peer |-> [host |-> <<>>, nic |-> <<>>, mac |-> Broadcast, vlan |-> cursor[k].v]]
  <2>1. UNCHANGED <<nics, wire>> /\ packetCh' = [packetCh EXCEPT ![k] = Append(@, req)]
    BY <1>7 DEF MainSend
  <2>2. CASE k # h
    BY <1>2, <1>4, <2>1, <2>2
  <2>3. CASE k = h
    <3>1. cursor[h] \in [nic : Nics, r : Nat, v : U16]
      BY <1>7, <2>3 DEF MainSend, IInv, SoundInv, CursorSound
    <3>2. req \in Msgs /\ req.peer.mac = Broadcast
      BY <2>3, <3>1, SeqEmpty DEF Msgs, Peers
    <3>a. PICK msg \in Msgs : msg = req
      BY <3>2
    <3>3. packetCh'[h] = Append(packetCh[h], msg) /\ msg.peer.mac = Broadcast
      BY <1>4, <2>1, <2>3, <3>2, <3>a
    <3>4. Owed(h, msg)'
      BY <3>3, Zenon DEF Owed
    <3>5. \A i \in DOMAIN packetCh[h] : \A m : m = packetCh[h][i] => Owed(h, m)'
      BY <1>2, <1>3, <2>1
    <3>6. QueueOwed(h)'
      BY <1>4, <3>3, <3>4, <3>5, QueueGrows
    <3>7. QED
      BY <1>2, <2>1, <3>6
  <2>4. QED
    BY <2>2, <2>3
<1>8. ASSUME NEW n \in Nics, RecvFrame(n) PROVE Goal
  <2> DEFINE k   == HostOf[n]
             got == Head(rxq[n])
             msg == [nic |-> got.nic, peer |-> parse(got.frame).peer]
  <2>0. k \in Hosts /\ UNCHANGED <<nics, wire>>
    BY <1>0, <1>8 DEF RecvFrame, mainVars
  <2>1. CASE packetCh'[h] = packetCh[h]
    BY <1>2, <2>0, <2>1
  <2>2. CASE /\ packetCh' = [packetCh EXCEPT ![k] = Append(@, msg)]
             /\ held' = [held EXCEPT ![n] = <<msg>>]
    <3>1. msg \in Msgs
      <4>1. rxq[n] \in Seq(GoodRx(k)) /\ rxq[n] # <<>>
        BY <1>8 DEF RecvFrame, IInv, SoundInv, RxSound
      <4>2. got \in GoodRx(k)
        BY <4>1, SeqTake
      <4>3. msg \in GoodMsg(k)
        BY <2>0, <4>2, GoodParse
      <4>4. QED
        BY <4>3 DEF GoodMsg
    <3>2. held'[n] = <<msg>>
      BY <1>0, <2>2 DEF TypeOK
    <3> HIDE DEF msg, k
    <3>3. CASE k # h
      <4>1. packetCh'[h] = packetCh[h]
        BY <1>4, <2>0, <2>2, <3>3
      <4>2. QED
        BY <2>1, <4>1
    <3>4. CASE k = h
      <4>1. packetCh'[h] = Append(packetCh[h], msg)
        BY <1>4, <2>2, <3>4
      <4>2. n \in NicsOf(h)
        BY <3>4 DEF NicsOf, k
      <4>3. InQueue(held'[n], msg.nic, msg.peer.mac, msg.peer.vlan)
        BY <3>1, <3>2, SeqEmpty, QueueOps DEF Says
      <4>4. PICK a, b, c : a = msg.nic /\ b = msg.peer.mac /\ c = msg.peer.vlan
        OBVIOUS
      <4>5. Recorded(h, a, b, c)'
        BY <4>2, <4>3, <4>4, RecordedPlaces, Zenon
      <4>6. PICK m \in Msgs : m = msg
        BY <3>1
      <4>7. Owed(h, m)'
        BY <4>4, <4>5, <4>6, Zenon DEF Owed
      <4>8. \A i \in DOMAIN packetCh[h] : \A x : x = packetCh[h][i] => Owed(h, x)'
        BY <1>2, <1>3, <2>0
      <4>9. QueueOwed(h)'
        BY <1>4, <4>1, <4>6, <4>7, <4>8, QueueGrows
      <4>10. QED
        BY <1>2, <2>0, <4>9
    <3>5. QED
      BY <3>3, <3>4
  <2>3. QED
    BY <1>8, <2>1, <2>2 DEF RecvFrame
<1>9. ASSUME NEW k \in Hosts, SendPacket(k) PROVE Goal
  <2>0. UNCHANGED nics /\ packetCh[k] # <<>>
    BY <1>9 DEF SendPacket, mainVars
  <2>1. \/ packetCh'[h] = packetCh[h] \/ packetCh'[h] = <<>>
        \/ k = h /\ packetCh'[h] = Tail(packetCh[h])
    <3>1. CASE packetCh' = [packetCh EXCEPT ![k] = Tail(@)]
      BY <1>4, <3>1
    <3>2. CASE SenderDies(k)
      BY <1>4, <3>2 DEF SenderDies
    <3>3. QED
      BY <1>9, <3>1, <3>2 DEF SendPacket
  <2>2. QueueOwed(h)'
    <3>1. CASE packetCh'[h] = packetCh[h] \/ packetCh'[h] = <<>>
      BY <1>2, <2>0, <3>1
    <3>2. CASE k = h /\ packetCh'[h] = Tail(packetCh[h])
      <4>1. \A i \in DOMAIN packetCh'[h] :
                \E j \in DOMAIN packetCh[h] : packetCh'[h][i] = packetCh[h][j]
        BY <1>4, <2>0, <3>2
      <4>2. ASSUME NEW i \in DOMAIN packetCh'[h], NEW m, m = packetCh'[h][i] PROVE Owed(h, m)'
        <5>1. PICK j \in DOMAIN packetCh[h] : m = packetCh[h][j]
          BY <4>1, <4>2, Zenon
        <5>2. Owed(h, m)
          BY <1>3, <5>1, Zenon
        <5>3. QED
          BY <1>2, <2>0, <5>2
      <4>3. QED
        BY <4>2, Zenon DEF QueueOwed, Owed
    <3>3. QED
      BY <2>1, <3>1, <3>2
  <2>3. WireOwed(h)'
    <3> SUFFICES ASSUME NEW d \in wire', NEW n \in nics[h],
                        d.frame.src = MacOf[n], d.frame.op = Reply
                 PROVE  Recorded(h, n, d.frame.dst, parse(d.frame).peer.vlan)'
      BY <2>0, Zenon DEF WireOwed
    <3>1. PICK mac : mac = d.frame.dst
      OBVIOUS
    <3>2. PICK v : v = parse(d.frame).peer.vlan
      OBVIOUS
    <3>3. Recorded(h, n, mac, v)
      <4>1. CASE d \in wire
        BY <1>1, <3>1, <3>2, <4>1, Zenon DEF WireOwed
      <4>2. CASE d \notin wire
        <5> DEFINE msg == Head(packetCh[k])
        <5>1. msg \in Msgs /\ msg.nic \in nics[k] /\ d.frame = FrameFor(msg)
          BY <1>9, <4>2, WireGrows
        <5>2. /\ MacOf[msg.nic] = MacOf[n] /\ mac = msg.peer.mac
              /\ v = msg.peer.vlan /\ msg.peer.mac # Broadcast
          BY <3>1, <3>2, <5>1, FrameSays
        <5>3. msg.nic \in NicsOf(k) /\ n \in NicsOf(h)
          BY <5>1 DEF IdleInv
        <5>4. msg.nic = n /\ k = h
          BY <5>2, <5>3 DEF UniqueMacs, NicsOf
        <5>5. 1 \in DOMAIN packetCh[h] /\ msg = packetCh[h][1]
          BY <1>4, <2>0, <5>4
        <5> HIDE DEF msg
        <5>6. Owed(h, msg)
          BY <1>3, <5>5, Zenon
        <5>7. QED
          BY <5>2, <5>4, <5>6, Zenon DEF Owed
      <4>3. QED
        BY <4>1, <4>2
    <3>4. Recorded(h, n, mac, v)'
      BY <1>1, <3>3, RecordedKeeps
    <3>5. QED
      BY <3>1, <3>2, <3>4, Zenon
  <2>4. QED
    BY <2>2, <2>3
<1>10. ASSUME NEW k \in Hosts, SenderStart(k) \/ SenderEnd(k) \/ ShowTopo(k) PROVE Goal
  <2>1. /\ UNCHANGED <<nics, wire>>
        /\ packetCh'[h] = packetCh[h] \/ packetCh'[h] = <<>>
    BY <1>4, <1>10 DEF SenderStart, SenderEnd, SenderDies, ShowTopo, ShowRecv, ShowWake, ShowEnd,
                       mainVars
  <2>2. QED
    BY <1>2, <2>1
<1>11. ASSUME NEW n \in Nics, NewSocket(n) \/ Bind(n) \/ RecvTopo(n) \/ RecvPanic(n) PROVE Goal
  <2>1. UNCHANGED <<nics, wire, packetCh>>
    BY <1>11 DEF NewSocket, Bind, RecvTopo, RecvPanic, mainVars
  <2>2. QED
    BY <1>2, <2>1
<1>12. ASSUME NEW d \in wire, Deliver(d) \/ Lose(d) PROVE Goal
  <2>1. UNCHANGED <<nics, packetCh>> /\ wire' \subseteq wire
    BY <1>12 DEF Deliver, Lose, mainVars
  <2>2. QED
    BY <1>2, <2>1
<1>13. ASSUME UNCHANGED vars PROVE Goal
  BY <1>2, <1>13 DEF vars, mainVars
<1> QED
  <2> HIDE DEF Goal
  <2>1. Goal
    BY <1>5, <1>6, <1>7, <1>8, <1>9, <1>10, <1>11, <1>12, <1>13
       DEF Next, Main, Sender, Recv, StartExit, MainPanic, MainReturn
  <2>2. QED
    BY <2>1 DEF Goal

(***************************************************************************)
(* Where hardware addresses are unique, no reply is queued or in flight    *)
(* for a peer that the answering process will not put in its table while   *)
(* its show_topo lives, though the answer and the report take different    *)
(* channels to different tasks.                                            *)
(***************************************************************************)
THEOREM RepliesAreRecorded == ASSUME UniqueMacs PROVE Spec => []AnsweredIsRecorded
<1>1. Init => HeldOne /\ WireInv /\ AnsweredIsRecorded
  BY DEF Init, HeldOne, WireInv, AnsweredIsRecorded
<1>2. /\ IInv /\ IdleInv /\ HeldOne /\ WireInv /\ AnsweredIsRecorded /\ [Next]_vars
        => HeldOne' /\ WireInv' /\ AnsweredIsRecorded'
  BY HeldOneNext, WireNext, AnswerNext
<1>3. QED
  BY <1>1, <1>2, IdleInit, IdleNext, Inductive, PTL DEF Spec
=============================================================================
