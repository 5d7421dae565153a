-------------------------- MODULE PacketPathProofs --------------------------
(***************************************************************************)
(* The tools on the path of packets for any interfaces, command lines and  *)
(* packets: what xdpdump reports, and what portmirror and erspan do to a   *)
(* packet while commands come, fail, are killed and replace each other.    *)
(***************************************************************************)
EXTENDS PacketPath, SequenceTheorems, TLAPS

-----------------------------------------------------------------------------
(***************************************************************************)
(* xdpdump                                                                 *)
(***************************************************************************)
\* A hook holds the filterlist of the one process that runs on it, or nothing
DumpInv ==
    /\ dump \in [Dumps -> {"off", "loaded", "running"}]
    /\ DOMAIN xdp = Taps
    /\ \A p \in Dumps : dump[p] = "running" => xdp[p.ifindex] = <<Filterlist(p)>>
    /\ \A p, q \in Dumps :
          dump[p] = "running" /\ dump[q] = "running" /\ p.ifindex = q.ifindex => p = q
    /\ \A t \in Taps :
          xdp[t] = <<>> \/ \E p \in Dumps : dump[p] = "running" /\ p.ifindex = t

LEMMA DumpInit == Init => DumpInv
  BY DEF Init, DumpInv

LEMMA DumpKeeps == DumpInv /\ [Next]_vars => DumpInv'
<1> SUFFICES ASSUME DumpInv, [Next]_vars PROVE DumpInv'
  OBVIOUS
<1>1. CASE UNCHANGED xdpVars
  BY <1>1 DEF DumpInv, Filterlist, xdpVars
<1>2. ASSUME NEW p \in Dumps, DumpStart(p) PROVE DumpInv'
  BY <1>2 DEF DumpInv, DumpStart, Filterlist
<1>3. ASSUME NEW p \in Dumps, DumpAttach(p) PROVE DumpInv'
  <2>1. p.ifindex \in Taps
    BY CommandAssumption
  <2>2. CASE xdp[p.ifindex] = <<>>
    <3>1. /\ dump' = [dump EXCEPT ![p] = "running"]
          /\ xdp' = [xdp EXCEPT ![p.ifindex] = <<Filterlist(p)>>]
      BY <1>3, <2>2 DEF DumpAttach, Filterlist
    <3>2. \A q \in Dumps : dump[q] = "running" => q.ifindex # p.ifindex
      BY <2>2 DEF DumpInv
    <3>3. xdp'[p.ifindex] = <<Filterlist(p)>> /\ \A t \in Taps : t # p.ifindex => xdp'[t] = xdp[t]
      BY <2>1, <3>1 DEF DumpInv
    <3>4. \A q \in Dumps : Filterlist(q)' = Filterlist(q)
      BY DEF Filterlist
    <3>5. QED
      BY <2>1, <3>1, <3>2, <3>3, <3>4, CommandAssumption DEF DumpInv
  <2>3. CASE xdp[p.ifindex] # <<>>
    <3>1. dump' = [dump EXCEPT ![p] = "off"] /\ xdp' = xdp /\ dump[p] = "loaded"
      BY <1>3, <2>3 DEF DumpAttach
    <3>2. QED
      BY <3>1 DEF DumpInv, Filterlist
  <2>4. QED
    BY <2>2, <2>3
<1>4. ASSUME NEW p \in Dumps, DumpEnds(p) PROVE DumpInv'
  <2>1. dump' = [dump EXCEPT ![p] = "off"] /\ p.ifindex \in Taps
    BY <1>4, CommandAssumption DEF DumpEnds
  <2>2. \A q \in Dumps : Filterlist(q)' = Filterlist(q) /\ q.ifindex \in Taps
    BY CommandAssumption DEF Filterlist
  <2>3. CASE dump[p] = "running"
    <3>1. xdp' = [xdp EXCEPT ![p.ifindex] = <<>>]
      BY <1>4, <2>3 DEF DumpEnds
    <3>2. \A q \in Dumps \ {p} : dump[q] = "running" => q.ifindex # p.ifindex
      BY <2>3 DEF DumpInv
    <3>3. xdp'[p.ifindex] = <<>> /\ \A t \in Taps : t # p.ifindex => xdp'[t] = xdp[t]
      BY <2>1, <3>1 DEF DumpInv
    <3>4. QED
      BY <2>1, <2>2, <3>1, <3>2, <3>3 DEF DumpInv
  <2>4. CASE dump[p] # "running"
    <3>1. xdp' = xdp
      BY <1>4, <2>4 DEF DumpEnds
    <3>2. QED
      BY <2>1, <2>2, <2>4, <3>1 DEF DumpInv
  <2>5. QED
    BY <2>3, <2>4
<1>5. CASE \E p \in Dumps : DumpStart(p) \/ DumpAttach(p) \/ DumpEnds(p)
  BY <1>2, <1>3, <1>4, <1>5
<1>6. CASE ~(\E p \in Dumps : DumpStart(p) \/ DumpAttach(p) \/ DumpEnds(p)) /\ Next
  <2>1. UNCHANGED xdpVars
    BY <1>6 DEF Next, Main, Load, Detach, Attach, MirrorMap, PortsMap, Create, Destroy, Abort, Advance
  <2>2. QED
    BY <1>1, <2>1
<1>7. QED
  BY <1>1, <1>5, <1>6 DEF vars

\* However xdpdump processes start, fail and are killed, an interface has at
\* most one that runs, and its hook reports what that one's filter lets
\* through, or nothing when there is none (xdpdump/main.rs:48-66): for any
\* number of processes, interfaces and packets.
THEOREM LinkIsExclusive == Spec => []LinkExclusive
<1>1. DumpInv => LinkExclusive
  <2> SUFFICES ASSUME DumpInv, NEW t \in Taps
               PROVE  /\ \A p, q \in Running(t) : p = q
                      /\ \A k \in Packets :
                             Reports(t, k) <=> \E p \in Running(t) : xdp_dump(Filterlist(p), k)
    BY DEF LinkExclusive
  <2>1. \A p, q \in Running(t) : p = q
    BY DEF DumpInv, Running
  <2>2. CASE xdp[t] = <<>>
    <3>1. Running(t) = {}
      BY <2>2 DEF DumpInv, Running
    <3>2. \A k \in Packets : ~Reports(t, k)
      BY <2>2 DEF Reports
    <3>3. QED
      BY <3>1, <3>2
  <2>3. CASE xdp[t] # <<>>
    <3>1. PICK p \in Running(t) : xdp[t] = <<Filterlist(p)>>
      BY <2>3 DEF DumpInv, Running
    <3>2. PICK f : f = Filterlist(p)
      OBVIOUS
    <3>3. \A k \in Packets : Reports(t, k) <=> xdp_dump(f, k)
      BY <3>1, <3>2 DEF Reports
    <3>4. \A k \in Packets :
              xdp_dump(f, k) <=> \E q \in Running(t) : xdp_dump(Filterlist(q), k)
      BY <2>1, <3>1, <3>2, Zenon
    <3>5. QED
      BY <2>1, <3>3, <3>4
  <2>4. QED
    BY <2>2, <2>3
<1>2. QED
  BY <1>1, DumpInit, DumpKeeps, PTL DEF Spec

-----------------------------------------------------------------------------
(***************************************************************************)
(* The filter: what user space stores and the classifier compares          *)
(***************************************************************************)
LEMMA OctetIsNat ==
    /\ 0 \in Octet
    /\ \A x \in Octet : x \in Nat /\ x < 256
BY SMT DEF Octet

LEMMA PortIsNat == ASSUME NEW p, IsOption(p, U16) PROVE unwrap_or(p, 0) \in Nat
<1>1. U16 \subseteq Nat
  BY SMT DEF U16
<1>2. p[1] \in U16 => p[1] \in Nat
  BY <1>1, Zenon
<1>3. QED
  BY <1>2, SMT DEF IsOption, unwrap_or

\* The bytes of two addresses of one length agree exactly when the addresses
\* do, and are zero exactly when the address is.
LEMMA AddrBytes ==
    ASSUME NEW n \in {4, 16}, NEW a \in Bytes(n)
    PROVE  /\ Len(a) = n
           /\ Zero(n) \in Bytes(n) /\ ip_to_bytes(Zero(n)) = Zero(16)
           /\ \A b \in Bytes(n) : ip_to_bytes(a) = ip_to_bytes(b) <=> a = b
           /\ ip_to_bytes(a) = Zero(16) <=> a = Zero(n)
<1>1. n \in Nat /\ n <= 16
  OBVIOUS
<1>2. \A b \in Bytes(n) : b \in Seq(Octet) /\ Len(b) = n
  BY <1>1 DEF Bytes
<1>3. Zero(n) \in Bytes(n)
  BY OctetIsNat DEF Zero, Bytes
<1>4. \A b \in Bytes(n) :
         ip_to_bytes(b) = [i \in 1 .. 16 |-> IF i <= n THEN b[i] ELSE 0]
  BY <1>2 DEF ip_to_bytes
<1>5. ip_to_bytes(Zero(n)) = Zero(16)
  <2>1. \A i \in 1 .. 16 : i <= n => Zero(n)[i] = 0
    BY <1>1 DEF Zero
  <2>2. [i \in 1 .. 16 |-> IF i <= n THEN Zero(n)[i] ELSE 0] = [i \in 1 .. 16 |-> 0]
    BY <2>1
  <2>3. QED
    BY <1>3, <1>4, <2>2 DEF Zero
<1>6. ASSUME NEW b \in Bytes(n), ip_to_bytes(a) = ip_to_bytes(b) PROVE a = b
  <2>1. \A i \in 1 .. 16 : (IF i <= n THEN a[i] ELSE 0) = (IF i <= n THEN b[i] ELSE 0)
    <3> SUFFICES ASSUME NEW i \in 1 .. 16
                 PROVE  (IF i <= n THEN a[i] ELSE 0) = (IF i <= n THEN b[i] ELSE 0)
      OBVIOUS
    <3>1. ip_to_bytes(a)[i] = ip_to_bytes(b)[i]
      BY <1>6
    <3>2. QED
      BY <1>4, <3>1
  <2>2. \A i \in 1 .. n : i \in 1 .. 16 /\ i <= n
    BY <1>1
  <2>3. \A i \in 1 .. n : a[i] = b[i]
    BY <2>1, <2>2
  <2>4. QED
    BY <2>3 DEF Bytes
<1>7. QED
  BY <1>2, <1>3, <1>5, <1>6

LEMMA BytesAreSeq ==
    ASSUME NEW n \in Nat, NEW w \in Bytes(n)
    PROVE  w \in Seq(Octet) /\ Len(w) = n
BY DEF Bytes

LEMMA TwoBytes ==
    ASSUME NEW w \in Bytes(2)
    PROVE  w = <<w[1], w[2]>> /\ w[1] \in Octet /\ w[2] \in Octet
<1>1. 1 \in 1 .. 2 /\ 2 \in 1 .. 2 /\ \A i \in 1 .. 2 : i = 1 \/ i = 2
  OBVIOUS
<1>2. w[1] \in Octet /\ w[2] \in Octet
  BY <1>1 DEF Bytes
<1>3. w \in Seq(Octet) /\ Len(w) = 2
  BY BytesAreSeq
<1>4. PICK x \in Octet : x = w[1]
  BY <1>2
<1>5. PICK y \in Octet : y = w[2]
  BY <1>2
<1>6. <<x, y>> \in Seq(Octet) /\ Len(<<x, y>>) = 2 /\ <<x, y>>[1] = x /\ <<x, y>>[2] = y
  OBVIOUS
<1>7. \A i \in 1 .. Len(w) : w[i] = <<x, y>>[i]
  BY <1>1, <1>3, <1>4, <1>5, <1>6
<1>8. w = <<x, y>>
  BY <1>3, <1>6, <1>7, SeqEqual
<1>9. QED
  BY <1>2, <1>4, <1>5, <1>8, Zenon

\* The two halves of a number in base B, and that they determine it.
LEMMA Halves ==
    ASSUME NEW B \in Nat, B > 0, NEW p \in Nat
    PROVE  /\ p \div B \in Nat /\ p % B \in 0 .. B - 1
           /\ B * (p \div B) + (p % B) = p
           /\ 0 \div B = 0 /\ 0 % B = 0
BY SMT

LEMMA HalvesUnique ==
    ASSUME NEW x \in Nat, NEW y \in Nat, NEW u \in Nat, NEW z \in Nat, y < 256, z < 256
    PROVE  /\ (u = x /\ z = y) <=> 256 * x + y = 256 * u + z
           /\ (x = 0 /\ y = 0) <=> 256 * x + y = 0
BY SMT

\* A port is stored as the two bytes that a packet has it in.
LEMMA PortBytes ==
    ASSUME NEW p \in Nat, NEW w \in Bytes(2)
    PROVE  /\ to_be(0) = Zero(2)
           /\ to_be(p) = Zero(2) <=> p = 0
           /\ w = to_be(p) <=> p = 256 * w[1] + w[2]
<1>1. Zero(2) = <<0, 0>>
  <2>1. Zero(2) \in Bytes(2) /\ Zero(2)[1] = 0 /\ Zero(2)[2] = 0
    BY OctetIsNat DEF Zero, Bytes
  <2>2. QED
    BY <2>1, TwoBytes
<1>2. PICK B \in Nat : B = 256
  OBVIOUS
<1>3. B > 0
  BY <1>2
<1>4. PICK x \in Nat : x = p \div B
  BY <1>3, Halves
<1>5. PICK y \in Nat : y = p % B /\ y < 256
  <2>1. p % B \in 0 .. B - 1
    BY <1>3, Halves
  <2>2. QED
    BY <1>2, <2>1
<1>6. p = 256 * x + y
  <2>1. B * (p \div B) + (p % B) = p
    BY <1>3, Halves
  <2>2. QED
    BY <1>2, <1>4, <1>5, <2>1
<1>7. to_be(0) = <<0, 0>>
  <2>1. 0 \div B = 0 /\ 0 % B = 0
    BY <1>3, Halves
  <2>2. QED
    BY <1>2, <2>1 DEF to_be
<1>8. to_be(p) = <<x, y>>
  BY <1>2, <1>4, <1>5 DEF to_be
<1>9. PICK u \in Nat : u = w[1] /\ u < 256
  BY TwoBytes, OctetIsNat
<1>10. PICK z \in Nat : z = w[2] /\ z < 256
  BY TwoBytes, OctetIsNat
<1>11. w = <<u, z>>
  BY <1>9, <1>10, TwoBytes
<1>12. (<<x, y>> = <<0, 0>>) <=> p = 0
  <2>1. (<<x, y>> = <<0, 0>>) <=> (x = 0 /\ y = 0)
    OBVIOUS
  <2>2. (x = 0 /\ y = 0) <=> p = 0
    BY <1>5, <1>6, HalvesUnique
  <2>3. QED
    BY <2>1, <2>2
<1>13. (<<u, z>> = <<x, y>>) <=> p = 256 * u + z
  <2>1. (<<u, z>> = <<x, y>>) <=> (u = x /\ z = y)
    OBVIOUS
  <2>2. (u = x /\ z = y) <=> p = 256 * u + z
    BY <1>5, <1>6, <1>10, HalvesUnique
  <2>3. QED
    BY <2>1, <2>2
<1>14. to_be(0) = Zero(2)
  BY <1>1, <1>7
<1>15. to_be(p) = Zero(2) <=> p = 0
  BY <1>1, <1>8, <1>12
<1>16. w = to_be(p) <=> p = 256 * w[1] + w[2]
  BY <1>8, <1>9, <1>10, <1>11, <1>13
<1>17. QED
  BY <1>14, <1>15, <1>16

\* The four facts that decide whether a stored field is compared.
LEMMA FieldUsed ==
    ASSUME NEW o, MirrorOptions(o)
    PROVE  /\ "SRC" \in HashType(o) <=> Given(o.saddr)
           /\ "DST" \in HashType(o) <=> Given(o.daddr)
           /\ "SPORT" \in HashType(o) <=> unwrap_or(o.sport, 0) # 0
           /\ "DPORT" \in HashType(o) <=> unwrap_or(o.dport, 0) # 0
           /\ "PROTO" \in HashType(o) <=> unwrap_or(o.proto, 0) # 0
<1>1. ASSUME NEW a, IsOption(a, Bytes(4)) \/ IsOption(a, Bytes(16))
      PROVE  ip_to_bytes(unwrap_or(a, Zero(4))) # Zero(16) <=> Given(a)
  <2>1. CASE a = <<>>
    <3>1. ip_to_bytes(Zero(4)) = Zero(16)
      <4>1. Zero(4) \in Bytes(4)
        BY OctetIsNat DEF Zero, Bytes
      <4>2. QED
        BY <4>1, AddrBytes
    <3>2. QED
      BY <2>1, <3>1, Zenon DEF unwrap_or, Given
  <2>2. ASSUME NEW n \in {4, 16}, a = <<a[1]>>, a[1] \in Bytes(n), a # <<>>
        PROVE  ip_to_bytes(unwrap_or(a, Zero(4))) # Zero(16) <=> Given(a)
    <3>1. Len(a[1]) = n /\ (ip_to_bytes(a[1]) = Zero(16) <=> a[1] = Zero(n))
      BY <2>2, AddrBytes
    <3>2. QED
      BY <2>2, <3>1, Zenon DEF unwrap_or, Given
  <2>3. QED
    BY <1>1, <2>1, <2>2 DEF IsOption
<1>2. ASSUME NEW p, IsOption(p, U16) PROVE to_be(unwrap_or(p, 0)) # Zero(2) <=> unwrap_or(p, 0) # 0
  <2>1. unwrap_or(p, 0) \in Nat
    BY <1>2, PortIsNat
  <2>2. Zero(2) \in Bytes(2)
    BY OctetIsNat DEF Zero, Bytes
  <2>3. QED
    BY <2>1, <2>2, PortBytes
<1>3. /\ FlowKey(o).saddr = ip_to_bytes(unwrap_or(o.saddr, Zero(4)))
      /\ FlowKey(o).daddr = ip_to_bytes(unwrap_or(o.daddr, Zero(4)))
      /\ FlowKey(o).sport = to_be(unwrap_or(o.sport, 0))
      /\ FlowKey(o).dport = to_be(unwrap_or(o.dport, 0))
      /\ FlowKey(o).proto = unwrap_or(o.proto, 0)
  BY DEF FlowKey
<1>4. /\ "SRC" \in HashType(o) <=> FlowKey(o).saddr # Zero(16)
      /\ "DST" \in HashType(o) <=> FlowKey(o).daddr # Zero(16)
      /\ "SPORT" \in HashType(o) <=> FlowKey(o).sport # Zero(2)
      /\ "DPORT" \in HashType(o) <=> FlowKey(o).dport # Zero(2)
      /\ "PROTO" \in HashType(o) <=> FlowKey(o).proto # 0
  BY DEF HashType, HashTypes
<1>5. /\ IsOption(o.saddr, Bytes(4)) \/ IsOption(o.saddr, Bytes(16))
      /\ IsOption(o.daddr, Bytes(4)) \/ IsOption(o.daddr, Bytes(16))
      /\ IsOption(o.sport, U16) /\ IsOption(o.dport, U16)
  BY DEF MirrorOptions
<1>6. QED
  BY <1>1, <1>2, <1>3, <1>4, <1>5, Zenon

\* A command line that does not mix versions: a destination that is compared is
\* of the source's, which says what version is meant.
SameVersion(o) ==
    Given(o.daddr) => Len(o.daddr[1]) = Len(unwrap_or(o.saddr, Zero(4)))

\* A packet as the classifier sees it: it takes the destination of an IPv6 packet
\* from its source (portmirror.bpf.c:156).
Seen(k) == [type |-> k.type, len |-> k.len, ihl |-> k.ihl, src |-> k.src,
            dst |-> IF k.type = "ip4" THEN k.dst ELSE k.src,
            proto |-> k.proto, sport |-> k.sport, dport |-> k.dport, tun |-> k.tun]

\* The classifier clones what the options select among the packets as it sees
\* them: the stored key equals the packet's key exactly when every field that is
\* given agrees.
LEMMA KeyDecides ==
    ASSUME NEW o, MirrorOptions(o), SameVersion(o),
           NEW k, k.type \in {"ip4", "ip6"} => IpPacket(k)
    PROVE  (HashType(o) = {} \/ (Readable(k) /\ PktKey(HashType(o), k) \in {FlowKey(o)}))
              <=> Matches(o, Seen(k))
<1> DEFINE H    == HashType(o)
           sip  == unwrap_or(o.saddr, Zero(4))
           dip  == unwrap_or(o.daddr, Zero(4))
           sp   == unwrap_or(o.sport, 0)
           dp   == unwrap_or(o.dport, 0)
           pr   == unwrap_or(o.proto, 0)
           dst  == IF k.type = "ip4" THEN k.dst ELSE k.src
           none == /\ ~Given(o.saddr) /\ ~Given(o.daddr)
                   /\ sp = 0 /\ dp = 0 /\ pr = 0
           all  == /\ Len(k.src) = Len(sip)
                   /\ Given(o.saddr) => k.src = o.saddr[1]
                   /\ Given(o.daddr) => dst = o.daddr[1]
                   /\ sp \in {0, 256 * k.sport[1] + k.sport[2]}
                   /\ dp \in {0, 256 * k.dport[1] + k.dport[2]}
                   /\ pr \in {0, k.proto}
<1>1. Matches(o, Seen(k)) <=> none \/ (Readable(k) /\ all)
  <2>1. PICK s : s = Seen(k)
    OBVIOUS
  <2>2. /\ s.type = k.type /\ s.len = k.len /\ s.ihl = k.ihl /\ s.src = k.src /\ s.dst = dst
        /\ s.proto = k.proto /\ s.sport = k.sport /\ s.dport = k.dport
    BY <2>1 DEF Seen
  <2>3. Readable(s) <=> Readable(k)
    BY <2>2, Zenon DEF Readable
  <2>4. Matches(o, s) <=> none \/ (Readable(s) /\ all)
    BY <2>2 DEF Matches
  <2>5. QED
    BY <2>1, <2>3, <2>4, Zenon
<1>2. H = {} <=> none
  <2>1. H \subseteq HashTypes
    BY DEF HashType
  <2>2. QED
    BY <2>1, FieldUsed DEF HashTypes
<1>3. ASSUME Readable(k) PROVE PktKey(H, k) = FlowKey(o) <=> all
  <2>1. k.type \in {"ip4", "ip6"} /\ IpPacket(k)
    BY <1>3 DEF Readable
  <2>2. PICK n \in {4, 16} : /\ k.src \in Bytes(n) /\ dst \in Bytes(n)
                             /\ n = 4 <=> k.type = "ip4"
    BY <2>1 DEF IpPacket
  <2>3. k.sport \in Bytes(2) /\ k.dport \in Bytes(2)
    BY <2>1 DEF IpPacket
  <2>4. PICK m \in {4, 16} : /\ sip \in Bytes(m)
                             /\ Given(o.saddr) => sip = o.saddr[1]
                             /\ ~Given(o.saddr) => sip = Zero(m)
    <3>1. Zero(4) \in Bytes(4) /\ Zero(16) \in Bytes(16)
      BY OctetIsNat DEF Zero, Bytes
    <3>2. CASE o.saddr = <<>>
      BY <3>1, <3>2, Zenon DEF unwrap_or, Given
    <3>3. ASSUME NEW j \in {4, 16}, o.saddr = <<o.saddr[1]>>, o.saddr[1] \in Bytes(j), o.saddr # <<>>
          PROVE  /\ sip \in Bytes(j)
                 /\ Given(o.saddr) => sip = o.saddr[1]
                 /\ ~Given(o.saddr) => sip = Zero(j)
      <4>1. Len(o.saddr[1]) = j
        BY <3>3, AddrBytes
      <4>2. QED
        BY <3>3, <4>1, Zenon DEF unwrap_or, Given
    <3>4. QED
      BY <3>2, <3>3 DEF MirrorOptions, IsOption
  <2>5. Len(k.src) = n /\ Len(sip) = m
    BY <2>2, <2>4, AddrBytes
  <2>6. sp \in Nat /\ dp \in Nat
    BY PortIsNat DEF MirrorOptions
  <2> HIDE DEF H, sip, dip, sp, dp, pr, dst
  <2>7. Len(sip) = 4 <=> m = 4
    BY <2>4, <2>5
  <2>8. Given(o.daddr) => dip \in Bytes(m) /\ dip = o.daddr[1]
    <3> SUFFICES ASSUME Given(o.daddr) PROVE dip \in Bytes(m) /\ dip = o.daddr[1]
      OBVIOUS
    <3>1. o.daddr # <<>> /\ dip = o.daddr[1] /\ Len(o.daddr[1]) = m
      BY <2>5 DEF SameVersion, Given, unwrap_or, sip, dip
    <3>2. o.daddr[1] \in Bytes(4) \/ o.daddr[1] \in Bytes(16)
      BY <3>1 DEF MirrorOptions, IsOption
    <3>3. /\ o.daddr[1] \in Bytes(4) => Len(o.daddr[1]) = 4
          /\ o.daddr[1] \in Bytes(16) => Len(o.daddr[1]) = 16
      BY BytesAreSeq
    <3>4. QED
      BY <3>1, <3>2, <3>3
  <2>9. /\ FlowKey(o) = [saddr |-> ip_to_bytes(sip), daddr |-> ip_to_bytes(dip),
                         sport |-> to_be(sp), dport |-> to_be(dp), proto |-> pr,
                         ip_version |-> IF Len(sip) = 4 THEN 4 ELSE 6]
    BY DEF FlowKey, sip, dip, sp, dp, pr
  <2>10. PktKey(H, k) =
           [saddr      |-> IF "SRC" \in H THEN ip_to_bytes(k.src) ELSE Zero(16),
            daddr      |-> IF "DST" \in H
                           THEN ip_to_bytes(dst) ELSE Zero(16),
            sport      |-> IF "SPORT" \in H THEN k.sport ELSE Zero(2),
            dport      |-> IF "DPORT" \in H THEN k.dport ELSE Zero(2),
            proto      |-> IF "PROTO" \in H THEN k.proto ELSE 0,
            ip_version |-> IF k.type = "ip4" THEN 4 ELSE 6]
    BY DEF PktKey, dst
  <2>11. PktKey(H, k) = FlowKey(o) <=>
           /\ (IF "SRC" \in H THEN ip_to_bytes(k.src) ELSE Zero(16)) = ip_to_bytes(sip)
           /\ (IF "DST" \in H THEN ip_to_bytes(dst) ELSE Zero(16)) = ip_to_bytes(dip)
           /\ (IF "SPORT" \in H THEN k.sport ELSE Zero(2)) = to_be(sp)
           /\ (IF "DPORT" \in H THEN k.dport ELSE Zero(2)) = to_be(dp)
           /\ (IF "PROTO" \in H THEN k.proto ELSE 0) = pr
           /\ (IF k.type = "ip4" THEN 4 ELSE 6) = (IF Len(sip) = 4 THEN 4 ELSE 6)
    BY <2>9, <2>10
  <2>12. /\ "SRC" \in H <=> Given(o.saddr)
         /\ "DST" \in H <=> Given(o.daddr)
         /\ "SPORT" \in H <=> sp # 0
         /\ "DPORT" \in H <=> dp # 0
         /\ "PROTO" \in H <=> pr # 0
    BY FieldUsed DEF H, sp, dp, pr
  <2>13. (IF k.type = "ip4" THEN 4 ELSE 6) = (IF Len(sip) = 4 THEN 4 ELSE 6) <=> m = n
    BY <2>2, <2>4, <2>7
  <2>14. m = n => ((IF "SRC" \in H THEN ip_to_bytes(k.src) ELSE Zero(16)) = ip_to_bytes(sip)
                     <=> (Given(o.saddr) => k.src = o.saddr[1]))
    <3>1. m = n => (ip_to_bytes(k.src) = ip_to_bytes(sip) <=> k.src = sip)
      BY <2>2, <2>4, AddrBytes
    <3>2. ip_to_bytes(Zero(m)) = Zero(16)
      BY <2>4, AddrBytes
    <3>3. QED
      BY <2>4, <2>12, <3>1, <3>2, Zenon
  <2>15. m = n => ((IF "DST" \in H THEN ip_to_bytes(dst) ELSE Zero(16)) = ip_to_bytes(dip)
                     <=> (Given(o.daddr) => dst = o.daddr[1]))
    <3>1. CASE Given(o.daddr)
      <4>1. m = n => (ip_to_bytes(dst) = ip_to_bytes(dip) <=> dst = dip)
        BY <2>2, <2>8, <3>1, AddrBytes
      <4>2. QED
        BY <2>8, <2>12, <3>1, <4>1, Zenon
    <3>2. CASE ~Given(o.daddr)
      <4>1. ip_to_bytes(dip) = Zero(16)
        BY <2>12, <3>2 DEF H, HashType, HashTypes, FlowKey, dip
      <4>2. QED
        BY <2>12, <3>2, <4>1, Zenon
    <3>3. QED
      BY <3>1, <3>2
  <2>16. (IF "SPORT" \in H THEN k.sport ELSE Zero(2)) = to_be(sp)
           <=> sp \in {0, 256 * k.sport[1] + k.sport[2]}
    <3>1. to_be(0) = Zero(2) /\ (k.sport = to_be(sp) <=> sp = 256 * k.sport[1] + k.sport[2])
      BY <2>3, <2>6, PortBytes
    <3>2. QED
      BY <2>12, <3>1, Zenon
  <2>17. (IF "DPORT" \in H THEN k.dport ELSE Zero(2)) = to_be(dp)
           <=> dp \in {0, 256 * k.dport[1] + k.dport[2]}
    <3>1. to_be(0) = Zero(2) /\ (k.dport = to_be(dp) <=> dp = 256 * k.dport[1] + k.dport[2])
      BY <2>3, <2>6, PortBytes
    <3>2. QED
      BY <2>12, <3>1, Zenon
  <2>18. (IF "PROTO" \in H THEN k.proto ELSE 0) = pr <=> pr \in {0, k.proto}
    BY <2>12
  <2>19. Len(k.src) = Len(sip) <=> m = n
    BY <2>5
  <2>20. QED
    BY <2>11, <2>13, <2>14, <2>15, <2>16, <2>17, <2>18, <2>19, Zenon
<1> HIDE DEF H, none, all
<1>4. QED
  <2>1. PktKey(H, k) \in {FlowKey(o)} <=> PktKey(H, k) = FlowKey(o)
    OBVIOUS
  <2>2. (H = {} \/ (Readable(k) /\ PktKey(H, k) \in {FlowKey(o)})) <=> Matches(o, Seen(k))
    BY <1>1, <1>2, <1>3, <2>1, Zenon
  <2>3. QED
    BY <2>2, Zenon DEF H

-----------------------------------------------------------------------------
(***************************************************************************)
(* The turn of a tap: the calls that are left                              *)
(***************************************************************************)
Rank(c) == CASE c[1] = "detach"                 -> 1
             [] c[1] \in {"mirror_map", "ports"} -> 2
             [] c[1] = "create"                 -> 3
             [] c[1] = "attach"                 -> 4
             [] c[1] = "destroy"                -> 5

CallNames == {"detach", "mirror_map", "ports", "create", "attach", "destroy"}
AllCalls  == CallNames \X (Slots \cup {"tap", "all"})
CallSet(q) == {q[i] : i \in DOMAIN q}

\* Detach before the maps, the maps before create, create before attach.
Sorted(q) == \A i, j \in DOMAIN q : i < j => Rank(q[i]) <= Rank(q[j])

\* The slots a command attaches, and the program that it leaves in each.
SlotsOf(o) == IF o.tool = "erspan" THEN Slots
              ELSE IF o.ingress = o.egress /\ ~o.ingress THEN Slots
              ELSE {s \in {"ingress", "egress"} : IF s = "ingress" THEN o.ingress ELSE o.egress}
Prog(o, t) == IF o.tool = "erspan" THEN ErspanLoaded
              ELSE [MirrorLoaded(o) EXCEPT !.mirror_map = [x \in {t} |-> o.mirror]]

\* What is left of a command's calls, q, is in order and makes sense: only a
\* command that attaches fills maps and attaches, and only in its own slots;
\* before its first attach all of them are still to come.
CallsInv(o, q) ==
    /\ q \in Seq(AllCalls) /\ Sorted(q)
    /\ \A c \in CallSet(q) : /\ Rank(c) \in {2, 3, 4} => o.attach
                             /\ c[1] = "attach" => c[2] \in SlotsOf(o)
                             /\ c[1] = "mirror_map" => o.tool = "portmirror"
                             /\ Rank(c) < 4 /\ o.attach =>
                                  \A s \in SlotsOf(o) : <<"attach", s>> \in CallSet(q)

TurnTypes ==
    /\ todo \in Seq(Taps)
    /\ todo # <<>> \/ ops # <<>> => opt \in Commands
    /\ failed \in BOOLEAN

\* Every program attached is that of a command not detached since, in one of
\* the slots the command attaches to, its map filled.
HooksInv ==
    /\ DOMAIN hooks = Taps /\ DOMAIN by = Taps
    /\ \A t \in Taps : /\ by[t] \subseteq {o \in Commands : o.attach}
                       /\ DOMAIN hooks[t] \subseteq Slots
                       /\ \A s \in DOMAIN hooks[t] : \E o \in by[t] :
                             s \in SlotsOf(o) /\ hooks[t][s] = Prog(o, t)

\* In the middle of a turn: the tap is not settled; a command that attaches
\* counts as in force; the program it attaches is complete once the map is
\* filled; without a failure the slots not detached yet are exactly those that
\* may be occupied, and every slot of the command is taken or to be attached.
TurnInv ==
    ops # <<>> =>
      /\ tap \in Taps /\ tap \notin settled
      /\ CallsInv(opt, ops)
      /\ opt.attach /\ (\E c \in CallSet(ops) : Rank(c) < 5) =>
            /\ opt \in by[tap]
            /\ (\A c \in CallSet(ops) : c[1] # "mirror_map") => skel = Prog(opt, tap)
            /\ opt.tool = "portmirror" => skel \in {MirrorLoaded(opt), Prog(opt, tap)}
            /\ ~failed => \A s \in SlotsOf(opt) :
                  s \in DOMAIN hooks[tap] \/ <<"attach", s>> \in CallSet(ops)
      /\ Head(ops)[1] = "detach" /\ ~failed =>
            \A s \in DOMAIN hooks[tap] : <<"detach", s>> \in CallSet(ops)

\* A settled tap whose programs are one command's has them all.
SettledInv ==
    /\ settled \subseteq Taps
    /\ \A t \in settled : \A o \in by[t] : by[t] = {o} => SlotsOf(o) \subseteq DOMAIN hooks[t]

LEMMA RankFacts ==
    ASSUME NEW c \in AllCalls
    PROVE  /\ Rank(c) \in 1 .. 5 /\ c[1] \in CallNames
           /\ Rank(c) = 1 <=> c[1] = "detach"
           /\ Rank(c) = 2 <=> c[1] \in {"mirror_map", "ports"}
           /\ Rank(c) = 3 <=> c[1] = "create"
           /\ Rank(c) = 4 <=> c[1] = "attach"
           /\ Rank(c) = 5 <=> c[1] = "destroy"
<1>1. c[1] \in CallNames
  BY DEF AllCalls
<1>2. QED
  BY <1>1 DEF CallNames, Rank

LEMMA NoCalls == /\ <<>> \in Seq(AllCalls) /\ CallSet(<<>>) = {} /\ Sorted(<<>>)
  BY DEF CallSet, Sorted

LEMMA TakeCall ==
    ASSUME NEW q \in Seq(AllCalls), q # <<>>, Sorted(q)
    PROVE  /\ Head(q) \in AllCalls /\ Tail(q) \in Seq(AllCalls) /\ Sorted(Tail(q))
           /\ CallSet(q) = {Head(q)} \cup CallSet(Tail(q))
           /\ CallSet(q) \subseteq AllCalls
           /\ \A c \in CallSet(Tail(q)) : Rank(Head(q)) <= Rank(c)
           /\ Len(q) = 1 <=> Tail(q) = <<>>
           /\ Tail(q) # <<>> => q[2] = Head(Tail(q)) /\ q[2] \in CallSet(Tail(q))
<1> DEFINE r == Tail(q)
<1>1. Len(q) \in Nat \ {0} /\ DOMAIN q = 1 .. Len(q) /\ Head(q) = q[1]
  BY LenProperties, EmptySeq
<1>2. /\ r \in Seq(AllCalls) /\ Len(r) = Len(q) - 1 /\ DOMAIN r = 1 .. Len(q) - 1
      /\ \A i \in 1 .. Len(q) - 1 : r[i] = q[i + 1]
  BY <1>1
<1>3. \A i \in 1 .. Len(q) : q[i] \in AllCalls
  BY ElementOfSeq
<1>4. \A i \in 1 .. Len(q) : i = 1 \/ (i - 1 \in 1 .. Len(q) - 1 /\ r[i - 1] = q[i])
  <2> SUFFICES ASSUME NEW i \in 1 .. Len(q), i # 1
               PROVE  i - 1 \in 1 .. Len(q) - 1 /\ r[i - 1] = q[i]
    OBVIOUS
  <2>1. i - 1 \in 1 .. Len(q) - 1 /\ (i - 1) + 1 = i
    BY <1>1
  <2>2. r[i - 1] = q[(i - 1) + 1]
    BY <1>2, <2>1
  <2>3. QED
    BY <2>1, <2>2
<1>5. \A i \in 1 .. Len(q) - 1 : i + 1 \in 1 .. Len(q) /\ 1 < i + 1
  BY <1>1
<1>6. 1 \in 1 .. Len(q)
  BY <1>1
<1> HIDE DEF r
<1>7. CallSet(q) = {Head(q)} \cup CallSet(r)
  <2>1. ASSUME NEW c \in CallSet(q) PROVE c \in {Head(q)} \cup CallSet(r)
    <3>1. PICK i \in 1 .. Len(q) : c = q[i]
      BY <1>1, <2>1 DEF CallSet
    <3>2. QED
      BY <1>1, <1>2, <1>4, <3>1 DEF CallSet
  <2>2. ASSUME NEW c \in CallSet(r) PROVE c \in CallSet(q)
    <3>1. PICK i \in 1 .. Len(q) - 1 : c = r[i]
      BY <1>2, <2>2 DEF CallSet
    <3>2. QED
      BY <1>1, <1>2, <1>5, <3>1 DEF CallSet
  <2>3. Head(q) \in CallSet(q)
    BY <1>1, <1>6 DEF CallSet
  <2>4. QED
    BY <2>1, <2>2, <2>3
<1>8. \A c \in CallSet(r) : Rank(Head(q)) <= Rank(c)
  <2> SUFFICES ASSUME NEW c \in CallSet(r) PROVE Rank(Head(q)) <= Rank(c)
    OBVIOUS
  <2>1. PICK i \in 1 .. Len(q) - 1 : c = r[i]
    BY <1>2 DEF CallSet
  <2>2. i + 1 \in 1 .. Len(q) /\ 1 < i + 1 /\ c = q[i + 1]
    BY <1>2, <1>5, <2>1
  <2>3. QED
    BY <1>1, <1>6, <2>2 DEF Sorted
<1>9. Sorted(r)
  <2> SUFFICES ASSUME NEW i \in 1 .. Len(q) - 1, NEW j \in 1 .. Len(q) - 1, i < j
               PROVE  Rank(r[i]) <= Rank(r[j])
    BY <1>2 DEF Sorted
  <2>1. i + 1 \in 1 .. Len(q) /\ j + 1 \in 1 .. Len(q) /\ i + 1 < j + 1
    BY <1>5
  <2>2. Rank(q[i + 1]) <= Rank(q[j + 1])
    BY <1>1, <2>1 DEF Sorted
  <2>3. QED
    BY <1>2, <2>2
<1>10. CallSet(q) \subseteq AllCalls
  BY <1>1, <1>3 DEF CallSet
<1>11. Len(q) = 1 <=> r = <<>>
  BY <1>1, <1>2, EmptySeq
<1>12. r # <<>> => q[2] = Head(r) /\ q[2] \in CallSet(r)
  <2> SUFFICES ASSUME r # <<>> PROVE q[2] = Head(r) /\ q[2] \in CallSet(r)
    OBVIOUS
  <2>1. 1 \in 1 .. Len(q) - 1
    BY <1>1, <1>11
  <2>2. r[1] = q[2] /\ Head(r) = r[1]
    BY <1>2, <2>1
  <2>3. QED
    BY <1>2, <2>1, <2>2 DEF CallSet
<1>13. Head(q) \in AllCalls
  BY <1>7, <1>10
<1>14. QED
  BY <1>2, <1>7, <1>8, <1>9, <1>10, <1>11, <1>12, <1>13 DEF r

LEMMA CallsTake ==
    ASSUME NEW o, NEW q, CallsInv(o, q), q # <<>>
    PROVE  CallsInv(o, Tail(q))
<1> DEFINE r == Tail(q)
<1>1. /\ q \in Seq(AllCalls) /\ Sorted(q)
      /\ \A c \in CallSet(q) : /\ Rank(c) \in {2, 3, 4} => o.attach
                               /\ c[1] = "attach" => c[2] \in SlotsOf(o)
                               /\ c[1] = "mirror_map" => o.tool = "portmirror"
                               /\ Rank(c) < 4 /\ o.attach =>
                                    \A s \in SlotsOf(o) : <<"attach", s>> \in CallSet(q)
  BY DEF CallsInv
<1>2. /\ Head(q) \in AllCalls /\ r \in Seq(AllCalls) /\ Sorted(r)
      /\ CallSet(q) = {Head(q)} \cup CallSet(r) /\ CallSet(q) \subseteq AllCalls
      /\ \A c \in CallSet(r) : Rank(Head(q)) <= Rank(c)
  BY <1>1, TakeCall
<1> HIDE DEF r
<1>3. ASSUME NEW c \in CallSet(r), Rank(c) < 4, o.attach, NEW s \in SlotsOf(o)
      PROVE  <<"attach", s>> \in CallSet(r)
  <2>1. <<"attach", s>> \in CallSet(q)
    BY <1>1, <1>2, <1>3
  <2>2. Rank(Head(q)) <= Rank(c) /\ Rank(Head(q)) \in 1 .. 5 /\ Rank(c) \in 1 .. 5
    BY <1>2, <1>3, RankFacts
  <2>3. Rank(Head(q)) # 4
    BY <1>3, <2>2
  <2>4. Head(q) # <<"attach", s>>
    <3>1. Head(q)[1] # "attach"
      BY <1>2, <2>3, RankFacts
    <3>2. QED
      BY <3>1
  <2>5. QED
    BY <1>2, <2>1, <2>4
<1>4. QED
  BY <1>1, <1>2, <1>3 DEF CallsInv, r

\* A list of calls with these calls, in order.
IsList(q, C) == q \in Seq(AllCalls) /\ Sorted(q) /\ CallSet(q) = C

LEMMA JoinCalls ==
    ASSUME NEW a, NEW b, NEW A, NEW B, IsList(a, A), IsList(b, B),
           \A c \in A, e \in B : Rank(c) <= Rank(e)
    PROVE  IsList(a \o b, A \cup B)
<1> DEFINE q == a \o b
<1>0. /\ a \in Seq(AllCalls) /\ b \in Seq(AllCalls) /\ Sorted(a) /\ Sorted(b)
      /\ CallSet(a) = A /\ CallSet(b) = B
  BY DEF IsList
<1>1. /\ Len(a) \in Nat /\ DOMAIN a = 1 .. Len(a)
      /\ Len(b) \in Nat /\ DOMAIN b = 1 .. Len(b)
  BY <1>0, LenProperties
<1>2. /\ q \in Seq(AllCalls) /\ DOMAIN q = 1 .. Len(a) + Len(b)
      /\ \A i \in 1 .. Len(a) : q[i] = a[i]
      /\ \A i \in 1 .. Len(b) : q[Len(a) + i] = b[i]
  BY <1>0, <1>1
<1>3. \A i \in DOMAIN q : i \in 1 .. Len(a) \/ (i - Len(a) \in 1 .. Len(b) /\ q[i] = b[i - Len(a)])
  <2> SUFFICES ASSUME NEW i \in DOMAIN q, i \notin 1 .. Len(a)
               PROVE  i - Len(a) \in 1 .. Len(b) /\ q[i] = b[i - Len(a)]
    OBVIOUS
  <2>1. i - Len(a) \in 1 .. Len(b) /\ Len(a) + (i - Len(a)) = i
    BY <1>1, <1>2
  <2>2. q[Len(a) + (i - Len(a))] = b[i - Len(a)]
    BY <1>2, <2>1
  <2>3. QED
    BY <2>1, <2>2
<1> HIDE DEF q
<1>4. CallSet(q) = A \cup B
  <2>1. ASSUME NEW c \in CallSet(q) PROVE c \in A \cup B
    <3>1. PICK i \in DOMAIN q : c = q[i]
      BY <2>1 DEF CallSet
    <3>2. CASE i \in 1 .. Len(a)
      BY <1>0, <1>1, <1>2, <3>1, <3>2 DEF CallSet
    <3>3. CASE i - Len(a) \in 1 .. Len(b) /\ q[i] = b[i - Len(a)]
      BY <1>0, <1>1, <3>1, <3>3 DEF CallSet
    <3>4. QED
      BY <1>3, <3>2, <3>3
  <2>2. ASSUME NEW c \in A PROVE c \in CallSet(q)
    <3>1. PICK i \in 1 .. Len(a) : c = a[i]
      BY <1>0, <1>1, <2>2 DEF CallSet
    <3>2. i \in DOMAIN q /\ c = q[i]
      BY <1>1, <1>2, <3>1
    <3>3. QED
      BY <3>2 DEF CallSet
  <2>3. ASSUME NEW c \in B PROVE c \in CallSet(q)
    <3>1. PICK i \in 1 .. Len(b) : c = b[i]
      BY <1>0, <1>1, <2>3 DEF CallSet
    <3>2. Len(a) + i \in DOMAIN q /\ c = q[Len(a) + i]
      BY <1>1, <1>2, <3>1
    <3>3. QED
      BY <3>2 DEF CallSet
  <2>4. QED
    BY <2>1, <2>2, <2>3
<1>5. Sorted(q)
  <2> SUFFICES ASSUME NEW i \in DOMAIN q, NEW j \in DOMAIN q, i < j
               PROVE  Rank(q[i]) <= Rank(q[j])
    BY DEF Sorted
  <2>0. i \in Int /\ j \in Int
    BY <1>1, <1>2
  <2>1. CASE i \in 1 .. Len(a) /\ j \in 1 .. Len(a)
    BY <1>0, <1>1, <1>2, <2>1 DEF Sorted
  <2>2. CASE i \in 1 .. Len(a) /\ j \notin 1 .. Len(a)
    <3>1. q[i] \in A
      BY <1>0, <1>1, <1>2, <2>2 DEF CallSet
    <3>2. q[j] \in B
      BY <1>0, <1>1, <1>3, <2>2 DEF CallSet
    <3>3. QED
      BY <3>1, <3>2
  <2>3. CASE i \notin 1 .. Len(a) /\ j \notin 1 .. Len(a)
    <3>1. /\ i - Len(a) \in DOMAIN b /\ q[i] = b[i - Len(a)]
          /\ j - Len(a) \in DOMAIN b /\ q[j] = b[j - Len(a)]
      BY <1>1, <1>3, <2>3
    <3>2. i - Len(a) < j - Len(a)
      BY <1>1, <2>0
    <3>3. QED
      BY <1>0, <3>1, <3>2 DEF Sorted
  <2>4. ~(i \notin 1 .. Len(a) /\ j \in 1 .. Len(a))
    BY <1>1, <1>2
  <2>5. QED
    BY <2>1, <2>2, <2>3, <2>4
<1>6. QED
  BY <1>2, <1>4, <1>5 DEF IsList, q

\* The same call for several slots.
LEMMA CallsAre ==
    ASSUME NEW name \in CallNames, NEW q \in Seq(Slots)
    PROVE  IsList(Calls(name, q), {<<name, s>> : s \in {q[i] : i \in DOMAIN q}})
<1> DEFINE r == Calls(name, q)
<1>1. Len(q) \in Nat /\ DOMAIN q = 1 .. Len(q) /\ \A i \in 1 .. Len(q) : q[i] \in Slots
  BY LenProperties, ElementOfSeq
<1>2. DOMAIN r = 1 .. Len(q) /\ \A i \in 1 .. Len(q) : r[i] = <<name, q[i]>>
  BY <1>1 DEF Calls
<1>3. \A i \in 1 .. Len(q) : <<name, q[i]>> \in AllCalls
  BY <1>1 DEF AllCalls
<1>4. r \in Seq(AllCalls)
  <2>1. r = [i \in 1 .. Len(q) |-> <<name, q[i]>>]
    BY <1>1 DEF Calls
  <2>2. r \in [1 .. Len(q) -> AllCalls]
    BY <1>3, <2>1
  <2> HIDE DEF r
  <2>3. QED
    BY <1>1, <2>2
<1> HIDE DEF r
<1>5. \A i, j \in DOMAIN r : Rank(r[i]) = Rank(r[j])
  <2> SUFFICES ASSUME NEW i \in DOMAIN r, NEW j \in DOMAIN r PROVE Rank(r[i]) = Rank(r[j])
    OBVIOUS
  <2>1. ASSUME NEW c, NEW s \in Slots, c = <<name, s>> PROVE c \in AllCalls /\ c[1] = name
    BY <2>1 DEF AllCalls
  <2>2. r[i] \in AllCalls /\ r[j] \in AllCalls /\ r[i][1] = name /\ r[j][1] = name
    BY <1>1, <1>2, <2>1
  <2>3. \A c, e \in AllCalls : c[1] = e[1] => Rank(c) = Rank(e)
    BY RankFacts DEF CallNames
  <2>4. QED
    BY <2>2, <2>3
<1>6. \A i \in DOMAIN r : Rank(r[i]) \in 1 .. 5
  BY <1>2, <1>3, RankFacts
<1>7. Sorted(r)
  BY <1>5, <1>6 DEF Sorted
<1>8. CallSet(r) = {<<name, s>> : s \in {q[i] : i \in DOMAIN q}}
  <2>1. ASSUME NEW c \in CallSet(r) PROVE c \in {<<name, s>> : s \in {q[i] : i \in DOMAIN q}}
    BY <1>1, <1>2, <2>1 DEF CallSet
  <2>2. ASSUME NEW i \in DOMAIN q PROVE <<name, q[i]>> \in CallSet(r)
    BY <1>1, <1>2 DEF CallSet
  <2>3. QED
    BY <2>1, <2>2
<1>9. QED
  BY <1>4, <1>7, <1>8 DEF IsList, r

LEMMA ListOps ==
    /\ IsList(<<>>, {})
    /\ \A c \in AllCalls : IsList(<<c>>, {c})
    /\ \A c, e \in AllCalls : Rank(c) <= Rank(e) => IsList(<<c, e>>, {c, e})
<1>1. IsList(<<>>, {})
  BY NoCalls DEF IsList
<1>2. ASSUME NEW c \in AllCalls PROVE IsList(<<c>>, {c})
  <2>1. <<c>> \in Seq(AllCalls) /\ DOMAIN <<c>> = {1} /\ <<c>>[1] = c
    OBVIOUS
  <2>2. QED
    BY <2>1 DEF IsList, CallSet, Sorted
<1>3. ASSUME NEW c \in AllCalls, NEW e \in AllCalls, Rank(c) <= Rank(e)
      PROVE  IsList(<<c, e>>, {c, e})
  <2>1. /\ <<c, e>> \in Seq(AllCalls) /\ DOMAIN <<c, e>> = {1, 2}
        /\ <<c, e>>[1] = c /\ <<c, e>>[2] = e
    OBVIOUS
  <2>2. CallSet(<<c, e>>) = {c, e}
    BY <2>1 DEF CallSet
  <2>3. Sorted(<<c, e>>)
    BY <1>3, <2>1 DEF Sorted
  <2>4. QED
    BY <2>1, <2>2, <2>3 DEF IsList
<1>4. QED
  BY <1>1, <1>2, <1>3

LEMMA TwoTuples == ASSUME NEW x, NEW y PROVE <<x>> \o <<y>> = <<x, y>>
<1> DEFINE S == {x, y}
<1>1. <<x>> \in Seq(S) /\ <<y>> \in Seq(S) /\ <<x, y>> \in Seq(S)
  OBVIOUS
<1>2. /\ Len(<<x>>) = 1 /\ Len(<<y>>) = 1 /\ Len(<<x, y>>) = 2
      /\ <<x>>[1] = x /\ <<y>>[1] = y /\ <<x, y>>[1] = x /\ <<x, y>>[2] = y
  OBVIOUS
<1>3. PICK a \in Seq(S) : a = <<x>>
  BY <1>1
<1>4. PICK b \in Seq(S) : b = <<y>>
  BY <1>1
<1>5. a \o b \in Seq(S) /\ Len(a \o b) = 2 /\ (a \o b)[1] = x /\ (a \o b)[2] = y
  BY <1>2, <1>3, <1>4, ConcatProperties
<1>6. \A i \in 1 .. 2 : i = 1 \/ i = 2
  OBVIOUS
<1>7. a \o b = <<x, y>>
  BY <1>1, <1>2, <1>5, <1>6, SeqEqual
<1>8. QED
  BY <1>3, <1>4, <1>7, Zenon

\* The slots portmirror attaches are those its flags name, or all three.
LEMMA AttachedAre ==
    ASSUME NEW o, o.tool = "portmirror", {o.ingress, o.egress} \subseteq BOOLEAN
    PROVE  /\ Attached(o) \in Seq(Slots)
           /\ {Attached(o)[i] : i \in DOMAIN Attached(o)} = SlotsOf(o)
<1> DEFINE a == Attached(o)
<1>0. "ingress" \in Slots /\ "egress" \in Slots /\ "custom" \in Slots
  BY DEF Slots
<1>1. CASE o.ingress = TRUE /\ o.egress = TRUE
  <2>1. a = <<"ingress">> \o <<"egress">> \o <<>>
    BY <1>1 DEF Attached
  <2>2. a = <<"ingress", "egress">>
    <3>1. a = <<"ingress", "egress">> \o <<>>
      BY <2>1, TwoTuples, Zenon
    <3>2. <<"ingress", "egress">> \o <<>> = <<"ingress", "egress">>
      OBVIOUS
    <3>3. QED
      BY <3>1, <3>2, Zenon
  <2>3. SlotsOf(o) = {"ingress", "egress"}
    BY <1>1 DEF SlotsOf
  <2> HIDE DEF a
  <2>4. a \in Seq(Slots) /\ DOMAIN a = {1, 2} /\ a[1] = "ingress" /\ a[2] = "egress"
    BY <1>0, <2>2
  <2>5. QED
    BY <2>3, <2>4 DEF a
<1>2. CASE o.ingress = TRUE /\ o.egress = FALSE
  <2>1. a = <<"ingress">> \o <<>> \o <<>>
    BY <1>2 DEF Attached
  <2>2. a = <<"ingress">>
    BY <2>1
  <2>3. SlotsOf(o) = {"ingress"}
    BY <1>2 DEF SlotsOf
  <2> HIDE DEF a
  <2>4. a \in Seq(Slots) /\ DOMAIN a = {1} /\ a[1] = "ingress"
    BY <1>0, <2>2
  <2>5. QED
    BY <2>3, <2>4 DEF a
<1>3. CASE o.ingress = FALSE /\ o.egress = TRUE
  <2>1. a = <<>> \o <<"egress">> \o <<>>
    BY <1>3 DEF Attached
  <2>2. a = <<"egress">>
    BY <2>1
  <2>3. SlotsOf(o) = {"egress"}
    BY <1>3 DEF SlotsOf
  <2> HIDE DEF a
  <2>4. a \in Seq(Slots) /\ DOMAIN a = {1} /\ a[1] = "egress"
    BY <1>0, <2>2
  <2>5. QED
    BY <2>3, <2>4 DEF a
<1>4. CASE o.ingress = FALSE /\ o.egress = FALSE
  <2>1. a = <<>> \o <<>> \o <<"egress", "ingress", "custom">>
    BY <1>4 DEF Attached
  <2>2. a = <<"egress", "ingress", "custom">>
    BY <2>1
  <2>3. SlotsOf(o) = Slots
    BY <1>4 DEF SlotsOf
  <2> HIDE DEF a
  <2>4. /\ a \in Seq(Slots) /\ DOMAIN a = {1, 2, 3}
        /\ a[1] = "egress" /\ a[2] = "ingress" /\ a[3] = "custom"
    BY <1>0, <2>2
  <2>5. QED
    BY <2>3, <2>4 DEF a, Slots
<1>5. QED
  BY <1>1, <1>2, <1>3, <1>4

\* The calls of a whole turn.
Detaches(o) == IF o.detach THEN {<<"detach", s>> : s \in Slots} ELSE {}
Attaches(o) ==
    IF o.attach
    THEN {<<IF o.tool = "erspan" THEN "ports" ELSE "mirror_map",
            IF o.tool = "erspan" THEN "all" ELSE "tap">>, <<"create", "ingress">>}
           \cup {<<"attach", s>> : s \in SlotsOf(o)}
    ELSE {}
Destroys(o) == IF o.tool = "erspan" /\ o.destroy THEN {<<"destroy", "all">>} ELSE {}
TurnCalls(o) == Detaches(o) \cup Attaches(o) \cup Destroys(o)

LEMMA SlotsOfSlots == ASSUME NEW o PROVE SlotsOf(o) \subseteq Slots
  BY DEF SlotsOf, Slots

LEMMA TurnRanks ==
    ASSUME NEW o
    PROVE  /\ \A c \in Detaches(o) : c \in AllCalls /\ c[1] = "detach" /\ Rank(c) = 1
           /\ \A c \in Attaches(o) : /\ c \in AllCalls /\ Rank(c) \in {2, 3, 4} /\ o.attach
                                     /\ c[1] = "attach" => c[2] \in SlotsOf(o)
                                     /\ c[1] = "mirror_map" => o.tool # "erspan"
           /\ \A c \in Destroys(o) : c \in AllCalls /\ c[1] = "destroy" /\ Rank(c) = 5
<1>1. ASSUME NEW c \in Detaches(o) PROVE c \in AllCalls /\ c[1] = "detach"
  BY <1>1 DEF Detaches, AllCalls, CallNames
<1>2. ASSUME NEW c \in Destroys(o) PROVE c \in AllCalls /\ c[1] = "destroy"
  BY <1>2 DEF Destroys, AllCalls, CallNames
<1>3. ASSUME NEW c \in Attaches(o)
      PROVE  /\ c \in AllCalls /\ c[1] \in {"mirror_map", "ports", "create", "attach"} /\ o.attach
             /\ c[1] = "attach" => c[2] \in SlotsOf(o)
             /\ c[1] = "mirror_map" => o.tool # "erspan"
  <2>1. "ingress" \in Slots
    BY DEF Slots
  <2>2. CASE c = <<"create", "ingress">>
    BY <1>3, <2>1, <2>2 DEF Attaches, AllCalls, CallNames
  <2>3. ASSUME NEW s \in SlotsOf(o), c = <<"attach", s>>
        PROVE  c \in AllCalls /\ c[1] = "attach" /\ c[2] \in SlotsOf(o) /\ o.attach
    BY <1>3, <2>3, SlotsOfSlots DEF Attaches, AllCalls, CallNames
  <2>4. CASE c = <<IF o.tool = "erspan" THEN "ports" ELSE "mirror_map",
                   IF o.tool = "erspan" THEN "all" ELSE "tap">>
    BY <1>3, <2>4 DEF Attaches, AllCalls, CallNames
  <2>5. QED
    BY <1>3, <2>2, <2>3, <2>4 DEF Attaches
<1>4. QED
  BY <1>1, <1>2, <1>3, RankFacts

LEMMA ScriptIs ==
    ASSUME NEW o \in Commands
    PROVE  IsList(Script(o), TurnCalls(o))
<1>0. "ingress" \in Slots /\ "egress" \in Slots /\ "custom" \in Slots
      /\ "detach" \in CallNames /\ "attach" \in CallNames
  BY DEF Slots, CallNames
<1>1. IsList(DetachCalls(o), Detaches(o))
  <2>1. PICK q : q = <<"ingress", "egress", "custom">>
    OBVIOUS
  <2>2. /\ q \in Seq(Slots) /\ DOMAIN q = {1, 2, 3}
        /\ q[1] = "ingress" /\ q[2] = "egress" /\ q[3] = "custom"
    BY <1>0, <2>1
  <2>3. {q[i] : i \in DOMAIN q} = Slots
    BY <2>2 DEF Slots
  <2>4. IsList(Calls("detach", q), {<<"detach", s>> : s \in Slots})
    BY <1>0, <2>2, <2>3, CallsAre, Zenon
  <2>5. QED
    BY <2>1, <2>4, ListOps, Zenon DEF DetachCalls, Detaches
<1>2. ASSUME NEW c \in AllCalls, NEW e \in AllCalls, NEW q \in Seq(Slots), Rank(c) = 2, Rank(e) = 3
      PROVE  IsList(<<c, e>> \o Calls("attach", q),
                    {c, e} \cup {<<"attach", s>> : s \in {q[i] : i \in DOMAIN q}})
  <2>1. IsList(<<c, e>>, {c, e})
    BY <1>2, ListOps
  <2>2. IsList(Calls("attach", q), {<<"attach", s>> : s \in {q[i] : i \in DOMAIN q}})
    BY <1>0, CallsAre
  <2>3. ASSUME NEW x \in {c, e}, NEW y \in {<<"attach", s>> : s \in {q[i] : i \in DOMAIN q}}
        PROVE  Rank(x) <= Rank(y)
    <3>1. PICK i \in DOMAIN q : y = <<"attach", q[i]>>
      BY <2>3
    <3>2. q[i] \in Slots
      BY ElementOfSeq, LenProperties
    <3>3. y \in AllCalls /\ y[1] = "attach"
      BY <1>0, <3>1, <3>2 DEF AllCalls
    <3>4. Rank(y) = 4
      BY <3>3, RankFacts
    <3>5. QED
      BY <1>2, <2>3, <3>4
  <2>4. QED
    BY <2>1, <2>2, <2>3, JoinCalls
<1>3. ASSUME NEW c \in AllCalls, NEW e \in AllCalls, NEW d \in AllCalls,
             c = <<"mirror_map", "tap">>, e = <<"create", "ingress">>, d = <<"ports", "all">>
      PROVE  Rank(c) = 2 /\ Rank(e) = 3 /\ Rank(d) = 2
  BY <1>3, RankFacts
<1>4. /\ <<"mirror_map", "tap">> \in AllCalls /\ <<"create", "ingress">> \in AllCalls
      /\ <<"ports", "all">> \in AllCalls /\ <<"destroy", "all">> \in AllCalls
  BY <1>0 DEF AllCalls, CallNames
<1>6. /\ \A c \in Detaches(o), e \in Attaches(o) : Rank(c) <= Rank(e)
      /\ \A c \in Detaches(o) \cup Attaches(o), e \in Destroys(o) : Rank(c) <= Rank(e)
  BY TurnRanks
<1>7. CASE o.tool = "portmirror"
  <2>1. Attached(o) \in Seq(Slots) /\ {Attached(o)[i] : i \in DOMAIN Attached(o)} = SlotsOf(o)
    BY <1>7, CommandAssumption, AttachedAre DEF MirrorOptions
  <2>2. PICK r : r = IF o.attach
                     THEN <<<<"mirror_map", "tap">>, <<"create", "ingress">>>>
                            \o Calls("attach", Attached(o))
                     ELSE <<>>
    OBVIOUS
  <2>3. IsList(r, Attaches(o))
    <3>1. CASE o.attach
      <4>1. IsList(r, {<<"mirror_map", "tap">>, <<"create", "ingress">>}
                        \cup {<<"attach", s>> : s \in SlotsOf(o)})
        BY <1>2, <1>3, <1>4, <2>1, <2>2, <3>1, Zenon
      <4>2. Attaches(o) = {<<"mirror_map", "tap">>, <<"create", "ingress">>}
                            \cup {<<"attach", s>> : s \in SlotsOf(o)}
        BY <1>7, <3>1 DEF Attaches
      <4>3. QED
        BY <4>1, <4>2, Zenon
    <3>2. CASE ~o.attach
      BY <2>2, <3>2, ListOps, Zenon DEF Attaches
    <3>3. QED
      BY <3>1, <3>2
  <2>4. Script(o) = DetachCalls(o) \o r
    BY <1>7, <2>2 DEF Script, MirrorScript
  <2>5. TurnCalls(o) = Detaches(o) \cup Attaches(o)
    BY <1>7 DEF TurnCalls, Destroys
  <2>6. QED
    BY <1>1, <1>6, <2>3, <2>4, <2>5, JoinCalls
<1>8. CASE o.tool = "erspan"
  <2>1. PICK q : q = <<"egress", "ingress", "custom">>
    OBVIOUS
  <2>2. /\ q \in Seq(Slots) /\ DOMAIN q = {1, 2, 3}
        /\ q[1] = "egress" /\ q[2] = "ingress" /\ q[3] = "custom"
    BY <1>0, <2>1
  <2>3. {q[i] : i \in DOMAIN q} = SlotsOf(o)
    BY <1>8, <2>2 DEF Slots, SlotsOf
  <2>4. PICK r : r = IF o.attach
                     THEN <<<<"ports", "all">>, <<"create", "ingress">>>> \o Calls("attach", q)
                     ELSE <<>>
    OBVIOUS
  <2>5. IsList(r, Attaches(o))
    <3>1. CASE o.attach
      <4>1. IsList(r, {<<"ports", "all">>, <<"create", "ingress">>}
                        \cup {<<"attach", s>> : s \in SlotsOf(o)})
        BY <1>2, <1>3, <1>4, <2>2, <2>3, <2>4, <3>1, Zenon
      <4>2. Attaches(o) = {<<"ports", "all">>, <<"create", "ingress">>}
                            \cup {<<"attach", s>> : s \in SlotsOf(o)}
        BY <1>8, <3>1 DEF Attaches
      <4>3. QED
        BY <4>1, <4>2, Zenon
    <3>2. CASE ~o.attach
      BY <2>4, <3>2, ListOps, Zenon DEF Attaches
    <3>3. QED
      BY <3>1, <3>2
  <2>6. PICK d : d = IF o.destroy THEN <<<<"destroy", "all">>>> ELSE <<>>
    OBVIOUS
  <2>7. IsList(d, Destroys(o))
    BY <1>4, <1>8, <2>6, ListOps, Zenon DEF Destroys
  <2>8. Script(o) = DetachCalls(o) \o r \o d
    BY <1>8, <2>1, <2>4, <2>6, Zenon DEF Script, ErspanScript
  <2>9. IsList(DetachCalls(o) \o r, Detaches(o) \cup Attaches(o))
    BY <1>1, <1>6, <2>5, JoinCalls
  <2>10. PICK p : p = DetachCalls(o) \o r
    OBVIOUS
  <2>11. PICK A : A = Detaches(o) \cup Attaches(o)
    OBVIOUS
  <2>12. IsList(p, A) /\ \A c \in A, e \in Destroys(o) : Rank(c) <= Rank(e)
    BY <1>6, <2>9, <2>10, <2>11, Zenon
  <2>13. IsList(p \o d, A \cup Destroys(o))
    BY <2>7, <2>12, JoinCalls
  <2>14. QED
    BY <2>8, <2>10, <2>11, <2>13, Zenon DEF TurnCalls
<1>9. QED
  BY <1>7, <1>8, CommandAssumption

LEMMA SlotsOfSome == ASSUME NEW o \in Commands PROVE SlotsOf(o) # {}
<1>1. CASE o.tool = "erspan"
  BY <1>1 DEF SlotsOf, Slots
<1>2. CASE o.tool = "portmirror"
  <2>1. o.ingress \in BOOLEAN /\ o.egress \in BOOLEAN
    BY <1>2, CommandAssumption DEF MirrorOptions
  <2>2. CASE o.ingress = TRUE
    <3>1. "ingress" \in SlotsOf(o)
      BY <1>2, <2>2 DEF SlotsOf
    <3>2. QED
      BY <3>1
  <2>3. CASE o.ingress = FALSE /\ o.egress = TRUE
    <3>1. "egress" \in SlotsOf(o)
      BY <1>2, <2>3 DEF SlotsOf
    <3>2. QED
      BY <3>1
  <2>4. CASE o.ingress = FALSE /\ o.egress = FALSE
    BY <1>2, <2>4 DEF SlotsOf, Slots
  <2>5. QED
    BY <2>1, <2>2, <2>3, <2>4
<1>3. QED
  BY <1>1, <1>2, CommandAssumption

\* What holds of the calls when a turn begins.
LEMMA TurnStarts ==
    ASSUME NEW o \in Commands
    PROVE  /\ CallsInv(o, Script(o))
           /\ o.attach => \A s \in SlotsOf(o) : <<"attach", s>> \in CallSet(Script(o))
           /\ o.attach /\ o.tool = "portmirror" => <<"mirror_map", "tap">> \in CallSet(Script(o))
           /\ Script(o) # <<>> /\ Head(Script(o))[1] = "detach" =>
                 \A s \in Slots : <<"detach", s>> \in CallSet(Script(o))
<1> DEFINE q == Script(o)
<1>1. q \in Seq(AllCalls) /\ Sorted(q) /\ CallSet(q) = TurnCalls(o)
  BY ScriptIs DEF IsList
<1> HIDE DEF q
<1>2. o.attach => \A s \in SlotsOf(o) : <<"attach", s>> \in CallSet(q)
  BY <1>1 DEF TurnCalls, Attaches
<1>3. o.attach /\ o.tool = "portmirror" => <<"mirror_map", "tap">> \in CallSet(q)
  BY <1>1 DEF TurnCalls, Attaches
<1>4. ASSUME NEW c \in CallSet(q)
      PROVE  /\ Rank(c) \in {2, 3, 4} => o.attach
             /\ c[1] = "attach" => c[2] \in SlotsOf(o)
             /\ c[1] = "mirror_map" => o.tool = "portmirror"
  <2>1. c \in AllCalls
    BY <1>1, <1>4, TurnRanks DEF TurnCalls
  <2>2. CASE c \in Attaches(o)
    BY <2>2, TurnRanks, CommandAssumption
  <2>3. CASE c \in Detaches(o) \cup Destroys(o)
    <3>1. c[1] \in {"detach", "destroy"} /\ Rank(c) \in {1, 5}
      BY <2>3, TurnRanks
    <3>2. QED
      BY <3>1
  <2>4. QED
    BY <1>1, <1>4, <2>2, <2>3 DEF TurnCalls
<1>5. CallsInv(o, q)
  BY <1>1, <1>2, <1>4 DEF CallsInv
<1>6. ASSUME q # <<>>, Head(q)[1] = "detach", NEW s \in Slots
      PROVE  <<"detach", s>> \in CallSet(q)
  <2>1. Head(q) \in CallSet(q) /\ Head(q) \in AllCalls
    BY <1>1, <1>6, TakeCall
  <2>2. Rank(Head(q)) = 1
    BY <1>6, <2>1, RankFacts
  <2>3. Head(q) \in Detaches(o)
    BY <1>1, <2>1, <2>2, TurnRanks DEF TurnCalls
  <2>4. QED
    BY <1>1, <2>3 DEF TurnCalls, Detaches
<1>7. QED
  BY <1>2, <1>3, <1>5, <1>6 DEF q

-----------------------------------------------------------------------------
(***************************************************************************)
(* The steps of a turn                                                     *)
(***************************************************************************)
TcInv == TurnTypes /\ HooksInv /\ TurnInv /\ SettledInv

LEMMA TcInit == Init => TcInv
<1> SUFFICES ASSUME Init PROVE TcInv
  OBVIOUS
<1>1. TurnTypes
  <2>1. todo = <<>> /\ ops = <<>> /\ failed = FALSE
    BY DEF Init
  <2>2. <<>> \in Seq(Taps)
    OBVIOUS
  <2>3. QED
    BY <2>1, <2>2, Zenon DEF TurnTypes
<1>2. HooksInv
  BY DEF Init, HooksInv
<1>3. TurnInv /\ SettledInv
  BY DEF Init, TurnInv, SettledInv
<1>4. QED
  BY <1>1, <1>2, <1>3 DEF TcInv

\* What is known when a call of a turn is next.
LEMMA CallFacts ==
    ASSUME TcInv, ops # <<>>, NEW c, NEW r, c = Head(ops), r = Tail(ops)
    PROVE  /\ c \in AllCalls /\ CallsInv(opt, r) /\ opt \in Commands /\ tap \in Taps
           /\ CallSet(ops) = {c} \cup CallSet(r) /\ CallSet(ops) \subseteq AllCalls
           /\ \A e \in CallSet(r) : Rank(c) <= Rank(e)
           /\ Len(ops) = 1 <=> r = <<>>
           /\ r = <<>> => CallSet(r) = {}
           /\ r # <<>> => /\ ops[2] = Head(r) /\ Head(r) \in CallSet(r)
                          /\ \A e \in CallSet(r) : Rank(Head(r)) <= Rank(e)
           /\ Rank(c) < 4 /\ opt.attach =>
                 r # <<>> /\ \A s \in SlotsOf(opt) : <<"attach", s>> \in CallSet(r)
<1>1. CallsInv(opt, ops) /\ opt \in Commands /\ tap \in Taps
  BY DEF TcInv, TurnInv, TurnTypes
<1>2. ops \in Seq(AllCalls) /\ Sorted(ops)
  BY <1>1 DEF CallsInv
<1>3. /\ c \in AllCalls /\ r \in Seq(AllCalls) /\ Sorted(r)
      /\ CallSet(ops) = {c} \cup CallSet(r) /\ CallSet(ops) \subseteq AllCalls
      /\ \A e \in CallSet(r) : Rank(c) <= Rank(e)
      /\ Len(ops) = 1 <=> r = <<>>
      /\ r # <<>> => ops[2] = Head(r) /\ ops[2] \in CallSet(r)
  BY <1>2, TakeCall
<1>4. CallsInv(opt, r)
  BY <1>1, CallsTake
<1>5. r = <<>> => CallSet(r) = {}
  BY NoCalls
<1>6. ASSUME r # <<>>, NEW e \in CallSet(r) PROVE Rank(Head(r)) <= Rank(e)
  <2>1. /\ CallSet(r) = {Head(r)} \cup CallSet(Tail(r)) /\ Head(r) \in AllCalls
        /\ \A x \in CallSet(Tail(r)) : Rank(Head(r)) <= Rank(x)
    BY <1>3, <1>6, TakeCall
  <2>2. Rank(Head(r)) \in 1 .. 5
    BY <2>1, RankFacts
  <2>3. QED
    BY <1>6, <2>1, <2>2
<1>7. ASSUME Rank(c) < 4, opt.attach
      PROVE  r # <<>> /\ \A s \in SlotsOf(opt) : <<"attach", s>> \in CallSet(r)
  <2>1. c \in CallSet(ops)
    BY <1>3
  <2>2. \A s \in SlotsOf(opt) : <<"attach", s>> \in CallSet(ops)
    BY <1>1, <1>7, <2>1 DEF CallsInv
  <2>3. c[1] # "attach"
    BY <1>3, <1>7, RankFacts
  <2>4. ASSUME NEW s \in SlotsOf(opt) PROVE <<"attach", s>> \in CallSet(r)
    <3>1. <<"attach", s>> # c
      BY <2>3
    <3>2. QED
      BY <1>3, <2>2, <3>1
  <2>5. PICK s : s \in SlotsOf(opt)
    BY <1>1, SlotsOfSome
  <2>6. QED
    BY <1>5, <2>4, <2>5
<1>8. QED
  BY <1>1, <1>3, <1>4, <1>5, <1>6, <1>7

\* A call changes no tap but its own.
LEMMA OneTap ==
    ASSUME TcInv, ops # <<>>, tap' = tap,
           DOMAIN hooks' = Taps, DOMAIN by' = Taps,
           \A t \in Taps : t # tap => hooks'[t] = hooks[t] /\ by'[t] = by[t],
           by'[tap] \subseteq {o \in Commands : o.attach},
           DOMAIN hooks'[tap] \subseteq Slots,
           \A s \in DOMAIN hooks'[tap] : \E o \in by'[tap] :
              s \in SlotsOf(o) /\ hooks'[tap][s] = Prog(o, tap),
           settled' \subseteq settled \cup {tap},
           tap \in settled' => \A o \in by'[tap] :
              by'[tap] = {o} => SlotsOf(o) \subseteq DOMAIN hooks'[tap]
    PROVE  HooksInv' /\ SettledInv'
<1>1. tap \in Taps /\ tap \notin settled
  BY DEF TcInv, TurnInv
<1>2. ASSUME NEW t \in Taps
      PROVE  /\ by'[t] \subseteq {o \in Commands : o.attach}
             /\ DOMAIN hooks'[t] \subseteq Slots
             /\ \A s \in DOMAIN hooks'[t] : \E o \in by'[t] :
                   s \in SlotsOf(o) /\ hooks'[t][s] = Prog(o, t)
  <2>1. CASE t = tap
    BY <2>1
  <2>2. CASE t # tap
    BY <2>2 DEF TcInv, HooksInv
  <2>3. QED
    BY <2>1, <2>2
<1>3. HooksInv'
  BY <1>2 DEF HooksInv
<1>4. ASSUME NEW t \in settled', NEW o \in by'[t], by'[t] = {o}
      PROVE  t \in Taps /\ SlotsOf(o) \subseteq DOMAIN hooks'[t]
  <2>1. CASE t = tap
    BY <1>1, <1>4, <2>1
  <2>2. CASE t # tap
    BY <1>4, <2>2 DEF TcInv, SettledInv
  <2>3. QED
    BY <2>1, <2>2
<1>5. settled' \subseteq Taps
  BY <1>1 DEF TcInv, SettledInv
<1>6. SettledInv'
  BY <1>4, <1>5 DEF SettledInv
<1>7. QED
  BY <1>3, <1>6

LEMMA MainKeeps == ASSUME NEW o \in Commands, TcInv, Main(o) PROVE TcInv'
<1>1. /\ todo' = o.src /\ opt' = o /\ ops = <<>>
      /\ UNCHANGED <<ops, hooks, by, failed, settled>>
  BY DEF Main, Idle
<1>2. o.src \in Seq(Taps)
  BY CommandAssumption
<1>3. TurnTypes'
  BY <1>1, <1>2, Zenon DEF TcInv, TurnTypes
<1>4. HooksInv'
  BY <1>1 DEF TcInv, HooksInv
<1>5. TurnInv' /\ SettledInv'
  BY <1>1 DEF TcInv, TurnInv, SettledInv
<1>6. QED
  BY <1>3, <1>4, <1>5 DEF TcInv

LEMMA AbortKeeps == ASSUME TcInv, Abort PROVE TcInv'
<1>1. /\ todo' = <<>> /\ ops' = <<>>
      /\ UNCHANGED <<hooks, by, failed, settled>>
  BY DEF Abort
<1>2. <<>> \in Seq(Taps)
  OBVIOUS
<1>3. TurnTypes'
  BY <1>1, <1>2, Zenon DEF TcInv, TurnTypes
<1>4. HooksInv'
  BY <1>1 DEF TcInv, HooksInv
<1>5. TurnInv' /\ SettledInv'
  BY <1>1 DEF TcInv, TurnInv, SettledInv
<1>6. QED
  BY <1>3, <1>4, <1>5 DEF TcInv

LEMMA LoadKeeps == ASSUME TcInv, Load PROVE TcInv'
<1>1. /\ ops = <<>> /\ todo # <<>> /\ tap' = Head(todo) /\ todo' = Tail(todo)
      /\ skel' = Loaded(opt) /\ ops' = Script(opt) /\ failed' = FALSE
      /\ by' = IF opt.attach THEN [by EXCEPT ![tap'] = @ \cup {opt}] ELSE by
      /\ settled' = IF ops' = <<>> THEN settled ELSE settled \ {tap'}
      /\ opt' = opt /\ hooks' = hooks
  BY DEF Load
<1>2. todo \in Seq(Taps) /\ opt \in Commands /\ opt.attach \in BOOLEAN
  BY <1>1, CommandAssumption DEF TcInv, TurnTypes
<1>3. tap' \in Taps /\ todo' \in Seq(Taps)
  BY <1>1, <1>2
<1>4. PICK t \in Taps : t = tap'
  BY <1>3
<1>5. TurnTypes'
  BY <1>1, <1>2, <1>3, Zenon DEF TurnTypes
<1>6. /\ DOMAIN by' = Taps
      /\ opt.attach => by'[t] = by[t] \cup {opt}
      /\ ~opt.attach => by'[t] = by[t]
      /\ \A x \in Taps : x # t => by'[x] = by[x]
  BY <1>1, <1>4 DEF TcInv, HooksInv
<1>7. ASSUME NEW x \in Taps
      PROVE  by[x] \subseteq by'[x] /\ by'[x] \subseteq {o \in Commands : o.attach}
  <2>1. by[x] \subseteq {o \in Commands : o.attach}
    BY DEF TcInv, HooksInv
  <2>2. QED
    BY <1>2, <1>6, <2>1
<1>8. HooksInv'
  <2>1. DOMAIN hooks' = Taps
    BY <1>1 DEF TcInv, HooksInv
  <2>2. ASSUME NEW x \in Taps
        PROVE  /\ DOMAIN hooks'[x] \subseteq Slots
               /\ \A s \in DOMAIN hooks'[x] : \E o \in by'[x] :
                     s \in SlotsOf(o) /\ hooks'[x][s] = Prog(o, x)
    BY <1>1, <1>7 DEF TcInv, HooksInv
  <2>3. QED
    BY <1>6, <1>7, <2>1, <2>2 DEF HooksInv
<1>9. PICK q : q = Script(opt)
  OBVIOUS
<1>10. /\ CallsInv(opt, q)
       /\ opt.attach => \A s \in SlotsOf(opt) : <<"attach", s>> \in CallSet(q)
       /\ opt.attach /\ opt.tool = "portmirror" => <<"mirror_map", "tap">> \in CallSet(q)
       /\ q # <<>> /\ Head(q)[1] = "detach" => \A s \in Slots : <<"detach", s>> \in CallSet(q)
  BY <1>2, <1>9, TurnStarts
<1>11. opt.tool = "portmirror" => skel' = MirrorLoaded(opt)
  BY <1>1, Zenon DEF Loaded
<1>12. ASSUME q # <<>> PROVE TurnInv'
  <2>1. t \notin settled'
    BY <1>1, <1>4, <1>9, <1>12
  <2>2. ASSUME opt.attach
        PROVE  /\ opt \in by'[t]
               /\ (\A c \in CallSet(q) : c[1] # "mirror_map") => skel' = Prog(opt, t)
    <3>1. CASE opt.tool = "erspan"
      BY <1>1, <1>6, <2>2, <3>1 DEF Loaded, Prog
    <3>2. CASE opt.tool = "portmirror"
      <4>1. PICK c \in CallSet(q) : c = <<"mirror_map", "tap">>
        BY <1>10, <2>2, <3>2
      <4>2. QED
        BY <1>6, <2>2, <4>1
    <3>3. QED
      BY <1>2, <3>1, <3>2, CommandAssumption
  <2>3. ASSUME Head(q)[1] = "detach", NEW s \in DOMAIN hooks[t]
        PROVE  <<"detach", s>> \in CallSet(q)
    <3>1. s \in Slots
      BY <2>3 DEF TcInv, HooksInv
    <3>2. QED
      BY <1>10, <1>12, <2>3, <3>1
  <2>4. /\ opt.attach /\ (\E c \in CallSet(q) : Rank(c) < 5) =>
             /\ opt \in by'[t]
             /\ (\A c \in CallSet(q) : c[1] # "mirror_map") => skel' = Prog(opt, t)
             /\ opt.tool = "portmirror" => skel' \in {MirrorLoaded(opt), Prog(opt, t)}
             /\ ~failed' => \A s \in SlotsOf(opt) :
                   s \in DOMAIN hooks[t] \/ <<"attach", s>> \in CallSet(q)
        /\ Head(q)[1] = "detach" /\ ~failed' =>
             \A s \in DOMAIN hooks[t] : <<"detach", s>> \in CallSet(q)
    BY <1>10, <1>11, <2>2, <2>3
  <2>5. ops' = q /\ tap' = t /\ opt' = opt /\ hooks' = hooks
    BY <1>1, <1>4, <1>9, Zenon
  <2>6. QED
    BY <1>10, <2>1, <2>4, <2>5 DEF TurnInv
<1>13. q = <<>> => TurnInv'
  BY <1>1, <1>9 DEF TurnInv
<1>14. SettledInv'
  <2>1. settled' \subseteq settled
    BY <1>1
  <2>2. CASE q = <<>>
    <3>1. ~opt.attach
      <4>1. CallSet(q) = {}
        BY <2>2, NoCalls
      <4>2. PICK s : s \in SlotsOf(opt)
        BY <1>2, SlotsOfSome
      <4>3. QED
        BY <1>10, <4>1, <4>2
    <3>2. by' = by
      BY <1>1, <3>1
    <3>3. settled' = settled
      BY <1>1, <1>9, <2>2
    <3>4. QED
      BY <1>1, <3>2, <3>3 DEF TcInv, SettledInv
  <2>3. CASE q # <<>>
    <3>1. t \notin settled' /\ settled' \subseteq settled
      BY <1>1, <1>4, <1>9, <2>3
    <3>2. \A x \in settled' : x \in Taps /\ x # t /\ by'[x] = by[x]
      BY <1>6, <3>1 DEF TcInv, SettledInv
    <3>3. QED
      BY <1>1, <3>1, <3>2 DEF TcInv, SettledInv
  <2>4. QED
    BY <2>2, <2>3
<1>15. QED
  BY <1>5, <1>8, <1>12, <1>13, <1>14 DEF TcInv

\* A call that leaves the hooks alone: a map, create.
LEMMA MapKeeps ==
    ASSUME TcInv, ops # <<>>, NEW c, c = Head(ops), Rank(c) \in {2, 3}, Advance(FALSE),
           UNCHANGED <<hooks, by>>,
           c[1] = "mirror_map" => skel' = Prog(opt, tap),
           c[1] # "mirror_map" => skel' = skel
    PROVE  TcInv'
<1>1. PICK r : r = Tail(ops)
  OBVIOUS
<1>2. /\ c \in AllCalls /\ CallsInv(opt, r) /\ opt \in Commands /\ tap \in Taps
      /\ CallSet(ops) = {c} \cup CallSet(r)
      /\ \A e \in CallSet(r) : Rank(c) <= Rank(e)
      /\ Len(ops) = 1 <=> r = <<>>
      /\ r # <<>> => Head(r) \in CallSet(r)
      /\ CallSet(ops) \subseteq AllCalls
      /\ Rank(c) < 4 /\ opt.attach =>
            r # <<>> /\ \A s \in SlotsOf(opt) : <<"attach", s>> \in CallSet(r)
  BY <1>1, CallFacts
<1>3. opt.attach /\ Rank(c) < 4
  BY <1>2 DEF TcInv, TurnInv, CallsInv
<1>4. r # <<>> /\ \A s \in SlotsOf(opt) : <<"attach", s>> \in CallSet(r)
  BY <1>2, <1>3
<1>5. /\ ops' = r /\ opt' = opt /\ tap' = tap /\ todo' = todo /\ hooks' = hooks /\ by' = by
      /\ settled' = settled /\ failed' = failed
  <2>1. failed \in BOOLEAN
    BY DEF TcInv, TurnTypes
  <2>2. failed' = (failed \/ FALSE) /\ settled' = settled
    BY <1>2, <1>4 DEF Advance
  <2>3. failed' = failed
    BY <2>1, <2>2, Zenon
  <2>4. QED
    BY <1>1, <2>2, <2>3 DEF Advance
<1>6. TurnTypes' /\ HooksInv' /\ SettledInv'
  <2>1. TurnTypes'
    BY <1>2, <1>5, Zenon DEF TcInv, TurnTypes
  <2>2. HooksInv' /\ SettledInv'
    BY <1>5 DEF TcInv, HooksInv, SettledInv
  <2>3. QED
    BY <2>1, <2>2
<1>7. Head(r)[1] # "detach"
  BY <1>2, <1>4, RankFacts
<1>8. /\ opt \in by[tap]
      /\ (\A e \in CallSet(ops) : e[1] # "mirror_map") => skel = Prog(opt, tap)
      /\ opt.tool = "portmirror" => skel \in {MirrorLoaded(opt), Prog(opt, tap)}
  BY <1>2, <1>3 DEF TcInv, TurnInv
<1>9. (\A e \in CallSet(r) : e[1] # "mirror_map") => skel' = Prog(opt, tap)
  BY <1>2, <1>8
<1>10. opt.tool = "portmirror" => skel' \in {MirrorLoaded(opt), Prog(opt, tap)}
  BY <1>8
<1>11. tap \notin settled
  BY DEF TcInv, TurnInv
<1>12. TurnInv'
  BY <1>2, <1>4, <1>5, <1>7, <1>8, <1>9, <1>10, <1>11 DEF TurnInv
<1>13. QED
  BY <1>6, <1>12 DEF TcInv

LEMMA CallHead ==
    ASSUME TcInv, NEW name \in CallNames, Calling(name)
    PROVE  ops # <<>> /\ Head(ops) \in AllCalls /\ Head(ops)[1] = name
<1>1. ops # <<>> /\ Head(ops)[1] = name
  BY DEF Calling
<1>2. QED
  BY <1>1, CallFacts

LEMMA MapsKeep == ASSUME TcInv, MirrorMap \/ PortsMap \/ Create PROVE TcInv'
<1>0. {"mirror_map", "ports", "create"} \subseteq CallNames
  BY DEF CallNames
<1>1. CASE MirrorMap
  <2>1. ops # <<>> /\ Head(ops) \in AllCalls /\ Head(ops)[1] = "mirror_map"
    BY <1>0, <1>1, CallHead DEF MirrorMap
  <2>2. Rank(Head(ops)) = 2
    BY <2>1, RankFacts
  <2>3. PICK c \in CallSet(ops) : c[1] = "mirror_map" /\ Rank(c) = 2
    BY <2>1, <2>2, CallFacts
  <2>4. /\ CallsInv(opt, ops)
        /\ opt.attach /\ (\E e \in CallSet(ops) : Rank(e) < 5) =>
             (opt.tool = "portmirror" => skel \in {MirrorLoaded(opt), Prog(opt, tap)})
    BY <2>1 DEF TcInv, TurnInv
  <2>5. opt.tool = "portmirror" /\ opt.attach
    BY <2>3, <2>4 DEF CallsInv
  <2>6. skel = MirrorLoaded(opt) \/ skel = Prog(opt, tap)
    BY <2>3, <2>4, <2>5
  <2>7. PICK m : m = [t \in {tap} |-> opt.mirror]
    OBVIOUS
  <2>8. Prog(opt, tap) = [MirrorLoaded(opt) EXCEPT !.mirror_map = m]
    BY <2>5, <2>7 DEF Prog
  <2>9. skel' = [skel EXCEPT !.mirror_map = m]
    BY <1>1, <2>7 DEF MirrorMap
  <2>10. skel' = Prog(opt, tap)
    <3>1. PICK h, f : h = HashType(opt) /\ f = {FlowKey(opt)}
      OBVIOUS
    <3>2. MirrorLoaded(opt) = [prog |-> "port_mirror", hash_type |-> h, filter_map |-> f,
                               mirror_map |-> NoMap]
      BY <3>1, Zenon DEF MirrorLoaded
    <3>3. Prog(opt, tap) = [prog |-> "port_mirror", hash_type |-> h, filter_map |-> f,
                            mirror_map |-> m]
      BY <2>8, <3>2
    <3>4. QED
      BY <2>6, <2>9, <3>2, <3>3
  <2>11. Advance(FALSE) /\ UNCHANGED <<hooks, by>>
    BY <1>1 DEF MirrorMap
  <2>12. QED
    BY <2>1, <2>2, <2>10, <2>11, MapKeeps
<1>2. CASE PortsMap
  <2>1. ops # <<>> /\ Head(ops) \in AllCalls /\ Head(ops)[1] = "ports"
    BY <1>0, <1>2, CallHead DEF PortsMap
  <2>2. Rank(Head(ops)) = 2
    BY <2>1, RankFacts
  <2>3. CASE Advance(FALSE)
    <3>1. UNCHANGED <<hooks, by>> /\ skel' = skel
      BY <1>2 DEF PortsMap
    <3>2. QED
      BY <2>1, <2>2, <2>3, <3>1, MapKeeps
  <2>4. CASE ops' = <<>> /\ failed' = TRUE /\ UNCHANGED <<opt, todo, settled>>
    <3>1. UNCHANGED <<hooks, by>>
      BY <1>2 DEF PortsMap
    <3>2. TurnTypes'
      BY <2>4, Zenon DEF TcInv, TurnTypes
    <3>3. HooksInv' /\ SettledInv' /\ TurnInv'
      BY <2>4, <3>1 DEF TcInv, HooksInv, SettledInv, TurnInv
    <3>4. QED
      BY <3>2, <3>3 DEF TcInv
  <2>5. QED
    BY <1>2, <2>3, <2>4 DEF PortsMap
<1>3. CASE Create
  <2>1. ops # <<>> /\ Head(ops) \in AllCalls /\ Head(ops)[1] = "create"
    BY <1>0, <1>3, CallHead DEF Create
  <2>2. Rank(Head(ops)) = 3
    BY <2>1, RankFacts
  <2>3. Advance(FALSE) /\ UNCHANGED <<hooks, by>> /\ skel' = skel
    BY <1>3 DEF Create
  <2>4. QED
    BY <2>1, <2>2, <2>3, MapKeeps
<1>4. QED
  BY <1>1, <1>2, <1>3

\* A call that fails, its error ignored: detach, attach, destroy.
LEMMA FailureKeeps ==
    ASSUME TcInv, ops # <<>>, Rank(Head(ops)) \in {1, 4, 5}, Advance(TRUE),
           UNCHANGED <<hooks, by, skel>>
    PROVE  TcInv'
<1>1. PICK c, r : c = Head(ops) /\ r = Tail(ops)
  OBVIOUS
<1>2. /\ c \in AllCalls /\ CallsInv(opt, r) /\ opt \in Commands /\ tap \in Taps
      /\ CallSet(ops) = {c} \cup CallSet(r)
  BY <1>1, CallFacts
<1>3. /\ ops' = r /\ opt' = opt /\ tap' = tap /\ todo' = todo /\ hooks' = hooks /\ by' = by
      /\ settled' = settled /\ failed' = TRUE /\ skel' = skel
  BY <1>1 DEF Advance
<1>4. TurnTypes'
  BY <1>2, <1>3, Zenon DEF TcInv, TurnTypes
<1>5. HooksInv' /\ SettledInv'
  BY <1>3 DEF TcInv, HooksInv, SettledInv
<1>6. c[1] # "mirror_map"
  BY <1>1, <1>2, RankFacts
<1>7. opt.attach /\ (\E e \in CallSet(r) : Rank(e) < 5) =>
        /\ opt \in by[tap]
        /\ (\A e \in CallSet(r) : e[1] # "mirror_map") => skel = Prog(opt, tap)
        /\ opt.tool = "portmirror" => skel \in {MirrorLoaded(opt), Prog(opt, tap)}
  BY <1>2, <1>6 DEF TcInv, TurnInv
<1>8. tap \notin settled
  BY DEF TcInv, TurnInv
<1>9. TurnInv'
  BY <1>2, <1>3, <1>7, <1>8 DEF TurnInv
<1>10. QED
  BY <1>4, <1>5, <1>9 DEF TcInv

\* A detach that succeeds: the last one of a turn without failures finds the
\* tap without programs.
LEMMA DetachKeeps == ASSUME NEW slot \in Slots, TcInv, Detach(slot) PROVE TcInv'
<1>0. "detach" \in CallNames
  BY DEF CallNames
<1>1. ops # <<>> /\ Head(ops) \in AllCalls /\ Head(ops)[1] = "detach" /\ Head(ops)[2] = slot
  BY <1>0, CallHead DEF Detach
<1>2. PICK c, r : c = Head(ops) /\ r = Tail(ops)
  OBVIOUS
<1>3. /\ c \in AllCalls /\ CallsInv(opt, r) /\ opt \in Commands /\ tap \in Taps
      /\ CallSet(ops) = {c} \cup CallSet(r) /\ CallSet(ops) \subseteq AllCalls
      /\ Len(ops) = 1 <=> r = <<>>
      /\ r = <<>> => CallSet(r) = {}
      /\ r # <<>> => /\ ops[2] = Head(r) /\ Head(r) \in CallSet(r)
                     /\ \A e \in CallSet(r) : Rank(Head(r)) <= Rank(e)
      /\ Rank(c) < 4 /\ opt.attach =>
            r # <<>> /\ \A s \in SlotsOf(opt) : <<"attach", s>> \in CallSet(r)
  BY <1>1, <1>2, CallFacts
<1>4. Rank(c) = 1 /\ c[1] = "detach" /\ c[2] = slot
  BY <1>1, <1>2, RankFacts
<1>5. CASE Advance(TRUE) /\ UNCHANGED <<hooks, by>>
  BY <1>1, <1>2, <1>4, <1>5, FailureKeeps DEF Detach
<1>6. ASSUME /\ hooks' = [hooks EXCEPT ![tap] = [s \in DOMAIN @ \ {slot} |-> @[s]]]
             /\ Advance(FALSE)
             /\ by' = IF (Len(ops) = 1 \/ ops[2][1] # "detach") /\ ~failed
                      THEN [by EXCEPT ![tap] = IF opt.attach THEN {opt} ELSE {}]
                      ELSE by
      PROVE  TcInv'
  <2>1. failed \in BOOLEAN /\ opt.attach \in BOOLEAN
    BY <1>3, CommandAssumption DEF TcInv, TurnTypes
  <2>2. failed' = failed
    BY <1>6, <2>1, Zenon DEF Advance
  <2>3. /\ ops' = r /\ opt' = opt /\ tap' = tap /\ todo' = todo /\ skel' = skel
        /\ settled' = IF Len(ops) = 1 /\ ~failed' THEN settled \cup {tap} ELSE settled
    BY <1>2, <1>6 DEF Advance, Detach
  <2>4. /\ DOMAIN hooks = Taps /\ DOMAIN by = Taps /\ DOMAIN hooks[tap] \subseteq Slots
        /\ by[tap] \subseteq {o \in Commands : o.attach}
        /\ \A s \in DOMAIN hooks[tap] : \E o \in by[tap] :
              s \in SlotsOf(o) /\ hooks[tap][s] = Prog(o, tap)
    BY <1>3 DEF TcInv, HooksInv
  <2>5. PICK h : h = hooks[tap]
    OBVIOUS
  <2>6. PICK g : g = [s \in DOMAIN h \ {slot} |-> h[s]]
    OBVIOUS
  <2>7. hooks' = [hooks EXCEPT ![tap] = g]
    BY <1>6, <2>5, <2>6
  <2>8. DOMAIN hooks' = Taps /\ hooks'[tap] = g /\ \A t \in Taps : t # tap => hooks'[t] = hooks[t]
    BY <1>3, <2>4, <2>7
  <2>9. DOMAIN g = DOMAIN h \ {slot} /\ \A s \in DOMAIN g : g[s] = h[s]
    BY <2>6
  <2>10. PICK b : b = IF (Len(ops) = 1 \/ ops[2][1] # "detach") /\ ~failed
                      THEN IF opt.attach THEN {opt} ELSE {}
                      ELSE by[tap]
    OBVIOUS
  <2>11. DOMAIN by' = Taps /\ by'[tap] = b /\ \A t \in Taps : t # tap => by'[t] = by[t]
    BY <1>3, <1>6, <2>4, <2>10
  <2>12. b \subseteq {o \in Commands : o.attach}
    BY <1>3, <2>1, <2>4, <2>10
  <2>13. ~failed => \A s \in DOMAIN h : <<"detach", s>> \in CallSet(ops)
    BY <1>1, <2>5 DEF TcInv, TurnInv
  <2>14. ASSUME ~failed, NEW s \in DOMAIN g PROVE <<"detach", s>> \in CallSet(r)
    <3>1. <<"detach", s>> \in CallSet(ops) /\ s # slot
      BY <2>9, <2>13, <2>14
    <3>2. <<"detach", s>> # c
      BY <1>4, <3>1
    <3>3. QED
      BY <1>3, <3>1, <3>2
  <2>15. ASSUME ~failed, Len(ops) = 1 \/ ops[2][1] # "detach" PROVE DOMAIN g = {}
    <3> SUFFICES ASSUME NEW s \in DOMAIN g PROVE FALSE
      OBVIOUS
    <3>1. PICK e \in CallSet(r) : e = <<"detach", s>>
      BY <2>14, <2>15
    <3>2. e \in AllCalls /\ Rank(e) = 1
      BY <1>3, <3>1, RankFacts
    <3>3. r # <<>> /\ Head(r) \in AllCalls
      BY <1>3, <3>1
    <3>4. Rank(Head(r)) = 1
      BY <1>3, <3>1, <3>2, <3>3, RankFacts
    <3>5. Head(r)[1] = "detach"
      BY <3>3, <3>4, RankFacts
    <3>6. QED
      BY <1>3, <2>15, <3>3, <3>5
  <2>16. ASSUME NEW s \in DOMAIN g
         PROVE  \E o \in b : s \in SlotsOf(o) /\ g[s] = Prog(o, tap)
    <3>1. b = by[tap]
      BY <2>1, <2>10, <2>15, <2>16
    <3>2. QED
      BY <2>4, <2>5, <2>9, <2>16, <3>1
  <2>17. ASSUME tap \in settled', NEW o \in b, b = {o} PROVE SlotsOf(o) \subseteq DOMAIN g
    <3>1. Len(ops) = 1 /\ ~failed
      BY <2>2, <2>3, <2>17, <1>1 DEF TcInv, TurnInv
    <3>2. ~opt.attach
      BY <1>3, <1>4, <3>1
    <3>3. b = {}
      BY <2>10, <3>1, <3>2
    <3>4. QED
      BY <2>17, <3>3
  <2>18. settled' \subseteq settled \cup {tap}
    BY <2>3
  <2>19. HooksInv' /\ SettledInv'
    <3>1. DOMAIN g \subseteq Slots
      BY <2>4, <2>5, <2>9
    <3>2. /\ by'[tap] \subseteq {o \in Commands : o.attach}
          /\ DOMAIN hooks'[tap] \subseteq Slots
          /\ \A s \in DOMAIN hooks'[tap] : \E o \in by'[tap] :
                s \in SlotsOf(o) /\ hooks'[tap][s] = Prog(o, tap)
      BY <2>8, <2>11, <2>12, <2>16, <3>1
    <3>3. tap \in settled' => \A o \in by'[tap] :
              by'[tap] = {o} => SlotsOf(o) \subseteq DOMAIN hooks'[tap]
      BY <2>8, <2>11, <2>17
    <3>4. QED
      BY <1>1, <2>3, <2>8, <2>11, <2>18, <3>2, <3>3, OneTap
  <2>20. TurnTypes'
    BY <1>3, <2>1, <2>2, <2>3, Zenon DEF TcInv, TurnTypes
  <2>21. TurnInv'
    <3>1. tap \notin settled
      BY <1>1 DEF TcInv, TurnInv
    <3>2. r # <<>> => tap \notin settled'
      BY <1>3, <2>3, <3>1
    <3>3. opt.attach => /\ opt \in by[tap]
                        /\ (\A e \in CallSet(ops) : e[1] # "mirror_map") => skel = Prog(opt, tap)
                        /\ opt.tool = "portmirror" => skel \in {MirrorLoaded(opt), Prog(opt, tap)}
      BY <1>1, <1>3, <1>4 DEF TcInv, TurnInv
    <3>4. opt.attach => /\ opt \in b
                        /\ (\A e \in CallSet(r) : e[1] # "mirror_map") => skel = Prog(opt, tap)
      BY <1>3, <1>4, <2>10, <3>3
    <3>5. opt.attach => \A s \in SlotsOf(opt) : <<"attach", s>> \in CallSet(r)
      <4>1. Rank(c) < 4
        BY <1>4
      <4>2. QED
        BY <1>3, <4>1
    <3>6. ~failed' => \A s \in DOMAIN hooks'[tap] : <<"detach", s>> \in CallSet(r)
      BY <2>2, <2>8, <2>14
    <3>7. QED
      BY <1>3, <2>3, <2>11, <3>2, <3>3, <3>4, <3>5, <3>6 DEF TurnInv
  <2>22. QED
    BY <2>19, <2>20, <2>21 DEF TcInv
<1>7. QED
  BY <1>5, <1>6 DEF Detach

\* An attach that succeeds puts the complete program of the command into its
\* slot; the last one of a turn without failures makes the tap its own.
LEMMA AttachKeeps == ASSUME NEW slot \in Slots, TcInv, Attach(slot) PROVE TcInv'
<1>0. "attach" \in CallNames
  BY DEF CallNames
<1>1. ops # <<>> /\ Head(ops) \in AllCalls /\ Head(ops)[1] = "attach" /\ Head(ops)[2] = slot
  BY <1>0, CallHead DEF Attach
<1>2. PICK c, r : c = Head(ops) /\ r = Tail(ops)
  OBVIOUS
<1>3. /\ c \in AllCalls /\ CallsInv(opt, r) /\ opt \in Commands /\ tap \in Taps
      /\ CallSet(ops) = {c} \cup CallSet(r) /\ CallSet(ops) \subseteq AllCalls
      /\ \A e \in CallSet(r) : Rank(c) <= Rank(e)
      /\ Len(ops) = 1 <=> r = <<>>
      /\ r = <<>> => CallSet(r) = {}
      /\ r # <<>> => Head(r) \in CallSet(r)
  BY <1>1, <1>2, CallFacts
<1>4. Rank(c) = 4 /\ c[1] = "attach" /\ c[2] = slot
  BY <1>1, <1>2, RankFacts
<1>5. CASE Advance(TRUE) /\ UNCHANGED hooks
  BY <1>1, <1>2, <1>4, <1>5, FailureKeeps DEF Attach
<1>6. ASSUME /\ hooks' = [hooks EXCEPT ![tap] =
                             [s \in DOMAIN @ \cup {slot} |-> IF s = slot THEN skel ELSE @[s]]]
             /\ Advance(FALSE)
      PROVE  TcInv'
  <2>1. failed \in BOOLEAN
    BY DEF TcInv, TurnTypes
  <2>2. failed' = failed
    BY <1>6, <2>1, Zenon DEF Advance
  <2>3. /\ ops' = r /\ opt' = opt /\ tap' = tap /\ todo' = todo /\ skel' = skel /\ by' = by
        /\ settled' = IF Len(ops) = 1 /\ ~failed' THEN settled \cup {tap} ELSE settled
    BY <1>2, <1>6 DEF Advance, Attach
  <2>4. /\ DOMAIN hooks = Taps /\ DOMAIN by = Taps /\ DOMAIN hooks[tap] \subseteq Slots
        /\ by[tap] \subseteq {o \in Commands : o.attach}
        /\ \A s \in DOMAIN hooks[tap] : \E o \in by[tap] :
              s \in SlotsOf(o) /\ hooks[tap][s] = Prog(o, tap)
    BY <1>3 DEF TcInv, HooksInv
  <2>5. /\ tap \notin settled /\ CallsInv(opt, ops)
        /\ opt.attach /\ (\E e \in CallSet(ops) : Rank(e) < 5) =>
              /\ opt \in by[tap]
              /\ (\A e \in CallSet(ops) : e[1] # "mirror_map") => skel = Prog(opt, tap)
              /\ opt.tool = "portmirror" => skel \in {MirrorLoaded(opt), Prog(opt, tap)}
              /\ ~failed => \A s \in SlotsOf(opt) :
                    s \in DOMAIN hooks[tap] \/ <<"attach", s>> \in CallSet(ops)
    BY <1>1 DEF TcInv, TurnInv
  <2>6. c \in CallSet(ops) /\ \A e \in CallSet(ops) : e \in AllCalls /\ 4 <= Rank(e)
    BY <1>3, <1>4
  <2>7. opt.attach /\ slot \in SlotsOf(opt)
    BY <1>4, <2>5, <2>6 DEF CallsInv
  <2>8. \A e \in CallSet(ops) : e[1] # "mirror_map" /\ e[1] # "detach"
    BY <2>6, RankFacts
  <2>9. /\ opt \in by[tap] /\ skel = Prog(opt, tap)
        /\ ~failed => \A s \in SlotsOf(opt) :
              s \in DOMAIN hooks[tap] \/ <<"attach", s>> \in CallSet(ops)
    BY <1>4, <2>5, <2>6, <2>7, <2>8
  <2>10. PICK h : h = hooks[tap]
    OBVIOUS
  <2>11. PICK g : g = [s \in DOMAIN h \cup {slot} |-> IF s = slot THEN skel ELSE h[s]]
    OBVIOUS
  <2>12. hooks' = [hooks EXCEPT ![tap] = g]
    BY <1>6, <2>10, <2>11
  <2>13. DOMAIN hooks' = Taps /\ hooks'[tap] = g
         /\ \A t \in Taps : t # tap => hooks'[t] = hooks[t]
    BY <1>3, <2>4, <2>12
  <2>14. /\ DOMAIN g = DOMAIN h \cup {slot} /\ g[slot] = skel
         /\ \A s \in DOMAIN h : s # slot => g[s] = h[s]
    BY <2>11
  <2>15. ASSUME NEW s \in DOMAIN g
         PROVE  \E o \in by[tap] : s \in SlotsOf(o) /\ g[s] = Prog(o, tap)
    <3>1. CASE s = slot
      BY <2>7, <2>9, <2>14, <3>1
    <3>2. CASE s # slot
      BY <2>4, <2>10, <2>14, <2>15, <3>2
    <3>3. QED
      BY <3>1, <3>2
  <2>16. ASSUME ~failed, NEW s \in SlotsOf(opt)
         PROVE  s \in DOMAIN g \/ <<"attach", s>> \in CallSet(r)
    <3>1. CASE s = slot
      BY <2>14, <3>1
    <3>2. CASE s # slot
      <4>1. <<"attach", s>> # c
        BY <1>4, <3>2
      <4>2. QED
        BY <1>3, <2>9, <2>10, <2>14, <2>16, <4>1
    <3>3. QED
      BY <3>1, <3>2
  <2>17. ASSUME tap \in settled', NEW o \in by[tap], by[tap] = {o}
         PROVE  SlotsOf(o) \subseteq DOMAIN g
    <3>1. Len(ops) = 1 /\ ~failed
      BY <2>2, <2>3, <2>5, <2>17
    <3>2. o = opt
      BY <2>9, <2>17
    <3>3. QED
      BY <1>3, <2>16, <3>1, <3>2
  <2>18. HooksInv' /\ SettledInv'
    <3>1. DOMAIN g \subseteq Slots
      BY <2>4, <2>10, <2>14
    <3>2. /\ by'[tap] \subseteq {o \in Commands : o.attach}
          /\ DOMAIN hooks'[tap] \subseteq Slots
          /\ \A s \in DOMAIN hooks'[tap] : \E o \in by'[tap] :
                s \in SlotsOf(o) /\ hooks'[tap][s] = Prog(o, tap)
      BY <2>3, <2>4, <2>13, <2>15, <3>1
    <3>3. tap \in settled' => \A o \in by'[tap] :
              by'[tap] = {o} => SlotsOf(o) \subseteq DOMAIN hooks'[tap]
      BY <2>3, <2>13, <2>17
    <3>4. /\ DOMAIN by' = Taps /\ \A t \in Taps : t # tap => by'[t] = by[t]
          /\ settled' \subseteq settled \cup {tap}
      BY <2>3, <2>4
    <3>5. QED
      BY <1>1, <2>3, <2>13, <3>2, <3>3, <3>4, OneTap
  <2>19. TurnTypes'
    BY <1>3, <2>1, <2>2, <2>3, Zenon DEF TcInv, TurnTypes
  <2>20. TurnInv'
    <3>1. r # <<>> => tap \notin settled' /\ Head(r)[1] # "detach"
      BY <1>3, <2>3, <2>5, <2>8
    <3>2. ~failed' => \A s \in SlotsOf(opt) :
              s \in DOMAIN hooks'[tap] \/ <<"attach", s>> \in CallSet(r)
      BY <2>2, <2>13, <2>16
    <3>3. QED
      BY <1>3, <2>3, <2>9, <3>1, <3>2 DEF TurnInv
  <2>21. QED
    BY <2>18, <2>19, <2>20 DEF TcInv
<1>7. QED
  BY <1>5, <1>6 DEF Attach

LEMMA DestroyKeeps == ASSUME TcInv, Destroy PROVE TcInv'
<1>0. "destroy" \in CallNames
  BY DEF CallNames
<1>1. ops # <<>> /\ Head(ops) \in AllCalls /\ Head(ops)[1] = "destroy"
  BY <1>0, CallHead DEF Destroy
<1>2. PICK c, r : c = Head(ops) /\ r = Tail(ops)
  OBVIOUS
<1>3. /\ c \in AllCalls /\ CallsInv(opt, r) /\ opt \in Commands /\ tap \in Taps
      /\ CallSet(ops) = {c} \cup CallSet(r) /\ CallSet(ops) \subseteq AllCalls
      /\ \A e \in CallSet(r) : Rank(c) <= Rank(e)
      /\ Len(ops) = 1 <=> r = <<>>
      /\ r # <<>> => Head(r) \in CallSet(r)
  BY <1>1, <1>2, CallFacts
<1>4. Rank(c) = 5
  BY <1>1, <1>2, RankFacts
<1>5. CASE Advance(TRUE) /\ UNCHANGED <<hooks, clsact, by>>
  BY <1>1, <1>2, <1>4, <1>5, FailureKeeps DEF Destroy
<1>6. ASSUME /\ hooks' = [hooks EXCEPT ![tap] = [s \in {} |-> skel]]
             /\ by' = [by EXCEPT ![tap] = {}]
             /\ Advance(FALSE)
      PROVE  TcInv'
  <2>1. failed \in BOOLEAN
    BY DEF TcInv, TurnTypes
  <2>2. failed' = failed
    BY <1>6, <2>1, Zenon DEF Advance
  <2>3. /\ ops' = r /\ opt' = opt /\ tap' = tap /\ todo' = todo
        /\ settled' = IF Len(ops) = 1 /\ ~failed' THEN settled \cup {tap} ELSE settled
    BY <1>2, <1>6 DEF Advance
  <2>4. DOMAIN hooks = Taps /\ DOMAIN by = Taps
    BY DEF TcInv, HooksInv
  <2>5. /\ DOMAIN hooks' = Taps /\ DOMAIN by' = Taps /\ DOMAIN hooks'[tap] = {} /\ by'[tap] = {}
        /\ \A t \in Taps : t # tap => hooks'[t] = hooks[t] /\ by'[t] = by[t]
    BY <1>3, <1>6, <2>4
  <2>6. settled' \subseteq settled \cup {tap}
    BY <2>3
  <2>7. HooksInv' /\ SettledInv'
    BY <1>1, <2>3, <2>5, <2>6, OneTap
  <2>8. TurnTypes'
    BY <1>3, <2>1, <2>2, <2>3, Zenon DEF TcInv, TurnTypes
  <2>9. tap \notin settled
    BY <1>1 DEF TcInv, TurnInv
  <2>10. \A e \in CallSet(r) : e[1] # "detach" /\ ~(Rank(e) < 5)
    BY <1>3, <1>4, RankFacts
  <2>11. TurnInv'
    BY <1>3, <2>3, <2>9, <2>10 DEF TurnInv
  <2>12. QED
    BY <2>7, <2>8, <2>11 DEF TcInv
<1>7. QED
  BY <1>5, <1>6 DEF Destroy

LEMMA TcKeeps == TcInv /\ [Next]_vars => TcInv'
<1> SUFFICES ASSUME TcInv, [Next]_vars PROVE TcInv'
  OBVIOUS
<1>1. CASE UNCHANGED tcVars
  <2>1. UNCHANGED <<todo, ops, opt, tap, skel, hooks, by, failed, settled>>
    BY <1>1 DEF tcVars
  <2>2. TurnTypes'
    BY <2>1, Zenon DEF TcInv, TurnTypes
  <2>3. HooksInv' /\ SettledInv' /\ TurnInv'
    BY <2>1 DEF TcInv, HooksInv, SettledInv, TurnInv
  <2>4. QED
    BY <2>2, <2>3 DEF TcInv
<1>2. ASSUME NEW p \in Dumps, DumpStart(p) \/ DumpAttach(p) \/ DumpEnds(p) PROVE TcInv'
  BY <1>1, <1>2 DEF DumpStart, DumpAttach, DumpEnds
<1>3. CASE UNCHANGED vars
  BY <1>1, <1>3 DEF vars
<1>4. QED
  BY <1>2, <1>3, MainKeeps, LoadKeeps, DetachKeeps, AttachKeeps, MapsKeep, DestroyKeeps,
     AbortKeeps DEF Next

-----------------------------------------------------------------------------
(***************************************************************************)
(* What the programs do                                                    *)
(***************************************************************************)
SameVersions == \A o \in Commands : o.tool = "portmirror" => SameVersion(o)

\* No portmirror command asks for an IPv6 destination: one that is compared is
\* IPv4, and so is the source with it.
V4Destination(o) ==
    Given(o.daddr) => Len(o.daddr[1]) = 4 /\ Len(unwrap_or(o.saddr, Zero(4))) = 4
V4Destinations == \A o \in Commands : o.tool = "portmirror" => V4Destination(o)

\* A command attaches to the directions it asks for and to no other.
LEMMA SlotsWanted ==
    ASSUME NEW o \in Commands, NEW d \in Directions
    PROVE  /\ o.tool = "erspan" => SlotsOf(o) \cap At(d) # {}
           /\ o.tool = "portmirror" => (SlotsOf(o) \cap At(d) # {} <=> d \in Wants(o))
<1>1. d = "ingress" \/ d = "egress"
  BY DEF Directions
<1>2. CASE o.tool = "erspan"
  <2>1. d \in SlotsOf(o) \cap At(d)
    BY <1>1, <1>2 DEF SlotsOf, Slots, At
  <2>2. QED
    BY <1>2, <2>1
<1>3. CASE o.tool = "portmirror"
  <2>1. o.ingress \in BOOLEAN /\ o.egress \in BOOLEAN
    BY <1>3, CommandAssumption DEF MirrorOptions
  <2>2. \A s : s \in At(d) <=> s = d \/ (d = "ingress" /\ s = "custom")
    BY <1>1 DEF At
  <2>3. CASE o.ingress = TRUE /\ o.egress = TRUE
    <3>1. SlotsOf(o) = {"ingress", "egress"} /\ Wants(o) = Directions
      BY <1>3, <2>3 DEF SlotsOf, Wants
    <3>2. d \in SlotsOf(o) \cap At(d)
      BY <1>1, <2>2, <3>1
    <3>3. QED
      BY <1>3, <3>1, <3>2
  <2>4. CASE o.ingress = TRUE /\ o.egress = FALSE
    <3>1. SlotsOf(o) = {"ingress"} /\ Wants(o) = {"ingress"}
      BY <1>3, <2>4 DEF SlotsOf, Wants
    <3>2. QED
      BY <1>1, <1>3, <2>2, <3>1
  <2>5. CASE o.ingress = FALSE /\ o.egress = TRUE
    <3>1. SlotsOf(o) = {"egress"} /\ Wants(o) = {"egress"}
      BY <1>3, <2>5 DEF SlotsOf, Wants
    <3>2. QED
      BY <1>1, <1>3, <2>2, <3>1
  <2>6. CASE o.ingress = FALSE /\ o.egress = FALSE
    <3>1. SlotsOf(o) = {"ingress", "egress", "custom"} /\ Wants(o) = Directions
      BY <1>3, <2>6 DEF SlotsOf, Wants, Slots
    <3>2. d \in SlotsOf(o) \cap At(d)
      BY <1>1, <2>2, <3>1
    <3>3. QED
      BY <1>3, <3>1, <3>2
  <2>7. QED
    BY <2>1, <2>3, <2>4, <2>5, <2>6
<1>4. QED
  BY <1>2, <1>3, CommandAssumption

\* The program a command leaves in a slot of a direction does to a packet what
\* the command asks for the packet as the classifier sees it.
LEMMA ProgramObeys ==
    ASSUME SameVersions, NEW o \in Commands, NEW t, NEW d \in Directions, NEW k \in Packets,
           SlotsOf(o) \cap At(d) # {}
    PROVE  /\ o.tool = "portmirror" => Run(Prog(o, t), t, k) = MirrorAsked(o, d, Seen(k))
           /\ o.tool = "erspan" => Run(Prog(o, t), t, k) \in {Pass, Shot}
<1>1. CASE o.tool = "erspan"
  <2>1. Prog(o, t).prog = "erspan_get_tunnel"
    BY <1>1 DEF Prog, ErspanLoaded
  <2>2. QED
    BY <1>1, <2>1 DEF Run, erspan_get_tunnel
<1>2. CASE o.tool = "portmirror"
  <2>1. PICK m : m = [x \in {t} |-> o.mirror]
    OBVIOUS
  <2>2. PICK h, f : h = HashType(o) /\ f = {FlowKey(o)}
    OBVIOUS
  <2>3. MirrorLoaded(o) = [prog |-> "port_mirror", hash_type |-> h, filter_map |-> f,
                           mirror_map |-> NoMap]
    BY <2>2, Zenon DEF MirrorLoaded
  <2>4. PICK g : g = Prog(o, t)
    OBVIOUS
  <2>5. g = [MirrorLoaded(o) EXCEPT !.mirror_map = m]
    BY <1>2, <2>1, <2>4 DEF Prog
  <2>6. g.prog = "port_mirror" /\ g.hash_type = h /\ g.filter_map = f /\ g.mirror_map = m
    BY <2>3, <2>5
  <2>7. {m[x] : x \in DOMAIN m \cap {t}} = {o.mirror}
    BY <2>1
  <2>8. Run(g, t, k) = port_mirror(g, t, k)
    BY <2>6 DEF Run
  <2>9. port_mirror(g, t, k) = IF h = {} \/ (Readable(k) /\ PktKey(h, k) \in f)
                               THEN CloneTo({o.mirror}) ELSE Pass
    BY <2>6, <2>7, Zenon DEF port_mirror
  <2>10. (h = {} \/ (Readable(k) /\ PktKey(h, k) \in f)) <=> Matches(o, Seen(k))
    <3>1. MirrorOptions(o) /\ SameVersion(o)
      BY <1>2, CommandAssumption DEF SameVersions
    <3>2. k.type \in {"ip4", "ip6"} => IpPacket(k)
      BY PacketAssumption
    <3>3. QED
      BY <2>2, <3>1, <3>2, KeyDecides, Zenon
  <2>11. d \in Wants(o)
    BY <1>2, SlotsWanted
  <2>12. MirrorAsked(o, d, Seen(k)) = IF Matches(o, Seen(k)) THEN CloneTo({o.mirror}) ELSE Pass
    BY <2>11, Zenon DEF MirrorAsked
  <2>13. Run(g, t, k) = MirrorAsked(o, d, Seen(k))
    BY <2>8, <2>9, <2>10, <2>12, Zenon
  <2>14. QED
    BY <1>2, <2>4, <2>13, Zenon
<1>3. QED
  BY <1>1, <1>2, CommandAssumption

\* VerdictsExplained and FilterDecides of the packets as the classifier sees them.
ExplainedAsSeen ==
    \A t \in Taps, d \in Directions, k \in Packets :
        \A v \in Verdicts(t, d, k) \ {Pass} :
            \E o \in by[t] : Explains(o, d, Seen(k), v)
DecidedAsSeen ==
    \A t \in settled : \A o \in by[t] : (by[t] = {o} /\ o.tool = "portmirror") =>
        \A d \in Directions, k \in Packets : Verdicts(t, d, k) = {MirrorAsked(o, d, Seen(k))}

\* Whatever a tap's programs do to a packet, a command in force accounts for it.
LEMMA VerdictsFollow == SameVersions /\ TcInv => ExplainedAsSeen
<1> SUFFICES ASSUME SameVersions, TcInv, NEW t \in Taps, NEW d \in Directions,
                    NEW k \in Packets, NEW v \in Verdicts(t, d, k), v # Pass
             PROVE  \E o \in by[t] : Explains(o, d, Seen(k), v)
  BY DEF ExplainedAsSeen
<1>1. PICK s \in DOMAIN hooks[t] \cap At(d) : v = Run(hooks[t][s], t, k)
  BY DEF Verdicts
<1>2. PICK o \in by[t] : s \in SlotsOf(o) /\ hooks[t][s] = Prog(o, t) /\ o \in Commands
  BY <1>1 DEF TcInv, HooksInv
<1>3. SlotsOf(o) \cap At(d) # {}
  BY <1>1, <1>2
<1>4. /\ o.tool = "portmirror" => v = MirrorAsked(o, d, Seen(k))
      /\ o.tool = "erspan" => v = Shot
  BY <1>1, <1>2, <1>3, ProgramObeys
<1>5. Explains(o, d, Seen(k), v)
  BY <1>2, <1>4, CommandAssumption DEF Explains
<1>6. QED
  BY <1>2, <1>5

LEMMA FilterFollows == SameVersions /\ TcInv => DecidedAsSeen
<1> SUFFICES ASSUME SameVersions, TcInv, NEW t \in settled, NEW o \in by[t], by[t] = {o},
                    o.tool = "portmirror", NEW d \in Directions, NEW k \in Packets
             PROVE  Verdicts(t, d, k) = {MirrorAsked(o, d, Seen(k))}
  BY DEF DecidedAsSeen
<1>1. t \in Taps /\ SlotsOf(o) \subseteq DOMAIN hooks[t]
  BY DEF TcInv, SettledInv
<1>2. o \in Commands
  BY <1>1 DEF TcInv, HooksInv
<1>3. \A s \in DOMAIN hooks[t] : s \in SlotsOf(o) /\ hooks[t][s] = Prog(o, t)
  BY <1>1 DEF TcInv, HooksInv
<1>4. PICK here : here = DOMAIN hooks[t] \cap At(d)
  OBVIOUS
<1>5. here = SlotsOf(o) \cap At(d)
  BY <1>1, <1>3, <1>4
<1>6. Verdicts(t, d, k) = IF here = {} THEN {Pass} ELSE {Run(hooks[t][s], t, k) : s \in here}
  BY <1>4 DEF Verdicts
<1>7. CASE here = {}
  <2>1. d \notin Wants(o)
    BY <1>2, <1>5, <1>7, SlotsWanted, CommandAssumption
  <2>2. MirrorAsked(o, d, Seen(k)) = Pass
    BY <2>1 DEF MirrorAsked
  <2>3. QED
    BY <1>6, <1>7, <2>2
<1>8. CASE here # {}
  <2>1. Run(Prog(o, t), t, k) = MirrorAsked(o, d, Seen(k))
    BY <1>2, <1>5, <1>8, ProgramObeys
  <2>2. \A s \in here : Run(hooks[t][s], t, k) = MirrorAsked(o, d, Seen(k))
    BY <1>3, <1>4, <2>1
  <2>3. QED
    BY <1>6, <1>8, <2>2
<1>9. QED
  BY <1>7, <1>8

\* Where no IPv6 destination is asked for, it does not matter how one is seen.
LEMMA SeenTheSame ==
    ASSUME V4Destinations, NEW o \in Commands, o.tool = "portmirror", NEW d,
           NEW k \in Packets
    PROVE  MirrorAsked(o, d, Seen(k)) = MirrorAsked(o, d, k)
<1>1. PICK s : s = Seen(k)
  OBVIOUS
<1>2. /\ s.type = k.type /\ s.len = k.len /\ s.ihl = k.ihl /\ s.src = k.src
      /\ s.proto = k.proto /\ s.sport = k.sport /\ s.dport = k.dport
      /\ k.type = "ip4" => s.dst = k.dst
  BY <1>1 DEF Seen
<1>3. Readable(s) <=> Readable(k)
  BY <1>2, Zenon DEF Readable
<1>4. ASSUME Readable(k), k.type # "ip4", Given(o.daddr)
      PROVE  Len(k.src) # Len(unwrap_or(o.saddr, Zero(4)))
  <2>1. k.src \in Bytes(16)
    BY <1>4, PacketAssumption DEF Readable, IpPacket
  <2>2. Len(k.src) = 16
    BY <2>1, AddrBytes
  <2>3. Len(unwrap_or(o.saddr, Zero(4))) = 4
    BY <1>4 DEF V4Destinations, V4Destination
  <2>4. QED
    BY <2>2, <2>3
<1>5. Matches(o, s) <=> Matches(o, k)
  <2> DEFINE none == /\ ~Given(o.saddr) /\ ~Given(o.daddr)
                     /\ \A p \in {o.sport, o.dport, o.proto} : unwrap_or(p, 0) = 0
             vers == Len(k.src) = Len(unwrap_or(o.saddr, Zero(4)))
             rest == /\ Given(o.saddr) => k.src = o.saddr[1]
                     /\ unwrap_or(o.sport, 0) \in {0, 256 * k.sport[1] + k.sport[2]}
                     /\ unwrap_or(o.dport, 0) \in {0, 256 * k.dport[1] + k.dport[2]}
                     /\ unwrap_or(o.proto, 0) \in {0, k.proto}
  <2>1. Matches(o, k) <=> none \/ /\ Readable(k) /\ vers /\ rest
                                  /\ Given(o.daddr) => k.dst = o.daddr[1]
    BY DEF Matches
  <2>2. Matches(o, s) <=> none \/ /\ Readable(s) /\ vers /\ rest
                                  /\ Given(o.daddr) => s.dst = o.daddr[1]
    BY <1>2 DEF Matches
  <2>3. Readable(k) /\ Given(o.daddr) /\ vers => s.dst = k.dst
    BY <1>2, <1>4
  <2> HIDE DEF none, vers, rest
  <2>4. QED
    BY <1>3, <2>1, <2>2, <2>3, Zenon
<1>6. QED
  BY <1>1, <1>5, Zenon DEF MirrorAsked

LEMMA V4AreSame == V4Destinations => SameVersions
  BY Zenon DEF V4Destinations, V4Destination, SameVersions, SameVersion

\* What holds of the packets as they are seen holds of the packets.
LEMMA AsSeenAsIs ==
    ASSUME V4Destinations, TcInv
    PROVE  VerdictsExplained /\ FilterDecides
<1>1. \A t \in Taps : by[t] \subseteq Commands
  BY DEF TcInv, HooksInv
<1>2. settled \subseteq Taps
  BY DEF TcInv, SettledInv
<1>3. \A o \in Commands, d \in Directions, k \in Packets :
          o.tool = "portmirror" => MirrorAsked(o, d, Seen(k)) = MirrorAsked(o, d, k)
  BY SeenTheSame
<1>4. ExplainedAsSeen /\ DecidedAsSeen
  BY V4AreSame, VerdictsFollow, FilterFollows
<1>5. VerdictsExplained
  <2> SUFFICES ASSUME NEW t \in Taps, NEW d \in Directions, NEW k \in Packets,
                      NEW v \in Verdicts(t, d, k) \ {Pass}
               PROVE  \E o \in by[t] : Explains(o, d, k, v)
    BY Zenon DEF VerdictsExplained
  <2>1. PICK o \in by[t] : Explains(o, d, Seen(k), v)
    BY <1>4, Zenon DEF ExplainedAsSeen
  <2>2. o \in Commands
    BY <1>1, Zenon
  <2>3. Explains(o, d, k, v)
    BY <1>3, <2>1, <2>2, CommandAssumption DEF Explains
  <2>4. QED
    BY <2>3
<1>6. FilterDecides
  <2> SUFFICES ASSUME NEW t \in settled, NEW o \in by[t], by[t] = {o},
                      o.tool = "portmirror", NEW d \in Directions, NEW k \in Packets
               PROVE  Verdicts(t, d, k) = {MirrorAsked(o, d, k)}
    BY Zenon DEF FilterDecides
  <2>1. Verdicts(t, d, k) = {MirrorAsked(o, d, Seen(k))}
    <3>1. DecidedAsSeen
      BY <1>4
    <3>2. QED
      BY <3>1 DEF DecidedAsSeen
  <2>2. o \in Commands
    <3>1. t \in Taps
      BY <1>2, Zenon
    <3>2. QED
      BY <1>1, <3>1, Zenon
  <2>3. QED
    BY <1>3, <2>1, <2>2, Zenon
<1>7. QED
  BY <1>5, <1>6

LEMMA TcAlways == Spec => []TcInv
  BY TcInit, TcKeeps, PTL DEF Spec

\* A packet is cloned only as a portmirror command asks that was not detached
\* since, and dropped only while an erspan command was not, after whatever
\* failures, kills and replaced hooks of either tool (portmirror.bpf.c:64-69,
\* 181-189; erspan/main.rs:113-142): for all interfaces, packets and command
\* lines without an IPv6 destination, which the classifier
\* compares with the source (portmirror.bpf.c:156).
THEOREM VerdictsAreExplained == ASSUME V4Destinations PROVE Spec => []VerdictsExplained
<1>1. TcInv => VerdictsExplained
  BY AsSeenAsIs
<1>2. QED
  BY <1>1, TcAlways, PTL

\* On a tap whose programs are one portmirror command's, which went through, every packet
\* fares in both directions as the command line says: the key that user space
\* stores and the key the classifier makes of a packet agree exactly when the
\* packet has what the options ask for (portmirror.bpf.c:71-189), with the
\* same exception.
THEOREM FilterIsObeyed == ASSUME V4Destinations PROVE Spec => []FilterDecides
<1>1. TcInv => FilterDecides
  BY AsSeenAsIs
<1>2. QED
  BY <1>1, TcAlways, PTL

\* The same two with IPv6 destinations: every packet fares exactly as the command
\* lines say of it with its source for its destination, if it is IPv6
\* (portmirror.bpf.c:156).  So that one line is all that parts the classifier from
\* its options, for command lines whose addresses are of one version.
THEOREM ObeyedAsSeen ==
    ASSUME SameVersions PROVE Spec => [](ExplainedAsSeen /\ DecidedAsSeen)
<1>1. TcInv => ExplainedAsSeen /\ DecidedAsSeen
  BY VerdictsFollow, FilterFollows
<1>2. QED
  BY <1>1, TcAlways, PTL
=============================================================================
