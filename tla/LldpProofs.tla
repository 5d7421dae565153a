----------------------------- MODULE LldpProofs -----------------------------
(***************************************************************************)
(* The LLDP parser on every payload.                                       *)
(***************************************************************************)
EXTENDS Lldp, SequenceTheorems, TLAPS

\* The two fields of a header, as pdu.rs takes them from its bytes.
LEMMA HeaderFields ==
    ASSUME NEW x \in Byte, NEW y \in Byte
    PROVE  x \div 2 \in Types /\ (x % 2) * 512 + y \in Lengths
<1>1. x \in Nat /\ y \in Nat /\ x <= 255 /\ y <= 255
  BY SMT DEF Byte
<1>2. x \div 2 \in Nat /\ x \div 2 <= 127
  BY <1>1, SMT
<1>3. x % 2 \in Nat /\ x % 2 <= 1
  BY <1>1, SMT
<1>4. (x % 2) * 512 + y \in Nat /\ (x % 2) * 512 + y <= 767
  BY <1>1, <1>3, SMT
<1>5. \A n \in Nat : (n <= 127 => n \in Types) /\ (n <= 767 => n \in Lengths)
  BY SMT DEF Types, Lengths
<1>6. QED
  BY <1>2, <1>4, <1>5, Zenon

LEMMA LengthsAreNat == Lengths \subseteq Nat
  BY SMT DEF Lengths

LEMMA KeptType ==
    ASSUME NEW type, NEW length \in Lengths
    PROVE  Kept(type, length) \in Lengths
<1>1. 0 \in Lengths /\ 2 \in Lengths /\ 4 \in Lengths
  BY SMT DEF Lengths
<1>2. QED
  BY <1>1, Zenon DEF Kept

\* What a TLV's parser takes starts and ends at positions, for any bytes.
LEMMA ParserBounds ==
    ASSUME NEW type, NEW length \in Nat, NEW v
    PROVE  LET u == Parser(type, length, v) IN u.a \in Nat /\ u.b \in Nat
<1> DEFINE Good(u) == u.a \in Nat /\ u.b \in Nat
<1>1. \A n, a, b \in Nat : Good(use(n, a, b))
  BY DEF use
<1> HIDE DEF Good
<1>2. Good(Address(length, v))
  BY <1>1 DEF Address
<1>3. Good(chassis_id(length, v))
  BY <1>1, <1>2 DEF chassis_id
<1>4. Good(port_id(length, v))
  BY <1>1, <1>2 DEF port_id
<1>5. Good(management_address(length, v))
  BY <1>1 DEF management_address
<1>6. Good(Parser(type, length, v))
  BY <1>1, <1>3, <1>4, <1>5 DEF Parser, ChassisId, PortId, Ttl, SystemCapabilities,
     ManagementAddress, OrganizationSpecific, EndOfLLDPDU
<1>7. QED
  BY <1>6 DEF Good

\* A slice of a sequence is one of the same elements.
LEMMA SliceType ==
    ASSUME NEW S, NEW s \in Seq(S), NEW m \in Nat, m > 0, NEW n \in Nat, n <= Len(s)
    PROVE  SubSeq(s, m, n) \in Seq(S)
<1>1. \A i \in m .. n : s[i] \in S
  BY LenProperties, ElementOfSeq
<1>2. QED
  BY <1>1, SubSeqProperties

Tlv == [type : Types, len : Lengths, at : Nat, value : Seq(Byte)]

\* A step of the loop appends one TLV, at pos, and moves to its end.
LEMMA PushStep ==
    ASSUME TypeOK, Push
    PROVE  \E t \in Tlv : /\ tlvs' = Append(tlvs, t) /\ t.at = pos
                          /\ pos' = After(pos) /\ LengthAt(pos) \in Nat
                          /\ pos' \in 0 .. Len(payload)
                          /\ UNCHANGED <<kind, payload, result>> /\ result = "run"
<1> DEFINE u == Parser(Type, Length, Rest)
           t == [type |-> Type, len |-> Kept(Type, Length), at |-> pos,
                 value |-> SubSeq(Rest, u.a + 1, u.b)]
<1>1. /\ result = "run" /\ pos + 1 < Len(payload) /\ Len(payload) >= pos + 2 + Length
      /\ ~Panics(u, Rest) /\ tlvs' = Append(tlvs, t) /\ pos' = pos + 2 + Length
      /\ UNCHANGED <<kind, payload, result>>
  BY DEF Push, More, Fits
<1>2. payload \in Seq(Byte) /\ pos \in Nat /\ Len(payload) \in Nat
  BY PayloadAssumption, LenProperties DEF TypeOK
<1>3. payload[pos + 1] \in Byte /\ payload[pos + 2] \in Byte
  <2>1. pos + 1 \in 1 .. Len(payload) /\ pos + 2 \in 1 .. Len(payload)
    BY <1>1, <1>2
  <2>2. QED
    BY <1>2, <2>1, ElementOfSeq
<1>4. Type \in Types /\ Length \in Lengths /\ Length \in Nat
  BY <1>3, HeaderFields, LengthsAreNat DEF Type, Length, LengthAt
<1>5. Rest \in Seq(Byte) /\ Len(Rest) \in Nat
  <2>1. pos + 3 \in Nat /\ pos + 3 > 0
    BY <1>2
  <2>2. Rest \in Seq(Byte)
    BY <1>2, <2>1, SliceType DEF Rest
  <2>3. QED
    BY <2>2, LenProperties
<1>6. u.a \in Nat /\ u.b \in Nat
  BY <1>4, ParserBounds
<1> HIDE DEF u
<1>7. u.b <= Len(Rest)
  BY <1>1, <1>5, <1>6 DEF Panics
<1>8. SubSeq(Rest, u.a + 1, u.b) \in Seq(Byte)
  <2>1. u.a + 1 \in Nat /\ u.a + 1 > 0
    BY <1>6
  <2>2. QED
    BY <1>5, <1>6, <1>7, <2>1, SliceType
<1>9. t \in Tlv /\ t.at = pos
  BY <1>2, <1>4, <1>8, KeptType DEF Tlv
<1>10. pos' \in 0 .. Len(payload)
  BY <1>1, <1>2, <1>4
<1> HIDE DEF t
<1>11. pos' = After(pos) /\ LengthAt(pos) \in Nat
  BY <1>1, <1>4 DEF After, Length
<1>12. QED
  BY <1>1, <1>9, <1>10, <1>11

LEMMA TypeKeeps == TypeOK /\ [Next]_vars => TypeOK'
<1> SUFFICES ASSUME TypeOK, [Next]_vars PROVE TypeOK'
  OBVIOUS
<1>1. CASE NotLldp \/ IsLldp \/ WrongLength \/ Panic \/ Finish
  <2>1. UNCHANGED <<kind, payload, pos, tlvs>> /\ result' \in Results
    BY <1>1 DEF NotLldp, IsLldp, WrongLength, Panic, Finish, Results
  <2>2. QED
    BY <2>1 DEF TypeOK
<1>2. CASE Push
  <2>1. PICK t \in Tlv : /\ tlvs' = Append(tlvs, t) /\ pos' \in 0 .. Len(payload)
                         /\ UNCHANGED <<kind, payload, result>>
    BY <1>2, PushStep
  <2>2. tlvs' \in Seq(Tlv)
    BY <2>1, AppendProperties DEF TypeOK, Tlv
  <2>3. QED
    BY <2>1, <2>2 DEF TypeOK, Tlv
<1>3. CASE UNCHANGED vars
  BY <1>3 DEF TypeOK, vars
<1>4. QED
  BY <1>1, <1>2, <1>3 DEF Next

\* The position never leaves the payload and the fields of every TLV have the
\* range of their bits: from_bytes reads each header's two bytes within the
\* payload, whatever was received (pdu.rs:88-97).
THEOREM TypeCorrect == Spec => []TypeOK
<1>1. Init => TypeOK
  <2> SUFFICES ASSUME Init PROVE TypeOK
    OBVIOUS
  <2>1. payload \in Payloads /\ Len(payload) \in Nat
    BY PayloadAssumption, LenProperties DEF Init
  <2>2. pos \in 0 .. Len(payload)
    BY <2>1 DEF Init
  <2>3. tlvs \in Seq(Tlv)
    BY DEF Init
  <2>4. QED
    BY <2>1, <2>2, <2>3 DEF Init, TypeOK, Tlv, Results
<1>2. QED
  BY <1>1, TypeKeeps, PTL DEF Spec

LEMMA TilesKeep == TypeOK /\ Tiles /\ [Next]_vars => Tiles'
<1> SUFFICES ASSUME TypeOK, Tiles, [Next]_vars PROVE Tiles'
  OBVIOUS
<1>1. CASE NotLldp \/ IsLldp \/ WrongLength \/ Panic \/ Finish
  <2>1. /\ UNCHANGED <<payload, pos, tlvs>>
        /\ result' = "ok" => ~(pos + 1 < Len(payload))
    BY <1>1 DEF NotLldp, IsLldp, WrongLength, Panic, Finish
  <2>2. pos \in Nat /\ Len(payload) \in Nat
    BY PayloadAssumption, LenProperties DEF TypeOK
  <2>3. result' = "ok" => Len(payload) - pos <= 1
    BY <2>1, <2>2
  <2>4. \A p : After(p)' = After(p)
    BY <2>1 DEF After, LengthAt
  <2>5. QED
    BY <2>1, <2>3, <2>4 DEF Tiles
<1>2. CASE Push
  <2>1. PICK t \in Tlv : /\ tlvs' = Append(tlvs, t) /\ t.at = pos /\ pos' = After(pos)
                         /\ pos' \in 0 .. Len(payload)
                         /\ payload' = payload /\ result' = "run"
    BY <1>2, PushStep
  <2>2. PICK n \in Nat : n = Len(tlvs)
    BY LenProperties DEF TypeOK
  <2>3. PICK q : q = tlvs'
    OBVIOUS
  <2>4. /\ Len(q) = n + 1 /\ q[n + 1] = t /\ q # <<>>
        /\ \A i \in 1 .. n : q[i] = tlvs[i]
    <3>1. tlvs \in Seq(Tlv)
      BY DEF TypeOK, Tlv
    <3>2. QED
      BY <2>1, <2>2, <2>3, <3>1, AppendProperties
  <2>5. /\ \A k \in 1 .. n :
             /\ tlvs[k].at = IF k = 1 THEN 0 ELSE After(tlvs[k - 1].at)
             /\ After(tlvs[k].at) <= Len(payload)
        /\ pos = IF tlvs = <<>> THEN 0 ELSE After(tlvs[n].at)
        /\ tlvs = <<>> <=> n = 0
    <3>1. tlvs \in Seq(Tlv)
      BY DEF TypeOK, Tlv
    <3>2. tlvs = <<>> <=> n = 0
      BY <2>2, <3>1, EmptySeq
    <3>3. QED
      BY <2>2, <3>2 DEF Tiles
  <2>6. ASSUME NEW k \in 1 .. n + 1
        PROVE  /\ q[k].at = IF k = 1 THEN 0 ELSE After(q[k - 1].at)
               /\ After(q[k].at) <= Len(payload)
    <3>1. CASE k \in 1 .. n
      <4>1. k # 1 => k - 1 \in 1 .. n
        BY <3>1
      <4>2. q[k] = tlvs[k] /\ (k # 1 => q[k - 1] = tlvs[k - 1])
        BY <2>4, <3>1, <4>1
      <4>3. QED
        BY <2>5, <3>1, <4>2
    <3>2. CASE k = n + 1
      <4>1. q[k] = t /\ t.at = pos /\ After(t.at) <= Len(payload)
        BY <2>1, <2>4, <3>2
      <4>2. k = 1 <=> n = 0
        BY <3>2
      <4>3. n # 0 => k - 1 = n /\ q[k - 1] = tlvs[n]
        BY <2>4, <3>2
      <4>4. QED
        BY <2>5, <4>1, <4>2, <4>3
    <3>3. QED
      BY <2>6, <3>1, <3>2
  <2>7. pos' = After(q[Len(q)].at)
    BY <2>1, <2>4
  <2>8. \A p : After(p)' = After(p)
    BY <2>1 DEF After, LengthAt
  <2>9. QED
    BY <2>1, <2>3, <2>4, <2>6, <2>7, <2>8 DEF Tiles
<1>3. CASE UNCHANGED vars
  <2>1. \A p : After(p)' = After(p)
    BY <1>3 DEF After, LengthAt, vars
  <2>2. QED
    BY <1>3, <2>1 DEF Tiles, vars
<1>4. QED
  BY <1>1, <1>2, <1>3 DEF Next

\* The TLVs decoded lie one after the other from the start of the payload,
\* none is skipped, read twice or cut, and a parse that succeeds leaves at most
\* one byte: for every payload (pdu.rs:85-119).
THEOREM TlvsTile == Spec => []Tiles
<1>1. Init => Tiles
  BY DEF Init, Tiles
<1>2. QED
  BY <1>1, TypeCorrect, TilesKeep, PTL DEF Spec

-----------------------------------------------------------------------------
(***************************************************************************)
(* A payload of well-formed TLVs is decoded, whatever their number         *)
(***************************************************************************)
\* Slices of two sequences that agree.
LEMMA SameSlice ==
    ASSUME NEW v \in Seq(Byte), NEW w \in Seq(Byte), Len(w) <= Len(v),
           \A i \in 1 .. Len(w) : v[i] = w[i],
           NEW a \in Nat, NEW b \in Nat, b <= Len(w)
    PROVE  SubSeq(v, a + 1, b) = SubSeq(w, a + 1, b)
<1> DEFINE x == SubSeq(v, a + 1, b)
           y == SubSeq(w, a + 1, b)
<1>1. Len(v) \in Nat /\ Len(w) \in Nat
  BY LenProperties
<1>2. x \in Seq(Byte) /\ y \in Seq(Byte)
  BY <1>1, SliceType
<1>3. /\ Len(x) = IF a + 1 <= b THEN b - (a + 1) + 1 ELSE 0
      /\ Len(y) = IF a + 1 <= b THEN b - (a + 1) + 1 ELSE 0
      /\ \A i \in 1 .. b - (a + 1) + 1 : x[i] = v[a + 1 + i - 1] /\ y[i] = w[a + 1 + i - 1]
  BY <1>1
<1>4. \A i \in 1 .. Len(x) : x[i] = y[i]
  BY <1>1, <1>3
<1> HIDE DEF x, y
<1>5. QED
  BY <1>2, <1>3, <1>4, SeqEqual DEF x, y

\* A slice from the start to the end is all of it, one of nothing is empty.
LEMMA WholeSlice ==
    ASSUME NEW v \in Seq(Byte)
    PROVE  SubSeq(v, 1, Len(v)) = v /\ SubSeq(v, 1, 0) = <<>>
  OBVIOUS

\* Where the parser of a well-formed TLV takes its value from: within the TLV,
\* and it is the content.
Takes(u, t) ==
    /\ u.need \in Nat /\ u.a \in Nat /\ u.b \in Nat
    /\ u.need <= Len(t.value) /\ u.a <= u.b /\ u.b <= Len(t.value)
    /\ SubSeq(t.value, u.a + 1, u.b) = Content(t)

LEMMA UseTakes ==
    ASSUME NEW t \in Placed, NEW need \in Nat, NEW a \in Nat, NEW b \in Nat,
           need <= Len(t.value), a <= b, b <= Len(t.value),
           SubSeq(t.value, a + 1, b) = Content(t)
    PROVE  Takes(use(need, a, b), t)
  BY DEF Takes, use

\* The content of an identifier; the kinds of TLV exclude each other.
LEMMA IdContent ==
    ASSUME NEW t, IsId(t)
    PROVE  /\ IsNetwork(t) => Content(t) = SubSeq(t.value, 3, Len(t.value))
           /\ ~IsNetwork(t) => Content(t) = SubSeq(t.value, 2, Len(t.value))
<1>1. t.type # ManagementAddress /\ t.type # OrganizationSpecific
  BY DEF IsId, ChassisId, PortId, ManagementAddress, OrganizationSpecific
<1>2. QED
  BY <1>1, Zenon DEF Content

\* What the parsers see of the bytes after a header, when a TLV's value is there.
Shown(v, t) ==
    /\ v \in Seq(Byte) /\ Len(t.value) <= Len(v)
    /\ \A i \in 1 .. Len(t.value) : v[i] = t.value[i]

LEMMA AtShown ==
    ASSUME NEW t \in Placed, NEW v, Shown(v, t)
    PROVE  /\ Len(t.value) > 1 => At(v, 0) = t.value[1] /\ At(v, 1) = t.value[2]
           /\ t.value \in Seq(Byte) /\ Len(t.value) \in Nat /\ Len(v) \in Nat
<1>1. t.value \in Seq(Byte) /\ v \in Seq(Byte)
  BY DEF Placed, Shown
<1>2. Len(t.value) \in Nat /\ Len(v) \in Nat
  BY <1>1, LenProperties
<1>3. QED
  BY <1>1, <1>2 DEF At, Shown

\* What chassis_id.rs:17 does not read rightly is left out.
Readable(t) == ~(t.type = ChassisId /\ IsMac(t))

\* An identifier is the part after its subtype, the family of an address included.
LEMMA IdTakes ==
    ASSUME NEW t \in Placed, NEW v, Shown(v, t), WellFormed(t), IsId(t), Readable(t)
    PROVE  Takes(IF t.type = ChassisId THEN chassis_id(Len(t.value), v)
                                       ELSE port_id(Len(t.value), v), t)
<1> DEFINE n == Len(t.value)
<1>1. n \in Nat /\ n > 1 /\ n <= Len(t.value) /\ At(v, 0) = t.value[1] /\ At(v, 1) = t.value[2]
  BY AtShown DEF WellFormed
<1>2. CASE IsNetwork(t)
  <2>1. Content(t) = SubSeq(t.value, 3, n)
    BY <1>2, IdContent
  <2>2. (t.value[2] = 1 => n = 6) /\ (t.value[2] = 2 => n = 18)
    BY <1>2 DEF WellFormed
  <2> HIDE DEF n
  <2>3. Takes(use(2, 2, n), t)
    <3>1. 2 + 1 = 3 /\ 2 \in Nat /\ 2 <= n
      BY <1>1 DEF n
    <3>2. SubSeq(t.value, 2 + 1, n) = Content(t)
      BY <2>1, <3>1
    <3>3. n = Len(t.value)
      BY DEF n
    <3>4. QED
      BY <1>1, <3>1, <3>2, <3>3, UseTakes
  <2>4. Address(n, v) = use(2, 2, n)
    BY <1>1, <2>2 DEF Address
  <2>5. chassis_id(n, v) = Address(n, v) \/ t.type # ChassisId
    BY <1>1, <1>2 DEF chassis_id, IsNetwork
  <2>6. port_id(n, v) = Address(n, v) \/ t.type = ChassisId
    BY <1>1, <1>2 DEF port_id, IsNetwork
  <2>7. QED
    BY <2>3, <2>4, <2>5, <2>6 DEF n
<1>3. CASE ~IsNetwork(t)
  <2>1. Content(t) = SubSeq(t.value, 2, n)
    BY <1>3, IdContent
  <2>2. (t.type = ChassisId => t.value[1] \notin {4, 5})
        /\ (t.type # ChassisId => t.value[1] # 4 /\ (t.value[1] = 3 => n = 7))
    BY <1>3 DEF WellFormed, Readable, IsMac, IsNetwork, IsId, ChassisId, PortId
  <2> HIDE DEF n
  <2>3. Takes(use(1, 1, n), t)
    <3>1. 1 + 1 = 2 /\ 1 \in Nat /\ 1 <= n
      BY <1>1 DEF n
    <3>2. SubSeq(t.value, 1 + 1, n) = Content(t)
      BY <2>1, <3>1
    <3>3. n = Len(t.value)
      BY DEF n
    <3>4. QED
      BY <1>1, <3>1, <3>2, <3>3, UseTakes
  <2>4. t.type = ChassisId => chassis_id(n, v) = use(1, 1, n)
    BY <1>1, <2>2 DEF chassis_id
  <2>5. t.type # ChassisId => port_id(n, v) = use(1, 1, n)
    BY <1>1, <2>2 DEF port_id
  <2>6. QED
    BY <2>3, <2>4, <2>5 DEF n
<1>4. QED
  BY <1>2, <1>3

\* A management address is as long as its family makes it.
LEMMA ManagementTakes ==
    ASSUME NEW t \in Placed, NEW v, Shown(v, t), WellFormed(t), t.type = ManagementAddress
    PROVE  Takes(management_address(Len(t.value), v), t)
<1>1. Len(t.value) \in Nat /\ Len(t.value) > 1 /\ At(v, 1) = t.value[2]
  BY AtShown DEF WellFormed
<1>2. \/ t.value[1] = 5 /\ t.value[2] = 1 /\ Len(t.value) >= 6
      \/ t.value[1] = 17 /\ t.value[2] = 2 /\ Len(t.value) >= 18
  BY <1>1 DEF WellFormed
<1>3. Content(t) = SubSeq(t.value, 3, t.value[1] + 1)
  <2>1. ~IsId(t) /\ t.type # OrganizationSpecific
    BY DEF IsId, ChassisId, PortId, ManagementAddress, OrganizationSpecific
  <2>2. QED
    BY <2>1, Zenon DEF Content
<1>4. CASE t.value[1] = 5 /\ t.value[2] = 1 /\ Len(t.value) >= 6
  <2>1. management_address(Len(t.value), v) = use(2, 2, 6)
    BY <1>1, <1>4 DEF management_address
  <2>2. 5 + 1 = 6 /\ 2 + 1 = 3 /\ 6 \in Nat /\ 2 \in Nat /\ 2 <= 6 /\ 2 <= Len(t.value) /\ 6 <= Len(t.value)
    BY <1>1, <1>4
  <2>3. SubSeq(t.value, 2 + 1, 6) = Content(t)
    BY <1>3, <1>4, <2>2
  <2>4. QED
    BY <2>1, <2>2, <2>3, UseTakes
<1>5. CASE t.value[1] = 17 /\ t.value[2] = 2 /\ Len(t.value) >= 18
  <2>1. management_address(Len(t.value), v) = use(2, 2, 18)
    BY <1>1, <1>5 DEF management_address
  <2>2. 17 + 1 = 18 /\ 2 + 1 = 3 /\ 18 \in Nat /\ 2 \in Nat /\ 2 <= 18 /\ 2 <= Len(t.value) /\ 18 <= Len(t.value)
    BY <1>1, <1>5
  <2>3. SubSeq(t.value, 2 + 1, 18) = Content(t)
    BY <1>3, <1>5, <2>2
  <2>4. QED
    BY <2>1, <2>2, <2>3, UseTakes
<1>6. QED
  BY <1>2, <1>4, <1>5

\* Any other TLV is taken whole, or nothing of it.
LEMMA WholeTakes ==
    ASSUME NEW t \in Placed, NEW v, Shown(v, t), WellFormed(t), ~IsId(t),
           t.type # ManagementAddress
    PROVE  Takes(Parser(t.type, Len(t.value), v), t)
<1>1. t.value \in Seq(Byte) /\ Len(t.value) \in Nat
  BY AtShown
<1>2. PICK n \in Nat : n = Len(t.value)
  BY <1>1
<1>3. 0 + 1 = 1 /\ 0 \in Nat /\ 0 <= n /\ n <= Len(t.value) /\ 0 <= 0
  BY <1>2
<1>4. t.type # ChassisId /\ t.type # PortId
  BY DEF IsId
<1>5. CASE t.type = OrganizationSpecific
  <2>1. Content(t) = <<>>
    BY <1>5, Zenon DEF Content
  <2>2. SubSeq(t.value, 0 + 1, 0) = Content(t)
    BY <1>1, <1>3, <2>1, WholeSlice
  <2>3. Parser(t.type, n, v) = use(0, 0, 0)
    BY <1>5 DEF Parser, ChassisId, PortId, Ttl, SystemCapabilities,
       ManagementAddress, OrganizationSpecific, EndOfLLDPDU
  <2>4. QED
    BY <1>2, <1>3, <2>2, <2>3, UseTakes
<1>6. CASE t.type # OrganizationSpecific
  <2>1. Content(t) = t.value
    BY <1>6, Zenon DEF Content
  <2>2. SubSeq(t.value, 0 + 1, n) = Content(t)
    BY <1>1, <1>2, <1>3, <2>1, WholeSlice
  <2>3. Takes(use(0, 0, n), t)
    BY <1>2, <1>3, <2>2, UseTakes
  <2>4. /\ t.type = Ttl => n = 2
        /\ t.type = SystemCapabilities => n = 4
        /\ t.type = EndOfLLDPDU => n = 0
    BY <1>2 DEF WellFormed
  <2>5. Parser(t.type, n, v) = use(0, 0, n)
    BY <1>4, <1>6, <2>4 DEF Parser, Ttl, SystemCapabilities, EndOfLLDPDU
  <2>6. QED
    BY <1>2, <2>3, <2>5
<1>7. QED
  BY <1>5, <1>6

\* The parser of every well-formed TLV takes its content and does not panic,
\* whatever follows it in the payload.
LEMMA ParserTakes ==
    ASSUME NEW t \in Placed, NEW v, Shown(v, t), WellFormed(t), Readable(t)
    PROVE  LET u == Parser(t.type, Len(t.value), v)
           IN  ~Panics(u, v) /\ SubSeq(v, u.a + 1, u.b) = Content(t)
<1> DEFINE u == Parser(t.type, Len(t.value), v)
<1>1. Takes(u, t)
  <2>1. CASE IsId(t)
    <3>1. u = IF t.type = ChassisId THEN chassis_id(Len(t.value), v)
                                    ELSE port_id(Len(t.value), v)
      BY <2>1 DEF IsId, Parser, ChassisId, PortId, Ttl, SystemCapabilities,
         ManagementAddress, OrganizationSpecific, EndOfLLDPDU
    <3>2. QED
      BY <2>1, <3>1, IdTakes
  <2>2. CASE t.type = ManagementAddress
    <3>1. u = management_address(Len(t.value), v)
      BY <2>2 DEF Parser, ChassisId, PortId, Ttl, SystemCapabilities,
         ManagementAddress, OrganizationSpecific, EndOfLLDPDU
    <3>2. QED
      BY <2>2, <3>1, ManagementTakes
  <2>3. QED
    BY <2>1, <2>2, WholeTakes
<1> HIDE DEF u
<1>2. t.value \in Seq(Byte) /\ Len(t.value) \in Nat /\ Len(v) \in Nat
  BY AtShown
<1>3. v \in Seq(Byte) /\ Len(t.value) <= Len(v) /\ \A i \in 1 .. Len(t.value) : v[i] = t.value[i]
  BY DEF Shown
<1>4. ~Panics(u, v)
  BY <1>1, <1>2, <1>3 DEF Takes, Panics
<1>5. SubSeq(v, u.a + 1, u.b) = SubSeq(t.value, u.a + 1, u.b)
  BY <1>1, <1>2, <1>3, SameSlice DEF Takes
<1>6. QED
  BY <1>1, <1>4, <1>5 DEF Takes, u

\* The length a struct keeps is the value's.
LEMMA KeptLength ==
    ASSUME NEW t, WellFormed(t)
    PROVE  Kept(t.type, Len(t.value)) = Len(t.value)
  BY DEF WellFormed, Kept, Ttl, SystemCapabilities, EndOfLLDPDU

\* At the position of a TLV the loop reads its type and its length, which fits,
\* and gives its parser the value.
LEMMA HeaderRead ==
    ASSUME TypeOK, NEW t \in Placed, t.at = pos, WellFormed(t), Holds(t)
    PROVE  /\ Type = t.type /\ Length = Len(t.value)
           /\ pos + 1 < Len(payload) /\ Fits
           /\ Shown(Rest, t)
<1>1. payload \in Seq(Byte) /\ Len(payload) \in Nat /\ pos \in Nat
  BY PayloadAssumption, LenProperties DEF TypeOK
<1>2. t.value \in Seq(Byte) /\ t.type \in Nat
  <2>1. t.value \in Seq(Byte) /\ t.type \in Types
    BY DEF Placed
  <2>2. Types \subseteq Nat
    BY DEF Types
  <2>3. QED
    BY <2>1, <2>2, Zenon
<1>3. PICK n \in Nat : n = Len(t.value)
  BY <1>2, LenProperties
<1>4. /\ pos + 2 + n <= Len(payload)
      /\ payload[pos + 1] = 2 * t.type /\ payload[pos + 2] = n
      /\ \A i \in 1 .. n : payload[pos + 2 + i] = t.value[i]
  BY <1>3, Zenon DEF Holds, End
<1>5. Type = t.type /\ Length = n
  <2>1. \A m \in Nat : (2 * m) \div 2 = m /\ (2 * m) % 2 = 0
    OBVIOUS
  <2>2. (2 * t.type) \div 2 = t.type /\ (2 * t.type) % 2 = 0
    BY <1>2, <2>1
  <2>3. 0 * 512 + n = n
    OBVIOUS
  <2>4. QED
    BY <1>4, <2>2, <2>3 DEF Type, Length, LengthAt
<1>6. pos + 1 < Len(payload) /\ Fits
  BY <1>1, <1>4, <1>5 DEF Fits
<1>7. Shown(Rest, t)
  <2>1. Rest \in Seq(Byte) /\ Len(Rest) = Len(payload) - pos - 2
        /\ \A i \in 1 .. n : Rest[i] = payload[pos + 2 + i]
    <3>1. Rest \in Seq(Byte)
      BY <1>1, SliceType DEF Rest
    <3>2. \A i \in pos + 3 .. Len(payload) : payload[i] \in Byte
      BY <1>1, ElementOfSeq
    <3>3. pos + 3 \in Int /\ Len(payload) \in Int
      BY <1>1
    <3>4. /\ Len(Rest) = IF pos + 3 <= Len(payload) THEN Len(payload) - (pos + 3) + 1 ELSE 0
          /\ \A i \in 1 .. Len(payload) - (pos + 3) + 1 : Rest[i] = payload[pos + 3 + i - 1]
      BY <3>2, <3>3, SubSeqProperties DEF Rest
    <3>5. QED
      BY <1>1, <1>4, <3>1, <3>4
  <2>2. Len(t.value) <= Len(Rest)
    <3>1. \A x, y, z \in Nat : x + 2 + y <= z => y <= z - x - 2
      OBVIOUS
    <3>2. n <= Len(payload) - pos - 2
      BY <1>1, <1>4, <3>1
    <3>3. QED
      BY <1>3, <2>1, <3>2, Zenon
  <2>3. \A i \in 1 .. Len(t.value) : Rest[i] = t.value[i]
    BY <1>3, <1>4, <2>1, Zenon
  <2>4. QED
    BY <2>1, <2>2, <2>3, Zenon DEF Shown
<1>8. QED
  BY <1>3, <1>5, <1>6, <1>7

\* How far the parser is with the TLVs of l.
Decoding(l) ==
    /\ result \notin {"wrong length", "panic"}
    /\ Len(tlvs) <= Len(l)
    /\ \A k \in 1 .. Len(tlvs) : Shows(tlvs[k], l[k])
    /\ pos = IF Len(tlvs) = 0 THEN 0 ELSE End(l[Len(tlvs)])
    /\ result = "ok" => Len(tlvs) = Len(l)

\* As long as the loop has TLVs of l before it, it is at the next one; and
\* when it has none, it is at the end of the payload.
LEMMA AtNext ==
    ASSUME NoMacChassis, TypeOK, NEW l \in Layouts, Lays(l), Decoding(l)
    PROVE  /\ Len(tlvs) \in Nat /\ Len(l) \in Nat
           /\ Len(tlvs) < Len(l) =>
                 LET t == l[Len(tlvs) + 1]
                 IN  t \in Placed /\ t.at = pos /\ WellFormed(t) /\ Readable(t) /\ Holds(t)
           /\ Len(tlvs) = Len(l) => ~(pos + 1 < Len(payload))
<1>1. l \in Seq(Placed) /\ tlvs \in Seq(Tlv)
  BY LayoutAssumption DEF TypeOK, Tlv
<1>2. PICK n \in Nat : n = Len(tlvs)
  BY <1>1, LenProperties
<1>3. PICK m \in Nat : m = Len(l)
  BY <1>1, LenProperties
<1>4. pos \in Nat /\ Len(payload) \in Nat
  BY PayloadAssumption, LenProperties DEF TypeOK
<1>5. pos = IF n = 0 THEN 0 ELSE End(l[n])
  BY <1>2 DEF Decoding
<1>6. ASSUME n < m
      PROVE  /\ l[n + 1] \in Placed /\ l[n + 1].at = pos
             /\ WellFormed(l[n + 1]) /\ Readable(l[n + 1]) /\ Holds(l[n + 1])
  <2>1. n + 1 \in 1 .. m /\ (n + 1 = 1 <=> n = 0) /\ (n + 1) - 1 = n
    BY <1>6
  <2>2. l[n + 1] \in Placed
    BY <1>1, <1>3, <2>1, ElementOfSeq
  <2>3. /\ l[n + 1].at = IF n + 1 = 1 THEN 0 ELSE End(l[(n + 1) - 1])
        /\ WellFormed(l[n + 1]) /\ Holds(l[n + 1])
    BY <1>3, <2>1 DEF Lays
  <2>4. Readable(l[n + 1])
    BY <1>3, <2>1 DEF NoMacChassis, Readable
  <2>5. QED
    BY <1>5, <2>1, <2>2, <2>3, <2>4
<1>7. ASSUME n = m PROVE ~(pos + 1 < Len(payload))
  <2>1. l = <<>> <=> m = 0
    <3>1. l = <<>> => Len(l) = 0
      BY EmptySeq
    <3>2. l # <<>> => Len(l) \in Nat \ {0}
      BY <1>1, EmptySeq
    <3>3. QED
      BY <1>3, <3>1, <3>2
  <2>2. Len(payload) = pos
    BY <1>3, <1>5, <1>7, <2>1 DEF Lays
  <2>3. QED
    BY <1>4, <2>2
<1>8. QED
  BY <1>2, <1>3, <1>6, <1>7

LEMMA DecodingKeeps ==
    ASSUME NoMacChassis, TypeOK, NEW l \in Layouts, Lays(l), Decoding(l), [Next]_vars
    PROVE  Decoding(l)'
<1>1. PICK n \in Nat : n = Len(tlvs)
  BY AtNext
<1>2. PICK m \in Nat : m = Len(l)
  BY AtNext
<1>3. n <= m
  BY <1>1, <1>2 DEF Decoding
<1> DEFINE t == l[n + 1]
<1>4. n = m => ~(pos + 1 < Len(payload))
  BY <1>1, <1>2, AtNext
<1>5. ASSUME n < m
      PROVE  /\ t \in Placed /\ Type = t.type /\ Length = Len(t.value)
             /\ pos + 1 < Len(payload) /\ Fits /\ Shown(Rest, t) /\ WellFormed(t)
             /\ Readable(t) /\ t.at = pos
  <2>1. t \in Placed /\ t.at = pos /\ WellFormed(t) /\ Readable(t) /\ Holds(t)
    BY <1>1, <1>2, <1>5, AtNext
  <2> HIDE DEF t
  <2>2. QED
    BY <2>1, HeaderRead
<1> HIDE DEF t
<1>6. CASE NotLldp \/ IsLldp
  <2>1. UNCHANGED <<pos, tlvs>> /\ result' \in {"run", "not lldp"}
    BY <1>6 DEF NotLldp, IsLldp
  <2>2. QED
    BY <2>1 DEF Decoding
<1>7. CASE WrongLength
  <2>1. pos + 1 < Len(payload) /\ ~Fits
    BY <1>7 DEF WrongLength, More
  <2>2. n < m
    BY <1>3, <1>4, <2>1
  <2>3. QED
    BY <1>5, <2>1, <2>2
<1>8. CASE Panic
  <2>1. n < m
    BY <1>3, <1>4, <1>8 DEF Panic, More
  <2>2. ~Panics(Parser(Type, Length, Rest), Rest)
    BY <1>5, <2>1, ParserTakes
  <2>3. QED
    BY <1>8, <2>2 DEF Panic
<1>9. CASE Push
  <2>1. n < m
    BY <1>3, <1>4, <1>9 DEF Push, More
  <2> DEFINE u == Parser(Type, Length, Rest)
             d == [type |-> Type, len |-> Kept(Type, Length), at |-> pos,
                   value |-> SubSeq(Rest, u.a + 1, u.b)]
  <2>2. tlvs' = Append(tlvs, d) /\ pos' = pos + 2 + Length /\ result' = result
        /\ result = "run"
    BY <1>9 DEF Push, More
  <2>3. SubSeq(Rest, u.a + 1, u.b) = Content(t)
    BY <1>5, <2>1, ParserTakes
  <2>4. Shows(d, t)
    <3>1. Kept(Type, Length) = Len(t.value)
      BY <1>5, <2>1, KeptLength
    <3>2. QED
      BY <1>5, <2>1, <2>3, <3>1 DEF Shows
  <2> HIDE DEF d
  <2>5. PICK q : q = tlvs'
    OBVIOUS
  <2>6. /\ Len(q) = n + 1 /\ q[n + 1] = d
        /\ \A i \in 1 .. n : q[i] = tlvs[i]
    <3>1. tlvs \in Seq(Tlv)
      BY DEF TypeOK, Tlv
    <3>2. QED
      BY <1>1, <2>2, <2>5, <3>1, AppendProperties
  <2>7. \A k \in 1 .. n + 1 : Shows(q[k], l[k])
    <3>1. TAKE k \in 1 .. n + 1
    <3>2. CASE k \in 1 .. n
      BY <1>1, <2>6, <3>2 DEF Decoding
    <3>3. CASE k = n + 1
      BY <2>4, <2>6, <3>3 DEF t
    <3>4. QED
      BY <3>2, <3>3
  <2>8. pos' = End(l[n + 1])
    BY <1>5, <2>1, <2>2 DEF End, t
  <2>9. n + 1 <= m /\ n + 1 # 0
    BY <2>1
  <2>10. QED
    BY <1>2, <2>2, <2>5, <2>6, <2>7, <2>8, <2>9 DEF Decoding
<1>10. CASE Finish
  <2>1. UNCHANGED <<pos, tlvs>> /\ result' = "ok" /\ ~(pos + 1 < Len(payload))
    BY <1>10 DEF Finish
  <2>2. n = m
    BY <1>3, <1>5, <2>1
  <2>3. QED
    BY <1>1, <1>2, <2>1, <2>2 DEF Decoding
<1>11. CASE UNCHANGED vars
  BY <1>11 DEF Decoding, vars
<1>12. QED
  BY <1>6, <1>7, <1>8, <1>9, <1>10, <1>11 DEF Next

\* What the payload consists of does not change.
LEMMA LaysStays ==
    ASSUME [Next]_vars, NEW l
    PROVE  Lays(l)' <=> Lays(l)
<1>1. payload' = payload
  BY DEF Next, vars, NotLldp, IsLldp, WrongLength, Panic, Push, Finish
<1>2. \A t : Holds(t)' <=> Holds(t)
  BY <1>1, Zenon DEF Holds
<1>3. QED
  BY <1>1, <1>2, Zenon DEF Lays

DecodingAll == \A l \in Layouts : Lays(l) => Decoding(l)

\* A payload of well-formed TLVs in sequence, any number of them, is decoded
\* without an error: each one's type, length and content (pdu.rs:85-119 and the
\* parsers under tlv/).  The chassis identifier may be any but a MAC address
\* (NoMacChassis): of one chassis_id.rs:17 takes the wrong six bytes.
THEOREM TlvsDecoded == NoMacChassis => (Spec => []Decodes)
<1> SUFFICES ASSUME NoMacChassis PROVE Spec => []Decodes
  OBVIOUS
<1>1. Init => DecodingAll
  <2> SUFFICES ASSUME Init, NEW l \in Layouts PROVE Decoding(l)
    BY DEF DecodingAll
  <2>1. tlvs = <<>> /\ Len(tlvs) = 0 /\ pos = 0 /\ result = "start"
    BY DEF Init
  <2>2. Len(l) \in Nat
    BY LayoutAssumption, LenProperties
  <2>3. QED
    BY <2>1, <2>2 DEF Decoding
<1>2. TypeOK /\ DecodingAll /\ [Next]_vars => DecodingAll'
  <2> SUFFICES ASSUME TypeOK, DecodingAll, [Next]_vars, NEW l \in Layouts, Lays(l)'
               PROVE  Decoding(l)'
    BY DEF DecodingAll
  <2>1. Lays(l)
    BY LaysStays
  <2>2. QED
    BY <2>1, DecodingKeeps DEF DecodingAll
<1>3. TypeOK /\ DecodingAll => Decodes
  <2> SUFFICES ASSUME TypeOK, NEW l \in Layouts, Decoding(l),
                      result \notin {"start", "run", "not lldp"}
               PROVE  /\ result = "ok" /\ Len(tlvs) = Len(l)
                      /\ \A k \in 1 .. Len(l) : Shows(tlvs[k], l[k])
    BY DEF DecodingAll, Decodes
  <2>1. result = "ok"
    BY DEF TypeOK, Results, Decoding
  <2>2. QED
    BY <2>1 DEF Decoding
<1>4. QED
  BY <1>1, <1>2, <1>3, TypeCorrect, PTL DEF Spec

-----------------------------------------------------------------------------
\* What Terminates rests on besides fairness: the bytes ahead and the stages left.
Stages == IF result = "start" THEN 2 ELSE IF result = "run" THEN 1 ELSE 0
Ahead == Len(payload) - pos + Stages

\* Every step of the parser uses up some of what is ahead, an empty TLV as well,
\* so the loop ends on every payload (pdu.rs:88-118).
THEOREM ParserRunsOut == Spec => [](Ahead \in Nat) /\ [][Ahead' < Ahead]_vars
<1>1. TypeOK => Ahead \in Nat
  <2> SUFFICES ASSUME TypeOK PROVE Ahead \in Nat
    OBVIOUS
  <2>1. pos \in Nat /\ Len(payload) \in Nat /\ pos <= Len(payload)
    BY PayloadAssumption, LenProperties DEF TypeOK
  <2>2. Stages \in Nat
    BY DEF Stages
  <2>3. QED
    BY <2>1, <2>2 DEF Ahead
<1>2. TypeOK /\ [Next]_vars => [Ahead' < Ahead]_vars
  <2> SUFFICES ASSUME TypeOK, Next PROVE Ahead' < Ahead
    OBVIOUS
  <2>1. pos \in Nat /\ Len(payload) \in Nat
    BY PayloadAssumption, LenProperties DEF TypeOK
  <2>2. CASE Push
    <3>1. /\ pos' = pos + 2 + LengthAt(pos) /\ LengthAt(pos) \in Nat
          /\ payload' = payload /\ result' = result
      BY <2>2, PushStep DEF After
    <3>2. Stages' = Stages /\ Stages \in Nat
      BY <3>1 DEF Stages
    <3>3. QED
      BY <2>1, <3>1, <3>2 DEF Ahead
  <2>3. CASE ~Push
    <3>1. UNCHANGED <<payload, pos>>
      BY <2>3 DEF Next, NotLldp, IsLldp, WrongLength, Panic, Finish
    <3>2. \/ result = "start" /\ result' \in {"run", "not lldp"}
          \/ result = "run" /\ result' \in {"ok", "wrong length", "panic"}
      BY <2>3 DEF Next, NotLldp, IsLldp, WrongLength, Panic, Finish, More
    <3>3. Stages' < Stages /\ Stages \in Nat /\ Stages' \in Nat
      <4>1. CASE result = "start" /\ result' \in {"run", "not lldp"}
        <5>1. Stages = 2
          BY <4>1 DEF Stages
        <5>2. result' # "start"
          BY <4>1
        <5>3. Stages' \in {0, 1}
          BY <5>2 DEF Stages
        <5>4. QED
          BY <5>1, <5>3
      <4>2. CASE result = "run" /\ result' \in {"ok", "wrong length", "panic"}
        <5>1. Stages = 1
          BY <4>2 DEF Stages
        <5>2. result' # "start" /\ result' # "run"
          BY <4>2
        <5>3. Stages' = 0
          BY <5>2 DEF Stages
        <5>4. QED
          BY <5>1, <5>3
      <4>3. QED
        BY <3>2, <4>1, <4>2
    <3>4. QED
      BY <2>1, <3>1, <3>3 DEF Ahead
  <2>4. QED
    BY <2>2, <2>3
<1>3. QED
  BY <1>1, <1>2, TypeCorrect, PTL DEF Spec
=============================================================================
