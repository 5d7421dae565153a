-------------------------------- MODULE Lldp --------------------------------
(***************************************************************************)
(* network/lldp: Lldpdu::parser, which decodes the TLVs (type, length,     *)
(* value) of a received LLDP frame.                                        *)
(*                                                                         *)
(* One step is one turn of from_bytes' loop.  pos counts from 0 as in the  *)
(* code; the byte at pos is payload[pos + 1].  A decoded TLV is its type,  *)
(* the length its struct keeps, the position of its header and the bytes   *)
(* its value was made from; their rendering as text is left out.           *)
(***************************************************************************)
EXTENDS Integers, Sequences

CONSTANTS Payloads,  \* what may follow the Ethernet header
          Layouts    \* lists of TLVs at their positions in a payload

Byte == 0 .. 255
Types == 0 .. 127      \* what the header's type and length fields come out as
Lengths == 0 .. 767
Placed == [type : Types, value : Seq(Byte), at : Nat]
ASSUME PayloadAssumption == Payloads \subseteq Seq(Byte)
ASSUME LayoutAssumption == Layouts \subseteq Seq(Placed)

VARIABLES kind,     \* the frame: "lldp", another EtherType, or too short
          payload, pos, tlvs, result

vars == <<kind, payload, pos, tlvs, result>>

\* TlvType
EndOfLLDPDU == 0
ChassisId == 1
PortId == 2
Ttl == 3
SystemCapabilities == 7
ManagementAddress == 8
OrganizationSpecific == 127
PortDescription == 4
SystemName == 5
SystemDescription == 6

-----------------------------------------------------------------------------
(***************************************************************************)
(* The parsers of the TLVs.  Each is given the length and all the bytes v  *)
(* that follow the header.  use(need, a, b): the value is v[a..b] (a and b *)
(* counted from 0, b excluded), and v[need - 1] is read on the way.        *)
(***************************************************************************)
use(need, a, b) == [need |-> need, a |-> a, b |-> b]

\* subtype and address family, read only when they are there
At(v, k) == IF k < Len(v) THEN v[k + 1] ELSE 0

\* The address in a network address: IPv4, IPv6, or something else.
Address(length, v) ==
    CASE At(v, 1) = 1 -> use(2, 2, 6)
      [] At(v, 1) = 2 -> use(2, 2, 18)
      [] OTHER        -> use(2, 2, length)

chassis_id(length, v) ==
    CASE At(v, 0) = 4 -> use(1, 0, 6)
      [] At(v, 0) = 5 -> Address(length, v)
      [] OTHER        -> use(1, 1, length)

\* Fault: the address is taken from the subtype on.
port_idEarly(length, v) ==
    CASE At(v, 0) = 3 -> use(1, 0, 6)
      [] At(v, 0) = 4 -> Address(length, v)
      [] OTHER        -> use(1, 1, length)

port_id(length, v) ==
    CASE At(v, 0) = 3 -> use(1, 1, 7)
      [] At(v, 0) = 4 -> Address(length, v)
      [] OTHER        -> use(1, 1, length)

management_address(length, v) ==
    CASE At(v, 1) = 1 -> use(2, 2, 6)
      [] At(v, 1) = 2 -> use(2, 2, 18)
      [] OTHER        -> use(2, 0, 0)

\* Texts and reserved types are taken whole.
Parser(type, length, v) ==
    CASE type = ChassisId            -> chassis_id(length, v)
      [] type = PortId               -> port_id(length, v)
      [] type = Ttl                  -> use(0, 0, 2)
      [] type = SystemCapabilities   -> use(0, 0, 4)
      [] type = ManagementAddress    -> management_address(length, v)
      [] type = OrganizationSpecific -> use(0, 0, 0)
      [] type = EndOfLLDPDU          -> use(0, 0, 0)
      [] OTHER                       -> use(0, 0, length)

\* The len each parser puts in its struct; EndOfPdu has none.
Kept(type, length) ==
    CASE type = Ttl                -> 2
      [] type = SystemCapabilities -> 4
      [] type = EndOfLLDPDU        -> 0
      [] OTHER                     -> length

\* An index or a slice out of range panics.
Panics(u, v) == u.need > Len(v) \/ u.a > u.b \/ u.b > Len(v)

-----------------------------------------------------------------------------
(***************************************************************************)
(* from_bytes                                                              *)
(***************************************************************************)
LengthAt(p) == (payload[p + 1] % 2) * 512 + payload[p + 2]

Type   == payload[pos + 1] \div 2
Length == LengthAt(pos)
Rest   == SubSeq(payload, pos + 3, Len(payload))

\* Fault: the header is not counted.
FitsBare == Len(payload) >= pos + Length

Fits == Len(payload) >= pos + 2 + Length

More == result = "run" /\ pos + 1 < Len(payload)

WrongLength ==
    /\ More /\ ~Fits
    /\ result' = "wrong length"
    /\ UNCHANGED <<kind, payload, pos, tlvs>>

Panic ==
    /\ More /\ Fits
    /\ Panics(Parser(Type, Length, Rest), Rest)
    /\ result' = "panic"
    /\ UNCHANGED <<kind, payload, pos, tlvs>>

\* Fault: the position advances by the value only.
PushShort ==
    LET u == Parser(Type, Length, Rest)
    IN  /\ More /\ Fits
        /\ ~Panics(u, Rest)
        /\ tlvs' = Append(tlvs, [type |-> Type, len |-> Kept(Type, Length),
                                 at |-> pos, value |-> SubSeq(Rest, u.a + 1, u.b)])
        /\ pos' = pos + Length
        /\ UNCHANGED <<kind, payload, result>>

Push ==
    LET u == Parser(Type, Length, Rest)
    IN  /\ More /\ Fits
        /\ ~Panics(u, Rest)
        /\ tlvs' = Append(tlvs, [type |-> Type, len |-> Kept(Type, Length),
                                 at |-> pos, value |-> SubSeq(Rest, u.a + 1, u.b)])
        /\ pos' = pos + 2 + Length
        /\ UNCHANGED <<kind, payload, result>>

\* Fault: the loop only ends exactly at the end of the payload.
FinishExact ==
    /\ result = "run" /\ pos = Len(payload)
    /\ result' = "ok"
    /\ UNCHANGED <<kind, payload, pos, tlvs>>

Finish ==
    /\ result = "run" /\ ~(pos + 1 < Len(payload))
    /\ result' = "ok"
    /\ UNCHANGED <<kind, payload, pos, tlvs>>

\* parser: is_lldp, then from_bytes
NotLldp ==
    /\ result = "start" /\ kind # "lldp"
    /\ result' = "not lldp"
    /\ UNCHANGED <<kind, payload, pos, tlvs>>

IsLldp ==
    /\ result = "start" /\ kind = "lldp"
    /\ result' = "run"
    /\ UNCHANGED <<kind, payload, pos, tlvs>>

Init ==
    /\ kind \in {"lldp", "other", "short"}
    /\ payload \in Payloads
    /\ pos = 0
    /\ tlvs = <<>>
    /\ result = "start"

Next == NotLldp \/ IsLldp \/ WrongLength \/ Panic \/ Push \/ Finish

Spec == Init /\ [][Next]_vars
FairSpec == Spec /\ WF_vars(Next)

-----------------------------------------------------------------------------
(***************************************************************************)
(* Properties                                                              *)
(***************************************************************************)
Results == {"start", "run", "not lldp", "ok", "wrong length", "panic"}

\* Every variable keeps its type, and pos never leaves the payload: the two
\* header bytes are there whenever they are read.
TypeOK ==
    /\ kind \in {"lldp", "other", "short"}
    /\ payload \in Payloads
    /\ pos \in 0 .. Len(payload)
    /\ tlvs \in Seq([type : Types, len : Lengths, at : Nat, value : Seq(Byte)])
    /\ result \in Results

\* Where the TLV whose header is at p ends.
After(p) == p + 2 + LengthAt(p)

\* The TLVs tile the payload: each starts where the one before ends, the first at
\* its start, and only one byte too few for a header may be left at the end.
Tiles ==
    /\ \A k \in 1 .. Len(tlvs) :
          /\ tlvs[k].at = IF k = 1 THEN 0 ELSE After(tlvs[k - 1].at)
          /\ After(tlvs[k].at) <= Len(payload)
    /\ pos = IF tlvs = <<>> THEN 0 ELSE After(tlvs[Len(tlvs)].at)
    /\ result = "ok" => Len(payload) - pos <= 1

\* What IEEE 802.1AB asks of a TLV, as far as its content depends on it, for values
\* of less than 256 bytes.  Management addresses other than IPv4 and IPv6, which
\* the code does not keep, are left out.
IsId(t)      == t.type \in {ChassisId, PortId}
IsMac(t)     == t.value[1] = IF t.type = ChassisId THEN 4 ELSE 3
IsNetwork(t) == t.value[1] = IF t.type = ChassisId THEN 5 ELSE 4
WellFormed(t) ==
    LET v == t.value  n == Len(v)
    IN  /\ n < 256
        /\ IsId(t) => /\ n > 1
                      /\ IsMac(t) => n = 7
                      /\ IsNetwork(t) /\ v[2] = 1 => n = 6
                      /\ IsNetwork(t) /\ v[2] = 2 => n = 18
        /\ t.type = Ttl => n = 2
        /\ t.type = SystemCapabilities => n = 4
        /\ t.type = ManagementAddress => /\ n > 1
                                         /\ n > v[1]
                                         /\ \/ v[1] = 5 /\ v[2] = 1
                                            \/ v[1] = 17 /\ v[2] = 2
        /\ t.type = EndOfLLDPDU => n = 0

\* And of their sequence: the chassis, the port and the time to live first, none
\* of the types below ManagementAddress twice, nothing after an end.
InSequence(l) ==
    /\ Len(l) >= 3
    /\ l[1].type = ChassisId /\ l[2].type = PortId /\ l[3].type = Ttl
    /\ \A j, k \in 1 .. Len(l) :
          l[j].type = l[k].type /\ l[j].type < ManagementAddress => j = k
    /\ \A k \in 1 .. Len(l) : l[k].type = EndOfLLDPDU => k = Len(l)

\* Its content: an identifier without its subtype and address family, a management
\* address as long as its own length says, all of any other.  Of one that is
\* specific to an organization nothing is kept.
Content(t) ==
    LET v == t.value
    IN  CASE IsId(t) -> SubSeq(v, IF IsNetwork(t) THEN 3 ELSE 2, Len(v))
          [] t.type = ManagementAddress -> SubSeq(v, 3, v[1] + 1)
          [] t.type = OrganizationSpecific -> <<>>
          [] OTHER -> v

\* The payload consists of the TLVs of l, one after the other.
End(t) == t.at + 2 + Len(t.value)
Holds(t) == /\ End(t) <= Len(payload)
            /\ payload[t.at + 1] = 2 * t.type
            /\ payload[t.at + 2] = Len(t.value)
            /\ \A i \in 1 .. Len(t.value) : payload[t.at + 2 + i] = t.value[i]
Lays(l) ==
    /\ Len(payload) = IF l = <<>> THEN 0 ELSE End(l[Len(l)])
    /\ InSequence(l)
    /\ \A k \in 1 .. Len(l) : /\ l[k].at = IF k = 1 THEN 0 ELSE End(l[k - 1])
                              /\ WellFormed(l[k])
                              /\ Holds(l[k])

\* What a decoded TLV has of the one in the payload.
Shows(d, t) == d.type = t.type /\ d.len = Len(t.value) /\ d.value = Content(t)

\* No TLV of the layouts is a chassis identifier that is a MAC address: of those
\* chassis_id.rs:17 takes the subtype and the first five bytes.
NoMacChassis ==
    \A l \in Layouts : \A k \in 1 .. Len(l) : ~(l[k].type = ChassisId /\ IsMac(l[k]))

\* A payload of well-formed TLVs in sequence is decoded: every one of them, its
\* type, its length and its content, and nothing else.  It holds under NoMacChassis;
\* of payloads out of sequence or malformed it says nothing.
Decodes ==
    result \notin {"start", "run", "not lldp"} =>
        \A l \in Layouts : Lays(l) =>
            /\ result = "ok"
            /\ Len(tlvs) = Len(l)
            /\ \A k \in 1 .. Len(l) : Shows(tlvs[k], l[k])

\* from_bytes returns on every payload: an empty TLV advances it as well.
Terminates == <>(result \notin {"start", "run"})

\* pdu.rs:91: "First 7 bits are type and last 9 bits are length".
Nine(k) == (payload[k + 1] % 2) * 256 + payload[k + 2]
NineBits ==
    /\ \A k \in 1 .. Len(tlvs) :
          (IF k = Len(tlvs) THEN pos ELSE tlvs[k + 1].at) = tlvs[k].at + 2 + Nine(tlvs[k].at)
    /\ result = "wrong length" => Len(payload) < pos + 2 + Nine(pos)
=============================================================================
