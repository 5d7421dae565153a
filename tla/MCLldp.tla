------------------------------- MODULE MCLldp -------------------------------
(***************************************************************************)
(* Payloads to parse: every short string over the bytes that matter to the *)
(* parser, and the encodings of lists of well-formed TLVs in sequence,     *)
(* against which the result is compared.                                   *)
(***************************************************************************)
EXTENDS Lldp, FiniteSets, SequencesExt

\* Headers of all types and lengths 0 and 1 (or 512 and more), address families.
Bytes == {0, 1, 2, 3, 4, 6, 14, 16, 254}
Raw   == UNION {[1 .. n -> Bytes] : n \in 0 .. 4}

tlv(type, value) == [type |-> type, value |-> value]
IPv4 == <<10, 0, 0, 1>>
IPv6 == [k \in 1 .. 16 |-> k]

\* Well-formed TLVs of every kind but chassis identifiers that are MAC addresses.
Chassis == {tlv(ChassisId, <<7, 65>>), tlv(ChassisId, <<5, 1>> \o IPv4)}
Ports ==
    {tlv(PortId, <<3, 1, 2, 3, 4, 5, 6>>),
     tlv(PortId, <<4, 2>> \o IPv6),
     tlv(PortId, <<5, 66>>)}
Others ==
    {tlv(PortDescription, <<>>),
     tlv(SystemName, <<67, 68>>),
     tlv(SystemDescription, [k \in 1 .. 255 |-> 69]),
     tlv(SystemCapabilities, <<0, 4, 0, 4>>),
     tlv(ManagementAddress, <<5, 1>> \o IPv4 \o <<2, 0, 0, 0, 1, 0>>),
     tlv(ManagementAddress, <<17, 2>> \o IPv6 \o <<2, 0, 0, 0, 1, 0>>),
     tlv(OrganizationSpecific, <<0, 18, 15, 1>>),
     tlv(9, <<1>>)}
Ends == {<<>>, <<tlv(EndOfLLDPDU, <<>>)>>}

\* What every frame starts with, then none, one or (after one of the starts) two
\* of the others, with and without an end.
Starts == {<<c, p, tlv(Ttl, <<0, 120>>)>> : c \in Chassis, p \in Ports}
Lists == {s \o e : s \in Starts, e \in Ends}
         \cup {s \o <<t>> \o e : s \in Starts, t \in Others, e \in Ends}
         \cup {(CHOOSE s \in Starts : TRUE) \o <<t, u>> \o e : t, u \in Others, e \in Ends}

encode(t) == <<2 * t.type + Len(t.value) \div 256, Len(t.value) % 256>> \o t.value
Encoding(s) == FlattenSeq([k \in 1 .. Len(s) |-> encode(s[k])])

Put(l, t) == Append(l, [type |-> t.type, value |-> t.value,
                        at |-> IF l = <<>> THEN 0 ELSE End(Last(l))])
Place(s) == FoldLeft(Put, <<>>, s)
MCLayouts == {Place(s) : s \in {l \in Lists : InSequence(l)}}

MCPayloads == Raw \cup {Encoding(l) : l \in MCLayouts}

\* A system description of 256 bytes, the ninth bit of its length set.
MCLong == {encode(tlv(SystemDescription, [k \in 1 .. 256 |-> 69]))}

\* Decodes is about all of them, and holds for them.
ASSUME LayoutsDecodable ==
    /\ \A l \in MCLayouts : \A k \in 1 .. Len(l) : WellFormed(l[k])
    /\ NoMacChassis
=============================================================================
