----------------------------- MODULE PortMirror -----------------------------
(***************************************************************************)
(* ebpf/portmirror: a command that loads a classifier for every tap        *)
(* interface and attaches it to, or detaches it from, the interface's tc   *)
(* hooks, and the classifier itself, which clones packets to a mirror      *)
(* interface.  User space stores one filter key and the set of fields to   *)
(* compare (hash_type); the kernel side makes a key from each packet and   *)
(* looks it up.  PacketPath runs the commands.                             *)
(*                                                                         *)
(* A packet is a record of what the programs read: its type, its length,   *)
(* the length of its IPv4 header in words, its addresses and ports as the  *)
(* bytes on the wire.  An Option is a sequence of at most one element.     *)
(***************************************************************************)
EXTENDS Naturals, Sequences, TcHooks

(* User space                                                              *)

Octet == 0 .. 255
U16 == 0 .. 65535
Bytes(n) == [1 .. n -> Octet]
IsOption(option, S) == option = <<>> \/ (option = <<option[1]>> /\ option[1] \in S)

\* What clap accepts: addresses of either version, 16-bit ports
MirrorOptions(o) ==
    /\ {o.ingress, o.egress} \subseteq BOOLEAN
    /\ \A a \in {o.saddr, o.daddr} : IsOption(a, Bytes(4)) \/ IsOption(a, Bytes(16))
    /\ \A p \in {o.sport, o.dport} : IsOption(p, U16)
    /\ IsOption(o.proto, Octet)

\* The addresses of an IP packet are its version's, its ports two bytes each
IpPacket(k) ==
    /\ \A a \in {k.src, k.dst} : a \in Bytes(IF k.type = "ip4" THEN 4 ELSE 16)
    /\ \A p \in {k.sport, k.dport} : p \in Bytes(2)

unwrap_or(option, default) == IF option = <<>> THEN default ELSE option[1]

Zero(n) == [i \in 1 .. n |-> 0]

\* Big-endian in memory, a V4 address in the first four of sixteen bytes
ip_to_bytes(ip) == [i \in 1 .. 16 |-> IF i <= Len(ip) THEN ip[i] ELSE 0]

to_be(port) == <<port \div 256, port % 256>>

FlowKey(o) ==
    LET sip == unwrap_or(o.saddr, Zero(4))
    IN  [saddr      |-> ip_to_bytes(sip),
         daddr      |-> ip_to_bytes(unwrap_or(o.daddr, Zero(4))),
         sport      |-> to_be(unwrap_or(o.sport, 0)),
         dport      |-> to_be(unwrap_or(o.dport, 0)),
         proto      |-> unwrap_or(o.proto, 0),
         ip_version |-> IF Len(sip) = 4 THEN 4 ELSE 6]

HashTypes == {"SRC", "DST", "SPORT", "DPORT", "PROTO"}

\* Fault: the port of the destination is not compared
FaultHashType(o) ==
    LET key == FlowKey(o)
    IN  {f \in HashTypes : CASE f = "SRC"   -> key.saddr # Zero(16)
                             [] f = "DST"   -> key.daddr # Zero(16)
                             [] f = "SPORT" -> key.sport # Zero(2)
                             [] f = "DPORT" -> FALSE
                             [] f = "PROTO" -> key.proto # 0}
HashType(o) ==
    LET key == FlowKey(o)
    IN  {f \in HashTypes : CASE f = "SRC"   -> key.saddr # Zero(16)
                             [] f = "DST"   -> key.daddr # Zero(16)
                             [] f = "SPORT" -> key.sport # Zero(2)
                             [] f = "DPORT" -> key.dport # Zero(2)
                             [] f = "PROTO" -> key.proto # 0}

NoMap == [t \in {} |-> t]

\* The program with its maps as it is loaded, mirror_map still empty
MirrorLoaded(o) ==
    [prog |-> "port_mirror",
     hash_type |-> HashType(o), filter_map |-> {FlowKey(o)}, mirror_map |-> NoMap]

\* The slots a command attaches, in the order of the calls
Attached(o) ==
    (IF o.ingress THEN <<"ingress">> ELSE <<>>)
 \o (IF o.egress THEN <<"egress">> ELSE <<>>)
 \o (IF ~o.ingress /\ ~o.egress THEN <<"egress", "ingress", "custom">> ELSE <<>>)

\* The calls one turn of the loop over the taps makes once it has loaded
MirrorScript(o) ==
    DetachCalls(o)
 \o (IF o.attach
     THEN <<<<"mirror_map", "tap">>, <<"create", "ingress">>>> \o Calls("attach", Attached(o))
     ELSE <<>>)

-----------------------------------------------------------------------------
(* The classifier                                                          *)

TCP == 6

\* What the bounds checks let through: an IP packet with its transport header
Readable(k) ==
    /\ k.type \in {"ip4", "ip6"}
    /\ k.len >= 14 + (IF k.type = "ip4" THEN 20 ELSE 40)
    /\ k.len >= 14 + (IF k.type = "ip4" THEN 4 * k.ihl ELSE 40)
                   + (IF k.proto = TCP THEN 20 ELSE 8)

\* Line 156 fills the IPv6 destination from the source
PktKey(types, k) ==
    LET If(f, value, zero) == IF f \in types THEN value ELSE zero
    IN  [saddr      |-> If("SRC", ip_to_bytes(k.src), Zero(16)),
         daddr      |-> If("DST", ip_to_bytes(IF k.type = "ip4" THEN k.dst ELSE k.src), Zero(16)),
         sport      |-> If("SPORT", k.sport, Zero(2)),
         dport      |-> If("DPORT", k.dport, Zero(2)),
         proto      |-> If("PROTO", k.proto, 0),
         ip_version |-> IF k.type = "ip4" THEN 4 ELSE 6]

\* Program g clones packet k of interface ifindex; TC_ACT_OK in every case
port_mirror(g, ifindex, k) ==
    IF g.hash_type = {} \/ (Readable(k) /\ PktKey(g.hash_type, k) \in g.filter_map)
    THEN CloneTo({g.mirror_map[t] : t \in DOMAIN g.mirror_map \cap {ifindex}})
    ELSE Pass

-----------------------------------------------------------------------------
(* What a command line asks for                                            *)

\* The directions a command mirrors
Wants(o) == IF o.ingress = o.egress THEN Directions
            ELSE IF o.ingress THEN {"ingress"} ELSE {"egress"}

Given(option) == option # <<>> /\ option[1] # Zero(Len(option[1]))

\* A packet that agrees with every option given that is not zero; with none,
\* every packet.  The first address says which version of IP is meant; the
\* ports are the first words after the IP header, whatever the protocol.
Matches(o, k) ==
    LET Port(option, wire) == unwrap_or(option, 0) \in {0, 256 * wire[1] + wire[2]}
        none == /\ ~Given(o.saddr) /\ ~Given(o.daddr)
                /\ \A p \in {o.sport, o.dport, o.proto} : unwrap_or(p, 0) = 0
    IN  none \/ /\ Readable(k)
                /\ Len(k.src) = Len(unwrap_or(o.saddr, Zero(4)))
                /\ Given(o.saddr) => k.src = o.saddr[1]
                /\ Given(o.daddr) => k.dst = o.daddr[1]
                /\ Port(o.sport, k.sport) /\ Port(o.dport, k.dport)
                /\ unwrap_or(o.proto, 0) \in {0, k.proto}

\* What becomes of a packet on a tap that only this command is in force on
MirrorAsked(o, d, k) ==
    IF d \in Wants(o) /\ Matches(o, k) THEN CloneTo({o.mirror}) ELSE Pass
=============================================================================
