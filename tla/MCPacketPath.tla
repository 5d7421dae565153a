---------------------------- MODULE MCPacketPath ----------------------------
(***************************************************************************)
(* Two taps and two mirrors; addresses, ports and protocols on both sides  *)
(* of every comparison, packets too short for each header, packets with    *)
(* nothing, a part and all of a tunnel's metadata; three xdpdump processes *)
(* that contend for one tap.                                               *)
(***************************************************************************)
EXTENDS PacketPath

CONSTANTS t1, t2, m1, m2

A4 == <<10, 0, 0, 1>>
B4 == <<10, 0, 0, 2>>
A6 == [i \in 1 .. 16 |-> IF i = 16 THEN 1 ELSE 10]
B6 == [i \in 1 .. 16 |-> IF i = 16 THEN 2 ELSE 10]

\* Positional options: a later one is given only with all before it
Opts(src, mirror, flags, args) ==
    LET Arg(i) == IF i <= Len(args) THEN <<args[i]>> ELSE <<>>
    IN  [tool |-> "portmirror", src |-> src, mirror |-> mirror,
         attach |-> "a" \in flags, detach |-> "d" \in flags,
         ingress |-> "i" \in flags, egress |-> "e" \in flags,
         saddr |-> Arg(1), daddr |-> Arg(2), sport |-> Arg(3), dport |-> Arg(4), proto |-> Arg(5)]

Command(iface, ports, flags) ==
    [tool |-> "erspan", src |-> <<iface>>, ports |-> [i \in 1 .. ports |-> 8000 + i],
     attach |-> "a" \in flags, detach |-> "d" \in flags, destroy |-> "D" \in flags]

Pkt(type, len, src, dst, proto, sport, dport, tun) ==
    [type |-> type, len |-> len, ihl |-> 5, src |-> src, dst |-> dst,
     proto |-> proto, sport |-> sport, dport |-> dport, tun |-> tun]

MCCommands ==
    { Opts(<<t1, t2>>, m1, {"a"}, <<A4>>),
      Opts(<<t1>>, m2, {"a", "d", "i"}, <<Zero(4), B4>>),
      Opts(<<t1>>, m1, {"a", "e"}, <<A6, Zero(16), 0, 8080>>),
      Opts(<<t2>>, m2, {"a", "i", "e"}, <<>>),
      Opts(<<t1, t2>>, m1, {"d"}, <<>>),
      Opts(<<t2>>, m1, {"a", "d"}, <<A4, B4, 8080, 53, 17>>),
      Command(t1, 10, {"a"}),
      Command(t1, 11, {"a", "d"}),
      Command(t1, 0, {"a", "D"}) }

\* Filters on the destination of IPv6 packets
MCCommands6 == { Opts(<<t1>>, m1, {"a", "i"}, <<Zero(16), B6>>),
                 Opts(<<t1>>, m1, {"a", "i"}, <<A6, B6>>) }

MCDumps == { [ifindex |-> t1, arp |-> a] : a \in {<<A4>>, <<B4>>, <<>>} }

P53   == <<0, 53>>
P8080 == <<31, 144>>

MCPackets ==
    { Pkt("ip4", 54, A4, B4, 6, P53, P8080, "none"),
      Pkt("ip4", 42, A4, B4, 6, P53, P8080, "options"),
      Pkt("ip4", 42, A4, B4, 17, P8080, P53, "options"),
      Pkt("ip4", 41, A4, B4, 17, P8080, P53, "key"),
      Pkt("ip4", 42, B4, A4, 17, P8080, P53, "none"),
      Pkt("ip6", 62, A6, B6, 17, P53, P8080, "key"),
      Pkt("ip6", 62, A6, B6, 17, P8080, P53, "options"),
      Pkt("ip6", 74, B6, A6, 6, P53, P8080, "none"),
      Pkt("arp", 60, B4, A4, 0, Zero(2), Zero(2), "none"),
      Pkt("arp", 42, B4, A4, 0, Zero(2), Zero(2), "options"),
      Pkt("arp", 43, A4, B4, 0, Zero(2), Zero(2), "none") }
=============================================================================
