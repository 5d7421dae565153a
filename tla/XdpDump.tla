------------------------------ MODULE XdpDump ------------------------------
(***************************************************************************)
(* ebpf/xdpdump: a process that attaches a program to an interface's XDP   *)
(* hook and sleeps; the program reports ARP frames for one address and     *)
(* passes every frame on.  PacketPath runs the processes.                  *)
(***************************************************************************)
EXTENDS Naturals

\* The addresses user space stores: that of --arp, if there is one
Filterlist(p) == {p.arp[i] : i \in DOMAIN p.arp}

\* An Ethernet header and an ARP packet
HeadersLen == 14 + 28

\* Frames of exactly the headers' length are passed over; the address looked
\* up is the target's (tpa)
xdp_dump(filterlist, k) ==
    k.len > HeadersLen /\ k.type = "arp" /\ k.dst \in filterlist
=============================================================================
