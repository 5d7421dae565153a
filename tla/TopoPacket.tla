----------------------------- MODULE TopoPacket -----------------------------
(***************************************************************************)
(* The discovery frame of network/topology: what packet::builder puts on   *)
(* the wire and what packet::parse reads back.                             *)
(*                                                                         *)
(* The Ethernet, VLAN and ARP headers are written and read by pnet field   *)
(* by field, so they are record fields here.  What builder appends after   *)
(* the ARP header (two length-prefixed names and the big-endian VLAN id)   *)
(* is laid out by hand in the source and is kept byte by byte.  A name is  *)
(* the sequence of its UTF-8 bytes.                                        *)
(***************************************************************************)
EXTENDS Integers, Sequences

CONSTANTS Macs,      \* unicast hardware addresses
          Broadcast  \* ff:ff:ff:ff:ff:ff

ASSUME BroadcastAssumption == Broadcast \notin Macs

\* A byte has Radix values; a u16 is two of them, high byte first.
Radix == 256
Byte  == 0 .. Radix - 1
U16   == 0 .. Radix * Radix - 1

\* packet_size() of the three pnet headers.
EthLen  == 14
VlanLen == 4
ArpLen  == 28

SendBuf == 256    \* let mut buf = [0u8; 256] in send_packet
RecvBuf == 1024   \* let mut buf: [u8; 1024] in recv_packet

HeaderLen(tagged) == EthLen + (IF tagged THEN VlanLen ELSE 0) + ArpLen

\* `as u8` keeps the low eight bits; the VLAN id field is twelve bits wide.
TagRadix == 4096
Vid      == 0 .. TagRadix - 1
AsU8(n)  == n % Radix
AsVid(v) == v % TagRadix

Request == 3
Reply   == 4

(***************************************************************************)
(* builder                                                                 *)
(***************************************************************************)
Payload(nic, host, vlan) ==
    <<AsU8(Len(nic))>> \o nic \o <<AsU8(Len(host))>> \o host
        \o <<vlan \div Radix, vlan % Radix>>

\* Fault: the destination address is written into both address fields.
builderSameAddress(nic, mac, dst, vlan, host) ==
    [dst |-> dst, src |-> dst, tagged |-> vlan # 0, vid |-> AsVid(vlan),
     op |-> IF dst = Broadcast THEN Request ELSE Reply,
     data |-> Payload(nic, host, vlan)]

\* vlan 0 means no tag at all
builder(nic, mac, dst, vlan, host) ==
    [dst    |-> dst,
     src    |-> mac,
     tagged |-> vlan # 0,
     vid    |-> AsVid(vlan),
     op     |-> IF dst = Broadcast THEN Request ELSE Reply,
     data   |-> Payload(nic, host, vlan)]

\* buf[start..end] is in range of the 256-byte buffer; the code panics otherwise.
BuilderFits(f) == HeaderLen(f.tagged) + Len(f.data) <= SendBuf

\* The frame with or without its tag: the kernel takes it off on reception.
Retag(f, tag) == [f EXCEPT !.tagged = tag]

Frames == [dst : Macs \cup {Broadcast}, src : Macs, tagged : BOOLEAN,
           vid : Vid, op : {Request, Reply}, data : Seq(Byte)]

(***************************************************************************)
(* parse.  The receive buffer is zeroed before every read, so a byte past  *)
(* the frame's data is 0.  The socket is opened for ETH_P_AARP (main.rs:97)*)
(* and the kernel gives it no other frames, so parse's None for another    *)
(* EtherType does not occur; AARP frames of other programs are left out.   *)
(***************************************************************************)
At(f, i) == IF i < Len(f.data) THEN f.data[i + 1] ELSE 0

\* Fault: the second length is read one byte early, from the end of the first name.
HostLenEarly(f) == At(f, At(f, 0))

NicLen(f)  == At(f, 0)
HostLen(f) == At(f, NicLen(f) + 1)

\* One past the last index of the receive buffer that parse slices.
ParseEnd(f) == HeaderLen(f.tagged) + NicLen(f) + HostLen(f) + 4

\* Fault: the VLAN id is read low byte first.
parseLittleEndian(f) ==
    LET n == NicLen(f)
        h == HostLen(f)
    IN  [peer    |-> [host |-> [k \in 1 .. h |-> At(f, n + 1 + k)],
                      nic  |-> [k \in 1 .. n |-> At(f, k)],
                      mac  |-> f.src,
                      vlan |-> At(f, n + h + 2) + Radix * At(f, n + h + 3)],
         request |-> f.op = Request]

parse(f) ==
    LET n == NicLen(f)
        h == HostLen(f)
    IN  [peer    |-> [host |-> [k \in 1 .. h |-> At(f, n + 1 + k)],
                      nic  |-> [k \in 1 .. n |-> At(f, k)],
                      mac  |-> f.src,
                      vlan |-> Radix * At(f, n + h + 2) + At(f, n + h + 3)],
         request |-> f.op = Request]

Peers == [host : Seq(Byte), nic : Seq(Byte),
          mac : Macs \cup {Broadcast}, vlan : U16]
=============================================================================
