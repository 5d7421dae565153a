------------------------------ MODULE Topology ------------------------------
(***************************************************************************)
(* network/topology: processes that discover which interfaces reach which  *)
(* over a switched Ethernet.                                               *)
(*                                                                         *)
(* Each host runs one process.  main broadcasts a request on every used    *)
(* interface and VLAN; a recv_packet task per interface parses what        *)
(* arrives, hands requests to the send_packet task, which answers them     *)
(* with a unicast reply, and hands every peer to the show_topo task, which *)
(* keeps the table of connections and prints it.  Tasks run in parallel    *)
(* (multi-threaded tokio) and talk through two unbounded channels.         *)
(*                                                                         *)
(* An interface stands for its ifindex.  The switch and the kernel are     *)
(* external: Reach says which interfaces a frame sent on an interface with *)
(* a given VLAN tag can be delivered to.  Frames in flight are a set: they *)
(* arrive in any order, and two equal copies in flight at once are one.    *)
(***************************************************************************)
EXTENDS TopoPacket

CONSTANTS Hosts, Nics,
          HostOf,      \* [Nics -> Hosts]
          NameOf,      \* interface names, as bytes
          MacOf,       \* hardware addresses
          OperState,   \* contents of /sys/class/net/<nic>/operstate
          Physical,    \* interfaces outside /sys/devices/virtual
          Wanted,      \* interfaces that pass the --interface option
          HostName,    \* host names, as bytes
          VlanRanges,  \* the --vlan options of each host
          Reach(_, _), \* interfaces that a frame sent on one with a tag reaches
          Flooding,    \* the switch may flood unicast frames
          Lossy,       \* frames may be lost
          MayPanic     \* the tasks' system calls may fail

ASSUME NicAssumption ==
    /\ HostOf \in [Nics -> Hosts]
    /\ NameOf \in [Nics -> Seq(Byte)]
    /\ MacOf \in [Nics -> Macs]
    /\ OperState \in [Nics -> {"up", "down", "unknown"}]
    /\ Physical \subseteq Nics /\ Wanted \subseteq Nics
ASSUME NameAssumption ==
    /\ HostName \in [Hosts -> Seq(Byte)]
    /\ \A n \in Nics : Len(NameOf[n]) <= 15       \* IFNAMSIZ - 1
    /\ \A h \in Hosts : Len(HostName[h]) <= 192   \* 64 bytes, each at worst
                                                 \* replaced by three

\* vlan_range refuses a range whose end is smaller than its start.
vlan_range(r) == r[1] <= r[2]

ASSUME RangeAssumption ==
    /\ VlanRanges \in [Hosts -> Seq(U16 \X U16)]
    /\ \A h \in Hosts : \A i \in DOMAIN VlanRanges[h] : vlan_range(VlanRanges[h][i])
ASSUME NetworkAssumption ==
    /\ \A n \in Nics : \A t \in Vid : Reach(n, t) \subseteq Nics
    /\ Flooding \in BOOLEAN /\ Lossy \in BOOLEAN /\ MayPanic \in BOOLEAN

VARIABLES phase,       \* where main is
          nics,        \* the interfaces main decided to use
          todo,        \* interfaces main has not started to probe
          cursor,      \* main's loop: interface, index of range, VLAN
          sock,        \* each recv_packet task's socket
          rxq,         \* frames queued on that socket, with their interface
          held,        \* the peer a recv_packet task has still to report
          packetCh,    \* channel to send_packet
          topoCh,      \* channel to show_topo
          sender,      \* the send_packet task
          show,        \* the show_topo task
          connection,  \* the table: (interface, peer, VLAN) entries
          screen,      \* the table as last printed
          wire         \* frames in flight, each with its destination

mainVars  == <<phase, nics, todo, cursor>>
recvVars  == <<sock, rxq, held>>
showVars  == <<show, connection, screen>>
vars == <<mainVars, recvVars, packetCh, topoCh, sender, showVars, wire>>

-----------------------------------------------------------------------------
(***************************************************************************)
(* Messages and tables                                                     *)
(***************************************************************************)
Msgs  == [nic : Nics, peer : Peers]
Nodes == [host : Seq(Byte), nic : Seq(Byte), mac : Macs \cup {Broadcast}]

\* Node of the interface's own process, and of a peer.
NodeOf(m) == [host |-> HostName[HostOf[m]], nic |-> NameOf[m], mac |-> MacOf[m]]
PeerNode(p) == [host |-> p.host, nic |-> p.nic, mac |-> p.mac]

\* Fault: the VLAN is not recorded.
EntryNoVlan(msg) == <<msg.nic, PeerNode(msg.peer), 0>>

\* connection.entry((me, p)) with its sorted, deduplicated vector of VLANs
\* is the set of its entries.
Entry(msg) == <<msg.nic, PeerNode(msg.peer), msg.peer.vlan>>

-----------------------------------------------------------------------------
(***************************************************************************)
(* main                                                                    *)
(***************************************************************************)
NoCursor == [nic |-> "none"]
Cursors  == [nic : Nics, r : Nat, v : U16] \cup {NoCursor}

\* The ranges to probe: the options or 1-4094, and always untagged.
Ranges(h) ==
    Append(IF VlanRanges[h] = <<>> THEN <<<<1, 4094>>>> ELSE VlanRanges[h], <<0, 0>>)

First(h, n) == [nic |-> n, r |-> 1, v |-> Ranges(h)[1][1]]

NicsOf(h) == {n \in Nics : HostOf[n] = h}

\* get_physical_nics unwraps the parse of operstate: only up and down parse.
NicPanic(h) == \E n \in NicsOf(h) \cap Physical : OperState[n] \notin {"up", "down"}

UpNics(h) == {n \in NicsOf(h) \cap Physical \cap Wanted : OperState[n] = "up"}

\* The process ends: its sockets close and its channels go with it.
Exit(h) ==
    /\ phase' = [phase EXCEPT ![h] = "exit"]
    /\ cursor' = [cursor EXCEPT ![h] = NoCursor]
    /\ todo' = [todo EXCEPT ![h] = {}]
    /\ sock' = [n \in Nics |-> IF HostOf[n] = h THEN "dead" ELSE sock[n]]
    /\ rxq' = [n \in Nics |-> IF HostOf[n] = h THEN <<>> ELSE rxq[n]]
    /\ held' = [n \in Nics |-> IF HostOf[n] = h THEN <<>> ELSE held[n]]
    /\ packetCh' = [packetCh EXCEPT ![h] = <<>>]
    /\ topoCh' = [topoCh EXCEPT ![h] = <<>>]
    /\ sender' = [sender EXCEPT ![h] = "end"]
    /\ show' = [show EXCEPT ![h] = "end"]
    /\ UNCHANGED <<connection, screen, wire>>

\* Start of main: choose the interfaces, spawn the tasks, enter the loop.
StartExit(h) ==
    /\ phase[h] = "init"
    /\ NicPanic(h) \/ UpNics(h) = {}
    /\ Exit(h)
    /\ UNCHANGED nics

StartProbe(h) ==
    /\ phase[h] = "init" /\ ~NicPanic(h)
    /\ \E n \in UpNics(h) :
          /\ nics' = [nics EXCEPT ![h] = UpNics(h)]
          /\ todo' = [todo EXCEPT ![h] = UpNics(h) \ {n}]
          /\ cursor' = [cursor EXCEPT ![h] = First(h, n)]
    /\ phase' = [phase EXCEPT ![h] = "send"]
    /\ sock' = [m \in Nics |-> IF m \in UpNics(h) THEN "none" ELSE sock[m]]
    /\ sender' = [sender EXCEPT ![h] = "new"]
    /\ show' = [show EXCEPT ![h] = "recv"]
    /\ UNCHANGED <<rxq, held, packetCh, topoCh, connection, screen, wire>>

\* One turn of the innermost loop: queue a request, advance the three loops.
MainSend(h) ==
    LET c == cursor[h]
        req == [nic |-> c.nic,
                peer |-> [host |-> <<>>, nic |-> <<>>, mac |-> Broadcast, vlan |-> c.v]]
    IN  /\ phase[h] = "send" /\ sender[h] # "end"
        /\ packetCh' = [packetCh EXCEPT ![h] = Append(@, req)]
        /\ \/ /\ c.v < Ranges(h)[c.r][2]
              /\ cursor' = [cursor EXCEPT ![h].v = @ + 1]
              /\ UNCHANGED <<phase, todo>>
           \/ /\ c.v = Ranges(h)[c.r][2] /\ c.r < Len(Ranges(h))
              /\ cursor' = [cursor EXCEPT ![h] = [c EXCEPT !.r = @ + 1,
                                                 !.v = Ranges(h)[c.r + 1][1]]]
              /\ UNCHANGED <<phase, todo>>
           \/ /\ c.v = Ranges(h)[c.r][2] /\ c.r = Len(Ranges(h))
              /\ \E n \in todo[h] :
                    /\ cursor' = [cursor EXCEPT ![h] = First(h, n)]
                    /\ todo' = [todo EXCEPT ![h] = @ \ {n}]
              /\ UNCHANGED phase
           \/ /\ c.v = Ranges(h)[c.r][2] /\ c.r = Len(Ranges(h)) /\ todo[h] = {}
              /\ cursor' = [cursor EXCEPT ![h] = NoCursor]
              /\ phase' = [phase EXCEPT ![h] = "join"]
              /\ UNCHANGED todo
        /\ UNCHANGED <<nics, recvVars, topoCh, sender, showVars, wire>>

\* ptx.send(..).unwrap() once the send_packet task is gone
MainPanic(h) ==
    /\ phase[h] = "send" /\ sender[h] = "end"
    /\ Exit(h)
    /\ UNCHANGED nics

\* main has awaited every handler
MainReturn(h) ==
    /\ phase[h] = "join"
    /\ show[h] = "end" /\ sender[h] = "end"
    /\ \A n \in nics[h] : sock[n] = "dead"
    /\ Exit(h)
    /\ UNCHANGED nics

-----------------------------------------------------------------------------
(***************************************************************************)
(* recv_packet(ptx, ttx, ifindex)                                          *)
(***************************************************************************)
\* Socket::new: until it is bound the socket hears every interface of the host.
NewSocket(n) ==
    /\ sock[n] = "none"
    /\ sock' = [sock EXCEPT ![n] = "unbound"]
    /\ UNCHANGED <<mainVars, rxq, held, packetCh, topoCh, sender, showVars, wire>>

\* set_promiscuous and bind; what was queued before stays queued.
Bind(n) ==
    /\ sock[n] = "unbound"
    /\ sock' = [sock EXCEPT ![n] = "bound"]
    /\ UNCHANGED <<mainVars, rxq, held, packetCh, topoCh, sender, showVars, wire>>

Dies(n) ==
    /\ sock' = [sock EXCEPT ![n] = "dead"]
    /\ rxq' = [rxq EXCEPT ![n] = <<>>]
    /\ held' = [held EXCEPT ![n] = <<>>]

\* sock.recv, parse, and the request's way to send_packet
RecvFrame(n) ==
    LET h   == HostOf[n]
        got == Head(rxq[n])
        p   == parse(got.frame)
        msg == [nic |-> got.nic, peer |-> p.peer]
    IN  /\ sock[n] = "bound" /\ held[n] = <<>> /\ rxq[n] # <<>>
        /\ \/ /\ p.request /\ sender[h] = "end"      \* unwrap of a closed channel
              /\ Dies(n)
              /\ UNCHANGED packetCh
           \/ /\ p.request => sender[h] # "end"
              /\ packetCh' = IF p.request
                             THEN [packetCh EXCEPT ![h] = Append(@, msg)]
                             ELSE packetCh
              /\ held' = [held EXCEPT ![n] = <<msg>>]
              /\ rxq' = [rxq EXCEPT ![n] = Tail(@)]
              /\ UNCHANGED sock
        /\ UNCHANGED <<mainVars, topoCh, sender, showVars, wire>>

\* topo.send((ifindex, peer)).unwrap()
RecvTopo(n) ==
    LET h == HostOf[n]
    IN  /\ held[n] # <<>>
        /\ \/ /\ show[h] = "end"
              /\ Dies(n)
              /\ UNCHANGED topoCh
           \/ /\ show[h] # "end"
              /\ topoCh' = [topoCh EXCEPT ![h] = Append(@, Head(held[n]))]
              /\ held' = [held EXCEPT ![n] = <<>>]
              /\ UNCHANGED <<sock, rxq>>
        /\ UNCHANGED <<mainVars, packetCh, sender, showVars, wire>>

\* socket, setsockopt, bind or recvfrom fails and is unwrapped
RecvPanic(n) ==
    /\ MayPanic
    /\ sock[n] \in {"none", "unbound", "bound"} /\ held[n] = <<>>
    /\ Dies(n)
    /\ UNCHANGED <<mainVars, packetCh, topoCh, sender, showVars, wire>>

\* Fault: main keeps its own senders to the end instead of dropping them.
ClosedLate(h) ==
    /\ phase[h] = "exit"
    /\ \A n \in nics[h] : sock[n] = "dead"

\* Both channels have a sender in main's loop and in every recv_packet task.
Closed(h) ==
    /\ phase[h] # "send"
    /\ \A n \in nics[h] : sock[n] = "dead"

-----------------------------------------------------------------------------
(***************************************************************************)
(* send_packet(prx, host, nics)                                            *)
(***************************************************************************)
SenderStart(h) ==
    /\ sender[h] = "new"
    /\ sender' = [sender EXCEPT ![h] = "run"]
    /\ UNCHANGED <<mainVars, recvVars, packetCh, topoCh, showVars, wire>>

SenderDies(h) ==
    /\ sender' = [sender EXCEPT ![h] = "end"]
    /\ packetCh' = [packetCh EXCEPT ![h] = <<>>]

\* Fault: replies are sent untagged.
FrameForUntagged(msg) ==
    builder(NameOf[msg.nic], MacOf[msg.nic], msg.peer.mac,
            IF msg.peer.mac = Broadcast THEN msg.peer.vlan ELSE 0,
            HostName[HostOf[msg.nic]])

\* The frame send_packet builds for a message.
FrameFor(msg) ==
    builder(NameOf[msg.nic], MacOf[msg.nic], msg.peer.mac, msg.peer.vlan,
            HostName[HostOf[msg.nic]])

\* Where the switch takes frame f sent on n: to everyone its VLAN reaches
\* when it is broadcast or flooded, else to the owner of the address.
Receivers(n, f, flood) ==
    {m \in Reach(n, f.vid) : f.dst = Broadcast \/ flood \/ MacOf[m] = f.dst}

SendPacket(h) ==
    LET msg == Head(packetCh[h])
        f   == FrameFor(msg)
    IN  /\ sender[h] = "run" /\ packetCh[h] # <<>>
        /\ \/ /\ msg.nic \notin nics[h]              \* no such interface: skip
              /\ packetCh' = [packetCh EXCEPT ![h] = Tail(@)]
              /\ UNCHANGED <<sender, wire>>
           \/ /\ msg.nic \in nics[h] /\ ~BuilderFits(f)
              /\ SenderDies(h)
              /\ UNCHANGED wire
           \/ /\ msg.nic \in nics[h] /\ BuilderFits(f)
              /\ packetCh' = [packetCh EXCEPT ![h] = Tail(@)]
              /\ \E flood \in {FALSE, Flooding} :
                    wire' = wire \cup
                        {[to |-> m, frame |-> f] : m \in Receivers(msg.nic, f, flood)}
              /\ UNCHANGED sender
        /\ UNCHANGED <<mainVars, recvVars, topoCh, showVars>>

\* rx.recv() returns None, or Socket::new or set_promiscuous fails and is unwrapped
SenderEnd(h) ==
    /\ \/ sender[h] = "new" /\ MayPanic
       \/ sender[h] = "run" /\ packetCh[h] = <<>> /\ Closed(h)
       \/ /\ sender[h] = "run" /\ packetCh[h] # <<>> /\ MayPanic
          /\ Head(packetCh[h]).nic \in nics[h]
    /\ SenderDies(h)
    /\ UNCHANGED <<mainVars, recvVars, topoCh, showVars, wire>>

-----------------------------------------------------------------------------
(***************************************************************************)
(* show_topo(trx, host, nics)                                              *)
(***************************************************************************)
\* Fault: the table is replaced by the new entry instead of extended.
ShowRecvReplaces(h) ==
    LET msg == Head(topoCh[h])
    IN  /\ show[h] = "recv" /\ topoCh[h] # <<>>
        /\ topoCh' = [topoCh EXCEPT ![h] = Tail(@)]
        /\ connection' = [connection EXCEPT ![h] = {Entry(msg)}]
        /\ show' = [show EXCEPT ![h] = IF Tail(topoCh[h]) = <<>>
                                       THEN "sleep" ELSE "recv"]
        /\ UNCHANGED <<mainVars, recvVars, packetCh, sender, screen, wire>>

\* Fault: a peer the table has already is not worth a print.
ShowRecvUnlessKnown(h) ==
    LET msg == Head(topoCh[h])
    IN  /\ show[h] = "recv" /\ topoCh[h] # <<>>
        /\ topoCh' = [topoCh EXCEPT ![h] = Tail(@)]
        /\ connection' = [connection EXCEPT ![h] = @ \cup {Entry(msg)}]
        /\ show' = [show EXCEPT ![h] =
                       IF Tail(topoCh[h]) = <<>> /\ Entry(msg) \notin connection[h]
                       THEN "sleep" ELSE "recv"]
        /\ UNCHANGED <<mainVars, recvVars, packetCh, sender, screen, wire>>

ShowRecv(h) ==
    LET msg == Head(topoCh[h])
    IN  /\ show[h] = "recv" /\ topoCh[h] # <<>>
        /\ topoCh' = [topoCh EXCEPT ![h] = Tail(@)]
        /\ \/ /\ msg.nic \notin nics[h]
              /\ UNCHANGED <<connection, show>>
           \/ /\ msg.nic \in nics[h]
              /\ connection' = [connection EXCEPT ![h] = @ \cup {Entry(msg)}]
              /\ show' = [show EXCEPT ![h] = IF Tail(topoCh[h]) = <<>>
                                             THEN "sleep" ELSE "recv"]
        /\ UNCHANGED <<mainVars, recvVars, packetCh, sender, screen, wire>>

\* Fault: prints when something arrived meanwhile instead of when nothing did.
ShowWakeInverted(h) ==
    /\ show[h] = "sleep"
    /\ show' = [show EXCEPT ![h] = "recv"]
    /\ screen' = IF topoCh[h] # <<>>
                 THEN [screen EXCEPT ![h] = connection[h]]
                 ELSE screen
    /\ UNCHANGED <<mainVars, recvVars, packetCh, topoCh, sender, connection, wire>>

\* Fault: sleeps again for as long as nothing arrives.
ShowWakeSleeps(h) ==
    /\ show[h] = "sleep"
    /\ show' = [show EXCEPT ![h] = IF topoCh[h] = <<>> THEN "sleep" ELSE "recv"]
    /\ screen' = IF topoCh[h] = <<>>
                 THEN [screen EXCEPT ![h] = connection[h]]
                 ELSE screen
    /\ UNCHANGED <<mainVars, recvVars, packetCh, topoCh, sender, connection, wire>>

\* after sleep(300ms): print unless something arrived meanwhile
ShowWake(h) ==
    /\ show[h] = "sleep"
    /\ show' = [show EXCEPT ![h] = "recv"]
    /\ screen' = IF topoCh[h] = <<>>
                 THEN [screen EXCEPT ![h] = connection[h]]
                 ELSE screen
    /\ UNCHANGED <<mainVars, recvVars, packetCh, topoCh, sender, connection, wire>>

\* rx.recv() returns None, or println! panics on a closed stdout
ShowEnd(h) ==
    /\ \/ show[h] = "recv" /\ topoCh[h] = <<>> /\ Closed(h)
       \/ show[h] = "sleep" /\ topoCh[h] = <<>> /\ MayPanic
    /\ show' = [show EXCEPT ![h] = "end"]
    /\ topoCh' = [topoCh EXCEPT ![h] = <<>>]
    /\ UNCHANGED <<mainVars, recvVars, packetCh, sender, connection, screen, wire>>

-----------------------------------------------------------------------------
(***************************************************************************)
(* The network and the kernel's receive path                               *)
(***************************************************************************)
\* Sockets that hear a frame arriving on interface m.
Hears(n, m) ==
    \/ sock[n] = "bound" /\ n = m
    \/ sock[n] = "unbound" /\ HostOf[n] = HostOf[m]

\* The kernel takes the VLAN tag off before a packet socket sees the frame.
Deliver(d) ==
    /\ d \in wire
    /\ wire' = wire \ {d}
    /\ rxq' = [n \in Nics |->
                 IF Hears(n, d.to)
                 THEN Append(rxq[n], [nic |-> d.to,
                                      frame |-> Retag(d.frame, FALSE)])
                 ELSE rxq[n]]
    /\ UNCHANGED <<mainVars, sock, held, packetCh, topoCh, sender, showVars>>

Lose(d) ==
    /\ Lossy /\ d \in wire
    /\ wire' = wire \ {d}
    /\ UNCHANGED <<mainVars, recvVars, packetCh, topoCh, sender, showVars>>

-----------------------------------------------------------------------------
Init ==
    /\ phase = [h \in Hosts |-> "init"]
    /\ nics = [h \in Hosts |-> {}]
    /\ todo = [h \in Hosts |-> {}]
    /\ cursor = [h \in Hosts |-> NoCursor]
    /\ sock = [n \in Nics |-> "off"]
    /\ rxq = [n \in Nics |-> <<>>]
    /\ held = [n \in Nics |-> <<>>]
    /\ packetCh = [h \in Hosts |-> <<>>]
    /\ topoCh = [h \in Hosts |-> <<>>]
    /\ sender = [h \in Hosts |-> "off"]
    /\ show = [h \in Hosts |-> "off"]
    /\ connection = [h \in Hosts |-> {}]
    /\ screen = [h \in Hosts |-> {}]
    /\ wire = {}

Main(h)   == MainSend(h) \/ MainPanic(h) \/ MainReturn(h)
Recv(n)   == NewSocket(n) \/ Bind(n) \/ RecvFrame(n) \/ RecvTopo(n)
Sender(h) == SenderStart(h) \/ SendPacket(h)
ShowTopo(h) == ShowRecv(h) \/ ShowWake(h) \/ ShowEnd(h)

Next ==
    \/ \E h \in Hosts : \/ StartExit(h) \/ StartProbe(h) \/ Main(h)
                        \/ Sender(h) \/ SenderEnd(h) \/ ShowTopo(h)
    \/ \E n \in Nics : Recv(n) \/ RecvPanic(n)
    \/ \E d \in wire : Deliver(d) \/ Lose(d)

Spec == Init /\ [][Next]_vars

(***************************************************************************)
(* A task that can run is eventually run and a frame in flight eventually  *)
(* arrives.  Nothing obliges a user to start a process or a system call to *)
(* fail.                                                                   *)
(***************************************************************************)
Fairness ==
    /\ \A h \in Hosts : /\ WF_vars(Main(h))
                        /\ WF_vars(Sender(h))
                        /\ WF_vars(Closed(h) /\ SenderEnd(h))
                        /\ WF_vars(ShowRecv(h) \/ ShowWake(h))
                        /\ WF_vars(Closed(h) /\ ShowEnd(h))
    /\ \A n \in Nics : WF_vars(Recv(n))
    /\ WF_vars(\E d \in wire : Deliver(d))

FairSpec == Spec /\ Fairness

-----------------------------------------------------------------------------
(***************************************************************************)
(* Properties                                                              *)
(***************************************************************************)
\* Every variable keeps its type: the tasks only ever exchange well-formed
\* peers, whatever the names, addresses and VLANs are.
TypeOK ==
    /\ phase \in [Hosts -> {"init", "send", "join", "exit"}]
    /\ nics \in [Hosts -> SUBSET Nics]
    /\ todo \in [Hosts -> SUBSET Nics]
    /\ cursor \in [Hosts -> Cursors]
    /\ sock \in [Nics -> {"off", "none", "unbound", "bound", "dead"}]
    /\ rxq \in [Nics -> Seq([nic : Nics, frame : Frames])]
    /\ held \in [Nics -> Seq(Msgs)]
    /\ packetCh \in [Hosts -> Seq(Msgs)]
    /\ topoCh \in [Hosts -> Seq(Msgs)]
    /\ sender \in [Hosts -> {"off", "new", "run", "end"}]
    /\ show \in [Hosts -> {"off", "recv", "sleep", "end"}]
    /\ connection \in [Hosts -> SUBSET (Nics \X Nodes \X U16)]
    /\ screen \in [Hosts -> SUBSET (Nics \X Nodes \X U16)]
    /\ wire \subseteq [to : Nics, frame : Frames]

\* What an entry claims: its interface is the host's own, and the peer it
\* names is a real interface whose frames with that VLAN's tag reach it.
IsFact(h, e) ==
    /\ HostOf[e[1]] = h
    /\ \E m \in Nics : e[2] = NodeOf(m) /\ e[1] \in Reach(m, AsVid(e[3]))

\* The table and the screen hold only true connections: names, address and
\* VLAN survive builder, the switch, the kernel, parse and both channels, also
\* when unbound sockets hear frames of other interfaces.
TopoSound ==
    \A h \in Hosts : \A e \in connection[h] \cup screen[h] : IsFact(h, e)

\* f reached n truly: it is what builder made for some interface m, but for
\* the tag, and n is in reach of m on the VLAN it names.
GoodFrame(n, f) ==
    LET v == parse(f).peer.vlan
    IN  \E m \in Nics :
          /\ n \in Reach(m, AsVid(v))
          /\ f = Retag(builder(NameOf[m], MacOf[m], f.dst, v, HostName[HostOf[m]]),
                       f.tagged)

GoodRx(h)  == {r \in [nic : Nics, frame : Frames] :
                  HostOf[r.nic] = h /\ GoodFrame(r.nic, r.frame)}
GoodMsg(h) == {msg \in Msgs : IsFact(h, Entry(msg))}

WireSound   == \A d \in wire : GoodFrame(d.to, d.frame)
RxSound     == \A n \in Nics : rxq[n] \in Seq(GoodRx(HostOf[n]))
HeldSound   == \A n \in Nics : held[n] \in Seq(GoodMsg(HostOf[n]))
TopoChSound == \A h \in Hosts : topoCh[h] \in Seq(GoodMsg(h))
CursorSound ==
    \A h \in Hosts : phase[h] = "send" =>
        /\ cursor[h] \in [nic : Nics, r : Nat, v : U16]
        /\ cursor[h].r \in 1 .. Len(Ranges(h))
        /\ cursor[h].v <= Ranges(h)[cursor[h].r][2]

\* Why TopoSound holds: every frame in flight or queued and every peer on its
\* way to show_topo is true already, and main's cursor stays in its ranges.
SoundInv == WireSound /\ RxSound /\ HeldSound /\ TopoChSound /\ CursorSound

\* The table and the screen implement the abstract record of connections.
Knowledge == INSTANCE LinkKnowledge WITH Fact <- IsFact, knows <- connection, shown <- screen
Implements == Knowledge!Spec

\* h knows, or one of its tasks is about to tell show_topo, that interface n is
\* connected over VLAN v to an interface with address mac.
Recorded(h, n, mac, v) ==
    \/ \E e \in connection[h] : e[1] = n /\ e[2].mac = mac /\ e[3] = v
    \/ \E q \in {topoCh[h]} \cup {held[k] : k \in NicsOf(h)} : \E i \in DOMAIN q :
          q[i].nic = n /\ q[i].peer.mac = mac /\ q[i].peer.vlan = v

\* recv_packet queues the answer before it reports the peer, on two channels
\* read by two tasks: still no reply is queued or in flight for a peer that the
\* answering process will not put in its table, unless show_topo is gone.
AnsweredIsRecorded ==
    \A h \in Hosts : show[h] # "end" =>
        /\ \A i \in DOMAIN packetCh[h] :
              LET msg == packetCh[h][i]
              IN  msg.nic \in nics[h] /\ msg.peer.mac # Broadcast
                    => Recorded(h, msg.nic, msg.peer.mac, msg.peer.vlan)
        /\ \A d \in wire : \A n \in nics[h] :
              d.frame.src = MacOf[n] /\ d.frame.op = Reply
                => Recorded(h, n, d.frame.dst, parse(d.frame).peer.vlan)

\* show_topo never waits for a message with a table it has not printed, when
\* every interface of the host is used (a message of an unused interface takes
\* the early continue and skips the print).
ScreenFresh ==
    \A h \in Hosts :
        show[h] = "recv" /\ topoCh[h] = <<>> /\ nics[h] = NicsOf(h)
            => screen[h] = connection[h]

\* Requests are answered and replies are not: the exchange always dies down.
Quiet ==
    /\ wire = {}
    /\ \A h \in Hosts : packetCh[h] = <<>> /\ topoCh[h] = <<>> /\ show[h] # "sleep"
    /\ \A n \in Nics : rxq[n] = <<>> /\ held[n] = <<>>
Quiesces == <>[]Quiet

\* The VLANs a host probes.
Probed(h) == UNION {Ranges(h)[i][1] .. Ranges(h)[i][2] : i \in DOMAIN Ranges(h)}

RequestFrom(n, m, v) ==
    \E i \in DOMAIN rxq[m] :
        rxq[m][i] = [nic |-> m,
                     frame |-> Retag(builder(NameOf[n], MacOf[n], Broadcast, v,
                                             HostName[HostOf[n]]), FALSE)]

\* A request that reaches a receiver while the asking interface listens makes
\* both processes learn of each other.
Discovery ==
    \A n, m \in Nics : \A v \in Probed(HostOf[n]) :
        n \in Reach(m, AsVid(v)) =>
        ((RequestFrom(n, m, v) /\ sock[n] = "bound" /\ sock[m] = "bound")
            ~> /\ <<n, NodeOf(m), v>> \in connection[HostOf[n]]
               /\ <<m, NodeOf(n), v>> \in connection[HostOf[m]])

\* What show_topo learns it eventually prints.
Shown == \A h \in Hosts : [](connection[h] # screen[h] => <>(connection[h] = screen[h]))

\* When the last receiver is gone both channels close, their readers end and
\* main, which waits for every task, returns.
CascadeTerminates ==
    \A h \in Hosts :
        (phase[h] = "join" /\ \A n \in nics[h] : sock[n] = "dead") ~> phase[h] = "exit"
=============================================================================
