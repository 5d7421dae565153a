----------------------------- MODULE EchoService -----------------------------
(***************************************************************************)
(* network/echoserver in server mode: main spawns the logger and runs      *)
(* udp_server or tcp_server, the latter behind network/proxy.              *)
(***************************************************************************)
EXTENDS EchoUdp, EchoTcp

VARIABLE udp  \* opt.udp

vars == <<udp, udpVars, tcpVars, logVars>>

Init == udp \in BOOLEAN /\ UdpInit /\ TcpInit /\ LogInit

UdpStep(A) == udp /\ A /\ UNCHANGED <<udp, tcpVars>>
TcpStep(A) == ~udp /\ A /\ UNCHANGED <<udp, udpVars>>

Next ==
    \/ UdpStep(UdpNext)
    \/ TcpStep(TcpNext)

\* tokio polls every task that is ready, the kernel delivers what is sent,
\* clients do not stop half-way and a connection attempt ends within its
\* second; stdout takes what is printed, or fails.  Nothing makes a client
\* connect, send or leave, or a process fail.
Fairness ==
    /\ \A w \in W : WF_vars(UdpStep(\/ SendTo(w)
                                     \/ Report(w)
                                     \/ \E d \in Datagrams : RecvFrom(w, d)))
    /\ WF_vars(UdpStep(MainReturns \/ UdpLog))
    /\ \A c \in Conns : WF_vars(TcpStep(\/ ClientWrite(c) \/ ClientShutdown(c) \/ ClientRead(c)
                                         \/ ClientLeaves(c, FALSE)
                                         \/ Transfer(c, "up") \/ Transfer(c, "down") \/ TaskEnds(c)
                                         \/ SrvAccept(c) \/ Echo(c) \/ EchoEnds(c) \/ SrvReport(c)))
    /\ WF_vars(TcpStep(Accept \/ Connected \/ (proxy[1] = "connect" /\ ProxyExits)))
    /\ WF_vars(TcpStep(TcpLog))

Spec == Init /\ [][Next]_vars /\ Fairness

-----------------------------------------------------------------------------
(* Properties                                                              *)

\* Every UDP reply is a datagram some client sent, back to that client, cut
\* to the buffer and without a byte of what the buffer held before
\* (echoserver/main.rs:116-119).
EchoSound ==
    \A e \in replies : \E d \in sent :
        e.to = From(d) /\ e.data = [i \in 1 .. Least(Size(d), BufLen) |-> d]

\* However the logger stalls or dies and UDP workers with it, no more echoes
\* go unreported than the channel, the logger and the workers hold: a worker
\* that cannot report echoes nothing more (echoserver/main.rs:83-89, 116-122).
LagBounded == udp => lag <= LogCap + 1 + Workers

\* While a datagram waits some worker comes to take one as long as the
\* process lives: no sequence of panics leaves a server that is up and serves
\* nobody (echoserver/main.rs:110-129).
Served == udp /\ queued # {} ~> process = "exited" \/ \E w \in W : worker[w] = "send"

\* A client that reads to the end of the stream has its whole line, through
\* both processes and however many clients come and go, unless one of the two
\* processes has ended (proxy/main.rs:35-38, echoserver/main.rs:142-149).
LineEchoed ==
    \A c \in Conns : conn[c].short => proxy = <<"exited">> \/ server = "exited"

Broken == proxy = <<"exited">> \/ server = "exited"

\* A client that connects gets its line back or leaves, and after it has left
\* both tasks of its connection end and close their sockets, while the
\* processes live (proxy/main.rs:36, echoserver/main.rs:145-147).
Progress ==
    \A c \in Conns :
        ~udp /\ conn[c].client # "off" ~>
            \/ conn[c].client = "open" /\ conn[c].rd = Line(c)
            \/ conn[c].client = "gone" /\ conn[c].px = "done" /\ conn[c].srv = "closed"
            \/ Broken
=============================================================================
