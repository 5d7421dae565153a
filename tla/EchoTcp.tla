------------------------------ MODULE EchoTcp ------------------------------
(***************************************************************************)
(* network/echoserver over TCP behind network/proxy.  A client connects to *)
(* the proxy, the proxy to the server, and each connection is four pipes   *)
(* of bytes that are only counted, as they are copied in order:            *)
(*                                                                         *)
(*   client --up1--> proxy --up2--> server --down2--> proxy --down1--> client *)
(*                                                                         *)
(* The buffers of the copying tasks are part of the pipes they fill.  Each *)
(* client sends one line: the server's own client (main.rs:68-80) writes   *)
(* all of it before it reads and closes only when it is killed; others     *)
(* read meanwhile, shut down their side after the line and close at EOF.   *)
(***************************************************************************)
EXTENDS EchoLog, Sequences, FiniteSets

CONSTANTS
    Conns,    \* the clients, one connection each
    OwnConns, \* those of them that are echoserver's own
    Line(_),  \* the length of a client's line
    PipeCap   \* how many bytes a pipe holds

ASSUME TcpAssumption ==
    /\ IsFiniteSet(Conns) /\ OwnConns \subseteq Conns /\ PipeCap \in Nat \ {0}
    /\ \A c \in Conns : Line(c) \in Nat

VARIABLES
    conn,     \* the connections
    backlog,  \* connections the proxy has not accepted
    proxy,    \* the proxy's accept loop: accepting, connecting one, or exited
    server    \* whether the server is up

tcpVars == <<conn, backlog, proxy, server>>

Pipes == {"up1", "up2", "down1", "down2"}
Leg   == [p \in Pipes |-> IF p \in {"up1", "down1"} THEN "near" ELSE "far"]

\* A connection: where its client, the proxy's task and the server's task
\* are; bytes written and read by the client; bytes in each pipe; pipes whose
\* writer has shut down and whose reader is gone; the legs that were reset;
\* the directions copy_bidirectional has finished; whether the client took an
\* incomplete line for its echo
NewConn == [client |-> "off", px |-> "none", srv |-> "none",
            wr |-> 0, rd |-> 0, q |-> [p \in Pipes |-> 0],
            fin |-> {}, gone |-> {}, rst |-> {}, done |-> {}, short |-> FALSE]

TcpInit ==
    /\ conn = [c \in Conns |-> NewConn]
    /\ backlog = <<>> /\ proxy = <<"accept">> /\ server = "up"

Becomes(c, k) == conn' = [conn EXCEPT ![c] = k]

-----------------------------------------------------------------------------
(* TCP                                                                     *)

CanRead(k, p) == k.q[p] > 0
AtEof(k, p)   == k.q[p] = 0 /\ p \in k.fin

\* Room for a byte, or nobody there to receive it
CanWrite(k, p) == Leg[p] \notin k.rst /\ (p \in k.gone \/ k.q[p] < PipeCap)

Read(k, p) == [k EXCEPT !.q[p] = @ - 1]

\* A byte nobody receives is answered with a reset
Write(k, p) ==
    IF p \in k.gone THEN [k EXCEPT !.rst = @ \cup {Leg[p]}] ELSE [k EXCEPT !.q[p] = @ + 1]

\* The end that reads in and writes out is closed; with bytes unread, which
\* are lost, the connection is reset
Close(k, in, out) ==
    [k EXCEPT !.fin = @ \cup {out}, !.gone = @ \cup {in}, !.q[in] = 0,
              !.rst = IF k.q[in] > 0 THEN @ \cup {Leg[in]} ELSE @]

-----------------------------------------------------------------------------
(* The clients                                                             *)

Connect(c) ==
    /\ conn[c].client = "off" /\ proxy # <<"exited">>
    /\ Becomes(c, [conn[c] EXCEPT !.client = "open"])
    /\ backlog' = Append(backlog, c)
    /\ UNCHANGED <<proxy, server, logVars>>

Leave(k) == [Close(k, "down1", "up1") EXCEPT !.client = "gone", !.wr = 0, !.rd = 0]

\* write_all of the line
ClientWrite(c) ==
    LET k == conn[c]
    IN  /\ k.client = "open" /\ k.wr < Line(c) /\ CanWrite(k, "up1")
        /\ Becomes(c, [Write(k, "up1") EXCEPT !.wr = @ + 1])
        /\ UNCHANGED <<backlog, proxy, server, logVars>>

\* A client that is not the server's own says that it has sent everything
ClientShutdown(c) ==
    LET k == conn[c]
    IN  /\ k.client = "open" /\ k.wr = Line(c) /\ c \notin OwnConns /\ "up1" \notin k.fin
        /\ Becomes(c, [k EXCEPT !.fin = @ \cup {"up1"}])
        /\ UNCHANGED <<backlog, proxy, server, logVars>>

\* read_line; EOF ends it as a newline does.  The server's own client would
\* go on and fail at its next write; here it leaves at once
ClientRead(c) ==
    LET k == conn[c]
        waits == IF c \in OwnConns THEN k.wr = Line(c) /\ k.rd < Line(c) ELSE TRUE
    IN  /\ k.client = "open" /\ waits
        /\ \/ /\ CanRead(k, "down1")
              /\ Becomes(c, [Read(k, "down1") EXCEPT !.rd = @ + 1])
           \/ /\ AtEof(k, "down1")
              /\ Becomes(c, [Leave(k) EXCEPT !.short = k.rd < Line(c)])
        /\ UNCHANGED <<backlog, proxy, server, logVars>>

\* An error on the connection, or a kill
ClientLeaves(c, killed) ==
    /\ conn[c].client = "open"
    /\ killed \/ "near" \in conn[c].rst
    /\ Becomes(c, Leave(conn[c]))
    /\ UNCHANGED <<backlog, proxy, server, logVars>>

-----------------------------------------------------------------------------
(* The proxy                                                               *)

Accept ==
    /\ proxy = <<"accept">> /\ backlog # <<>>
    /\ proxy' = <<"connect", Head(backlog)>>
    /\ backlog' = Tail(backlog)
    /\ UNCHANGED <<conn, server, logVars>>

\* Within the second it is allowed; others wait in the backlog meanwhile
Connected ==
    /\ proxy[1] = "connect" /\ server = "up"
    /\ LET c == proxy[2]
       IN  Becomes(c, [conn[c] EXCEPT !.px = "copy", !.srv = "backlog"])
    /\ proxy' = <<"accept">>
    /\ UNCHANGED <<backlog, server, logVars>>

\* The proxy's task is dropped with both of its sockets
Drop(k) == [Close(Close(k, "up1", "down1"), "down2", "up2") EXCEPT
                !.px = "done", !.done = {}]

\* A connect that fails or times out, or a failing accept, ends the process:
\* every task is dropped, and connections not yet accepted are reset
ProxyExits ==
    LET here == {backlog[i] : i \in DOMAIN backlog} \cup {proxy[i] : i \in DOMAIN proxy \ {1}}
    IN  /\ proxy # <<"exited">>
        /\ proxy' = <<"exited">> /\ backlog' = <<>>
        /\ conn' = [c \in Conns |->
              CASE c \in here            -> [Close(conn[c], "up1", "down1") EXCEPT
                                                !.px = "done", !.rst = @ \cup {"near"}]
                [] conn[c].px = "copy"   -> Drop(conn[c])
                [] OTHER                 -> conn[c]]
        /\ UNCHANGED <<server, logVars>>

In(dir)  == IF dir = "up" THEN "up1" ELSE "down2"
Out(dir) == IF dir = "up" THEN "up2" ELSE "down1"

\* copy_bidirectional: a byte, or the end of the stream, in one direction
Transfer(c, dir) ==
    LET k == conn[c]
    IN  /\ k.px = "copy" /\ dir \notin k.done
        /\ \/ /\ CanRead(k, In(dir)) /\ CanWrite(k, Out(dir))
              /\ Becomes(c, Write(Read(k, In(dir)), Out(dir)))
           \/ /\ AtEof(k, In(dir)) /\ Leg[Out(dir)] \notin k.rst
              /\ Becomes(c, [k EXCEPT !.fin = @ \cup {Out(dir)}, !.done = @ \cup {dir}])
        /\ UNCHANGED <<backlog, proxy, server, logVars>>

\* Fault: the task ends with the first direction that does
FaultTaskEnds(c) ==
    LET k == conn[c]
    IN  /\ k.px = "copy"
        /\ k.done # {} \/ k.rst # {}
        /\ Becomes(c, Drop(k))
        /\ UNCHANGED <<backlog, proxy, server, logVars>>
\* copy_bidirectional returns: both directions are finished, or one has failed
TaskEnds(c) ==
    LET k == conn[c]
    IN  /\ k.px = "copy"
        /\ k.done = {"up", "down"} \/ k.rst # {}
        /\ Becomes(c, Drop(k))
        /\ UNCHANGED <<backlog, proxy, server, logVars>>

-----------------------------------------------------------------------------
(* The server                                                              *)

SrvAccept(c) ==
    /\ conn[c].srv = "backlog"
    /\ Becomes(c, [conn[c] EXCEPT !.srv = "copy"])
    /\ UNCHANGED <<backlog, proxy, server, logVars>>

SrvClose(k) == [Close(k, "up2", "down2") EXCEPT !.srv = "closed"]

\* io::copy from the socket to itself
Echo(c) ==
    LET k == conn[c]
    IN  /\ k.srv = "copy" /\ CanRead(k, "up2") /\ CanWrite(k, "down2")
        /\ Becomes(c, Write(Read(k, "up2"), "down2"))
        /\ UNCHANGED <<backlog, proxy, server, logVars>>

EchoEnds(c) ==
    LET k == conn[c]
    IN  /\ k.srv = "copy"
        /\ \/ /\ AtEof(k, "up2")
              /\ Becomes(c, [k EXCEPT !.srv = "log"])
              /\ lag' = lag + 1
           \/ /\ "far" \in k.rst
              /\ Becomes(c, SrvClose(k))
              /\ UNCHANGED lag
        /\ UNCHANGED <<backlog, proxy, server, chan, logger>>

\* Fault: the task waits for the logger that is gone
FaultSrvReport(c) ==
    /\ conn[c].srv = "log"
    /\ LogSend
    /\ Becomes(c, SrvClose(conn[c]))
    /\ UNCHANGED <<backlog, proxy, server>>
\* The socket lives until the echo is reported: a full channel keeps it open.
\* The panic of a send that fails closes it as well
SrvReport(c) ==
    /\ conn[c].srv = "log"
    /\ LogSend \/ LogSendFails
    /\ Becomes(c, SrvClose(conn[c]))
    /\ UNCHANGED <<backlog, proxy, server>>

\* A failing accept, or a kill
ServerExits ==
    /\ server = "up"
    /\ server' = "exited"
    /\ conn' = [c \in Conns |->
          CASE conn[c].srv = "backlog"         -> [SrvClose(conn[c]) EXCEPT !.rst = @ \cup {"far"}]
            [] conn[c].srv \in {"copy", "log"} -> SrvClose(conn[c])
            [] OTHER                           -> conn[c]]
    /\ UNCHANGED <<backlog, proxy, logVars>>

TcpLog ==
    /\ server = "up"
    /\ LogRecv \/ LogPrint \/ LogPanic
    /\ UNCHANGED tcpVars

TcpNext ==
    \/ \E c \in Conns : \/ Connect(c)
                        \/ ClientWrite(c)
                        \/ ClientShutdown(c)
                        \/ ClientRead(c)
                        \/ \E killed \in BOOLEAN : ClientLeaves(c, killed)
                        \/ \E dir \in {"up", "down"} : Transfer(c, dir)
                        \/ TaskEnds(c)
                        \/ SrvAccept(c)
                        \/ Echo(c)
                        \/ EchoEnds(c)
                        \/ SrvReport(c)
    \/ Accept
    \/ Connected
    \/ ProxyExits
    \/ ServerExits
    \/ TcpLog
=============================================================================
