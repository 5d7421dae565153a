------------------------------ MODULE EchoUdp ------------------------------
(***************************************************************************)
(* network/echoserver over UDP: workers that share a socket, each with a   *)
(* buffer it uses again and again, and main, which awaits them in order.   *)
(* A datagram's bytes are all the datagram itself, so that a byte tells    *)
(* where it is from; datagrams may be lost, repeated and reordered.        *)
(***************************************************************************)
EXTENDS EchoLog, Sequences, FiniteSets

CONSTANTS
    Datagrams,  \* the datagrams clients send
    Size(_),    \* their lengths
    From(_),    \* their senders
    BufLen,     \* the size of a worker's buffer (1500)
    Workers     \* how many workers there are

ASSUME UdpAssumption ==
    /\ BufLen \in Nat /\ Workers \in Nat \ {0}
    /\ \A d \in Datagrams : Size(d) \in Nat

VARIABLES
    sent,     \* history: datagrams that arrived
    queued,   \* datagrams in the socket's receive queue
    worker,   \* where each worker is
    buf,      \* its buffer
    got,      \* what recv_from returned: length and sender
    replies,  \* datagrams sent back
    process   \* whether main has returned

udpVars == <<sent, queued, worker, buf, got, replies, process>>

zero == "0"

W == 1 .. Workers

UdpInit ==
    /\ sent = {} /\ queued = {} /\ replies = {}
    /\ worker = [w \in W |-> "recv"]
    /\ buf = [w \in W |-> [i \in 1 .. BufLen |-> zero]]
    /\ got = [w \in W |-> <<>>]
    /\ process = "up"

Least(a, b) == IF a < b THEN a ELSE b

\* A client sends, and sends again; a datagram that is lost changes nothing
\* and the queue, which is bounded, holds one copy of each
Send(d) ==
    /\ d \notin queued
    /\ sent' = sent \cup {d}
    /\ queued' = queued \cup {d}
    /\ UNCHANGED <<worker, buf, got, replies, process, logVars>>

\* The socket hands a datagram to one of the workers that wait, cut to the
\* buffer; what the buffer held before stays behind it
RecvFrom(w, d) ==
    /\ process = "up" /\ worker[w] = "recv" /\ d \in queued
    /\ queued' = queued \ {d}
    /\ buf' = [buf EXCEPT ![w] = [i \in 1 .. BufLen |-> IF i <= Size(d) THEN d ELSE @[i]]]
    /\ got' = [got EXCEPT ![w] = <<Least(Size(d), BufLen), From(d)>>]
    /\ worker' = [worker EXCEPT ![w] = "send"]
    /\ UNCHANGED <<sent, replies, process, logVars>>

\* Fault: the whole buffer is sent
FaultSendTo(w) ==
    /\ process = "up" /\ worker[w] = "send"
    /\ replies' = replies \cup {[to |-> got[w][2], data |-> buf[w]]}
    /\ worker' = [worker EXCEPT ![w] = "log"]
    /\ lag' = lag + 1
    /\ UNCHANGED <<sent, queued, buf, got, process, chan, logger>>
SendTo(w) ==
    /\ process = "up" /\ worker[w] = "send"
    /\ replies' = replies \cup {[to |-> got[w][2], data |-> SubSeq(buf[w], 1, got[w][1])]}
    /\ worker' = [worker EXCEPT ![w] = "log"]
    /\ lag' = lag + 1
    /\ UNCHANGED <<sent, queued, buf, got, process, chan, logger>>

\* Fault: the message is dropped when the channel is full
FaultReport(w) ==
    /\ process = "up" /\ worker[w] = "log"
    /\ \/ LogSend /\ worker' = [worker EXCEPT ![w] = "recv"]
       \/ chan = LogCap /\ worker' = [worker EXCEPT ![w] = "recv"] /\ UNCHANGED logVars
       \/ LogSendFails /\ worker' = [worker EXCEPT ![w] = "dead"]
    /\ UNCHANGED <<sent, queued, buf, got, replies, process>>
Report(w) ==
    /\ process = "up" /\ worker[w] = "log"
    /\ \/ LogSend /\ worker' = [worker EXCEPT ![w] = "recv"]
       \/ LogSendFails /\ worker' = [worker EXCEPT ![w] = "dead"]
    /\ UNCHANGED <<sent, queued, buf, got, replies, process>>

\* An error of recv_from or send_to is unwrapped
WorkerPanics(w) ==
    /\ process = "up" /\ worker[w] \in {"recv", "send"}
    /\ worker' = [worker EXCEPT ![w] = "dead"]
    /\ UNCHANGED <<sent, queued, buf, got, replies, process, logVars>>

\* Fault: a worker's panic is ignored
FaultMainReturns ==
    /\ process = "up" /\ worker[1] = "dead"
    /\ UNCHANGED <<udpVars, logVars>>
\* main awaits the first worker, which ends only in a panic
MainReturns ==
    /\ process = "up" /\ worker[1] = "dead"
    /\ process' = "exited"
    /\ UNCHANGED <<sent, queued, worker, buf, got, replies, logVars>>

UdpLog ==
    /\ process = "up"
    /\ LogRecv \/ LogPrint \/ LogPanic
    /\ UNCHANGED udpVars

UdpNext ==
    \/ \E d \in Datagrams : Send(d)
    \/ \E w \in W : \/ \E d \in Datagrams : RecvFrom(w, d)
                    \/ SendTo(w)
                    \/ Report(w)
                    \/ WorkerPanics(w)
    \/ MainReturns
    \/ UdpLog
=============================================================================
