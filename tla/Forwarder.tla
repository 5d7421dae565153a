----------------------------- MODULE Forwarder ------------------------------
(***************************************************************************)
(* network/forwarder: a daemon that runs the shell command of a JSON       *)
(* request and answers with its output.                                    *)
(*                                                                         *)
(* main accepts on a Unix socket and, with --tcp, on a TCP socket, each in *)
(* a task of its own, and spawns a handle_stream task per connection.      *)
(* handle_stream reads until it believes the request complete, parses it,  *)
(* runs the command, writes the response and shuts the connection down.    *)
(*                                                                         *)
(* Of the bytes of a request only their number matters: wrote counts those *)
(* that have arrived in the kernel, len those in data, and Good says after *)
(* which lengths they are a valid Request.  Clients, the kernel and the    *)
(* command (module RunCmd) are external.                                   *)
(***************************************************************************)
EXTENDS Integers

CONSTANTS Conns,       \* connections clients may open
          Via,         \* the listener each one connects to
          Steps,       \* numbers of bytes that may have arrived at some moment
          Total,       \* bytes the client sends in all (a bound of the model: the
                       \* code reads on for as long as whole buffers arrive)
          Good,        \* lengths at which the bytes parse as a Request
          Big,         \* connections whose response fills the socket's buffers
          Hangs,       \* connections whose command never ends
          Tcp,         \* --tcp
          AcceptFails  \* accept and bind may fail

Listeners == {"unix", "tcp"}

ASSUME ConnAssumption ==
    /\ Via \in [Conns -> Listeners]
    /\ Steps \in [Conns -> SUBSET Nat]
    /\ \A c \in Conns : Total[c] \in Steps[c] /\ \A k \in Steps[c] : k <= Total[c]
    /\ Good \in [Conns -> SUBSET Nat]
ASSUME OptionAssumption == Tcp \in BOOLEAN /\ AcceptFails \in BOOLEAN

VARIABLES main,      \* main: binding the TCP listener, joining, gone
          listener,  \* the two accept loops
          client,    \* each client
          wrote,     \* bytes of the client in the kernel
          task,      \* each handle_stream
          len, cap,  \* data.len() and data's capacity
          why,       \* how the read loop ended
          response   \* what run_cmd left to answer

connVars == <<client, wrote>>
readVars == <<len, cap, why>>
vars == <<main, listener, connVars, task, readVars, response>>

BUF_LEN == 4096

-----------------------------------------------------------------------------
(***************************************************************************)
(* main and its two accept loops                                           *)
(***************************************************************************)
Spawned == IF Tcp THEN Listeners ELSE {"unix"}

\* In a listener's backlog; a client may have closed already.
Waiting(c) == client[c] \in {"queued", "left"}

\* The process ends and every task with it.
Exit ==
    /\ main' = "exit"
    /\ listener' = [l \in Listeners |-> IF listener[l] = "accept" THEN "killed"
                                      ELSE listener[l]]
    /\ client' = [c \in Conns |-> IF Waiting(c) THEN "closed" ELSE client[c]]
    /\ task' = [c \in Conns |-> IF task[c] = "none" THEN "none" ELSE "gone"]
    /\ UNCHANGED <<wrote, readVars, response>>

TcpBind ==
    /\ main = "bind"
    /\ main' = "join"
    /\ listener' = [listener EXCEPT !["tcp"] = "accept"]
    /\ UNCHANGED <<connVars, task, readVars, response>>

TcpBindFail ==
    /\ main = "bind" /\ AcceptFails
    /\ Exit

\* Fault: only the first listener is awaited.
JoinFirst ==
    /\ main = "join" /\ listener["unix"] = "end"
    /\ Exit

\* handle.await? for every listener: only a panic would end main early, the
\* error a listener returns is dropped
Join ==
    /\ main = "join"
    /\ \A l \in Spawned : listener[l] = "end"
    /\ Exit

\* Fault: the listener serves a connection itself before it accepts the next.
AcceptSerial(c) ==
    /\ Waiting(c) /\ listener[Via[c]] = "accept"
    /\ \A d \in Conns : Via[d] = Via[c] => task[d] \in {"none", "gone"}
    /\ client' = [client EXCEPT ![c] = IF @ = "left" THEN "closed" ELSE "open"]
    /\ task' = [task EXCEPT ![c] = "read"]
    /\ cap' = [cap EXCEPT ![c] = BUF_LEN]
    /\ UNCHANGED <<main, listener, wrote, len, why, response>>

\* accept, and a task of its own for the connection
Accept(c) ==
    /\ Waiting(c) /\ listener[Via[c]] = "accept"
    /\ client' = [client EXCEPT ![c] = IF @ = "left" THEN "closed" ELSE "open"]
    /\ task' = [task EXCEPT ![c] = "read"]
    /\ cap' = [cap EXCEPT ![c] = BUF_LEN]
    /\ UNCHANGED <<main, listener, wrote, len, why, response>>

\* accept().await? ends the loop; dropping the listener resets its backlog
AcceptFail(l) ==
    /\ AcceptFails /\ listener[l] = "accept"
    /\ listener' = [listener EXCEPT ![l] = "end"]
    /\ client' = [c \in Conns |-> IF Waiting(c) /\ Via[c] = l
                                  THEN "closed" ELSE client[c]]
    /\ UNCHANGED <<main, wrote, task, readVars, response>>

-----------------------------------------------------------------------------
(***************************************************************************)
(* handle_stream: the read loop                                            *)
(***************************************************************************)
\* Fault: room is made for less than a whole buffer.
ReserveLess(used, size) ==
    IF size - used >= BUF_LEN THEN size ELSE used + BUF_LEN - 1

\* data.reserve(BUF_LEN) when len bytes are used
Reserve(used, size) ==
    IF size - used >= BUF_LEN THEN size
    ELSE IF 2 * size >= used + BUF_LEN THEN 2 * size ELSE used + BUF_LEN

Leave(c, reason) ==
    /\ task' = [task EXCEPT ![c] = "parse"]
    /\ why' = [why EXCEPT ![c] = reason]

\* What the read returns: all that has arrived, or as much as there is room for.
Got(c) == IF wrote[c] - len[c] <= cap[c] - len[c]
          THEN wrote[c] - len[c] ELSE cap[c] - len[c]

Read(c) ==
    /\ task[c] = "read" /\ Got(c) > 0
    /\ len' = [len EXCEPT ![c] = @ + Got(c)]
    /\ \/ /\ Got(c) % BUF_LEN # 0
          /\ Leave(c, "all read")
          /\ UNCHANGED cap
       \/ /\ Got(c) % BUF_LEN = 0
          /\ cap' = [cap EXCEPT ![c] = Reserve(len[c] + Got(c), @)]
          /\ UNCHANGED <<task, why>>
    /\ UNCHANGED <<main, listener, connVars, response>>

\* read_buf returns 0 after the client has closed or shut down its side
ReadEof(c) ==
    /\ task[c] = "read" /\ client[c] \in {"shut", "closed"} /\ Got(c) = 0
    /\ Leave(c, "eof")
    /\ UNCHANGED <<main, listener, connVars, len, cap, response>>

\* the connection was reset: what was read so far is still parsed
ReadError(c) ==
    /\ task[c] = "read" /\ client[c] = "closed"
    /\ Leave(c, "error")
    /\ UNCHANGED <<main, listener, connVars, len, cap, response>>

\* Fault: the read is not given a timeout.
ReadTimeoutMissing(c) == FALSE

\* five seconds without a byte
ReadTimeout(c) ==
    /\ task[c] = "read" /\ client[c] \in {"open", "reading"} /\ Got(c) = 0
    /\ Leave(c, "timeout")
    /\ UNCHANGED <<main, listener, connVars, len, cap, response>>

-----------------------------------------------------------------------------
(***************************************************************************)
(* handle_stream: parse, run, answer                                       *)
(***************************************************************************)
\* from_slice(..)? : a request that does not parse closes the connection
\* without an answer
Parse(c) ==
    /\ task[c] = "parse"
    /\ task' = [task EXCEPT ![c] = IF len[c] \in Good[c] THEN "run" ELSE "gone"]
    /\ UNCHANGED <<main, listener, connVars, readVars, response>>

\* run_cmd returns Ok(output) or Err, and both are answered
RunCmd(c) ==
    /\ task[c] = "run" /\ c \notin Hangs
    /\ \E r \in {"output", "error"} : response' = [response EXCEPT ![c] = r]
    /\ task' = [task EXCEPT ![c] = "write"]
    /\ UNCHANGED <<main, listener, connVars, readVars>>

\* write_all, whose error is logged, and shutdown
Write(c) ==
    /\ task[c] = "write"
    /\ c \in Big => client[c] \in {"reading", "shut", "closed"}
    /\ task' = [task EXCEPT ![c] = "gone"]
    /\ UNCHANGED <<main, listener, connVars, readVars, response>>

-----------------------------------------------------------------------------
(***************************************************************************)
(* Clients                                                                 *)
(***************************************************************************)
Connect(c) ==
    /\ client[c] = "idle" /\ listener[Via[c]] = "accept"
    /\ client' = [client EXCEPT ![c] = "queued"]
    /\ UNCHANGED <<main, listener, wrote, task, readVars, response>>

\* the next piece of the request arrives, also before the connection is accepted
Send(c) ==
    /\ client[c] \in {"queued", "open"}
    /\ \E k \in Steps[c] : k > wrote[c] /\ wrote' = [wrote EXCEPT ![c] = k]
    /\ UNCHANGED <<main, listener, client, task, readVars, response>>

\* the client has sent all and reads the response, with its own side open or shut
Await(c) ==
    /\ client[c] = "open" /\ wrote[c] = Total[c]
    /\ \E s \in {"reading", "shut"} : client' = [client EXCEPT ![c] = s]
    /\ UNCHANGED <<main, listener, wrote, task, readVars, response>>

Close(c) ==
    /\ client[c] \in {"queued", "open", "reading", "shut"}
    /\ client' = [client EXCEPT ![c] = IF @ = "queued" THEN "left" ELSE "closed"]
    /\ UNCHANGED <<main, listener, wrote, task, readVars, response>>

-----------------------------------------------------------------------------
Init ==
    /\ main = IF Tcp THEN "bind" ELSE "join"
    /\ listener = [l \in Listeners |-> IF l = "unix" THEN "accept" ELSE "off"]
    /\ client = [c \in Conns |-> "idle"]
    /\ wrote = [c \in Conns |-> 0]
    /\ task = [c \in Conns |-> "none"]
    /\ len = [c \in Conns |-> 0]
    /\ cap = [c \in Conns |-> 0]
    /\ why = [c \in Conns |-> "none"]
    /\ response = [c \in Conns |-> "none"]

Handle(c) == \/ Read(c) \/ ReadEof(c) \/ ReadTimeout(c) \/ ReadError(c)
             \/ Parse(c) \/ RunCmd(c) \/ Write(c)
Client(c) == Connect(c) \/ Send(c) \/ Await(c) \/ Close(c)

Next ==
    \/ TcpBind \/ TcpBindFail \/ Join
    \/ \E l \in Listeners : AcceptFail(l)
    \/ \E c \in Conns : Accept(c) \/ Handle(c) \/ Client(c)

Spec == Init /\ [][Next]_vars

\* Tasks that can run are run, and a silent connection's timer fires.  Nothing
\* is assumed of the clients, and no listener has to fail.
Fairness ==
    /\ WF_vars(TcpBind) /\ WF_vars(Join)
    /\ \A c \in Conns : WF_vars(Accept(c)) /\ WF_vars(Handle(c))

FairSpec == Spec /\ Fairness

-----------------------------------------------------------------------------
(***************************************************************************)
(* Properties                                                              *)
(***************************************************************************)
\* Every variable keeps its type.
TypeOK ==
    /\ main \in {"bind", "join", "exit"}
    /\ listener \in [Listeners -> {"off", "accept", "end", "killed"}]
    /\ client \in [Conns -> {"idle", "queued", "left", "open", "reading",
                           "shut", "closed"}]
    /\ wrote \in [Conns -> Nat]
    /\ task \in [Conns -> {"none", "read", "parse", "run", "write", "gone"}]
    /\ len \in [Conns -> Nat]
    /\ cap \in [Conns -> Nat]
    /\ why \in [Conns -> {"none", "all read", "eof", "error", "timeout"}]
    /\ response \in [Conns -> {"none", "output", "error"}]

\* While the loop reads, data holds whole buffers and has room for at least one
\* more, in whole buffers too, however the bytes arrive and however often data
\* has grown: so a read that fills the room is never mistaken for the last one.
WholeBuffers ==
    \A c \in Conns :
        /\ len[c] <= wrote[c]
        /\ task[c] = "none" => len[c] = 0
        /\ task[c] = "read" => /\ len[c] % BUF_LEN = 0 /\ cap[c] % BUF_LEN = 0
                               /\ cap[c] - len[c] >= BUF_LEN

\* The loop stops at "All data read" only when it has taken every byte that had
\* arrived until then.
StopsDrained ==
    [][\A c \in Conns : why[c] = "none" /\ why'[c] = "all read"
                          => len'[c] = wrote[c]]_vars

\* A request that has arrived completely before the first read is answered,
\* whatever its length (a multiple of BUF_LEN waits for the timeout) and whatever
\* other connections do.  Only its client, by hanging up, and the end of the
\* process prevent it, and the process ends only when every listener has failed
\* or the TCP listener could not be bound.
WholeIsAnswered ==
    \A c \in Conns \ Hangs : Total[c] \in Good[c] =>
        ((task[c] = "read" /\ len[c] = 0 /\ wrote[c] = Total[c])
            ~> \/ response[c] # "none" \/ client[c] = "closed"
               \/ \A l \in Spawned : listener[l] = "end"
               \/ Tcp /\ listener["tcp"] = "off" /\ main = "exit")

\* Only a client that goes on sending holds a task in its read loop: of any
\* number of bytes that has arrived, either more arrive or the loop ends, also
\* when the client stalls in the middle or after whole buffers.  The timer starts
\* again with every turn (main.rs:48), so one that feeds whole buffers in time
\* for ever is not ended; no bound on the whole read is claimed.
ReadEnds ==
    \A c \in Conns : \A k \in Steps[c] \cup {0} :
        (task[c] = "read" /\ wrote[c] = k) ~> (task[c] # "read" \/ wrote[c] # k)

\* A connection a listener took in is accepted, unless the client gives up or the
\* listener fails: connections being served are not in the way.
Served == \A c \in Conns : Waiting(c) ~> ~Waiting(c)
=============================================================================
