-------------------------- MODULE ForwarderProofs ---------------------------
(***************************************************************************)
(* For any number of connections, however their bytes arrive: the buffer   *)
(* of handle_stream is grown so that a read which fills it is never taken  *)
(* for the last one.  Then run_cmd, which it calls: its output is whole,   *)
(* and it hangs only on two full pipes.                                    *)
(***************************************************************************)
EXTENDS Forwarder, RunCmd, TLAPS

\* What a read returns is never more than has arrived or than there is room for,
\* and if it does not fill the room it is all that has arrived.
LEMMA GotBounds ==
    ASSUME TypeOK, NEW c \in Conns, len[c] <= wrote[c], len[c] <= cap[c]
    PROVE  /\ Got(c) \in Nat
           /\ Got(c) <= wrote[c] - len[c]
           /\ Got(c) <= cap[c] - len[c]
           /\ Got(c) = wrote[c] - len[c] \/ Got(c) = cap[c] - len[c]
<1>1. len[c] \in Nat /\ wrote[c] \in Nat /\ cap[c] \in Nat
  BY DEF TypeOK
<1> QED
  BY <1>1 DEF Got

\* reserve keeps the capacity a multiple of BUF_LEN and leaves room for a buffer.
LEMMA ReserveWhole ==
    ASSUME NEW used \in Nat, NEW size \in Nat, used <= size,
           used % BUF_LEN = 0, size % BUF_LEN = 0
    PROVE  /\ Reserve(used, size) \in Nat
           /\ Reserve(used, size) % BUF_LEN = 0
           /\ Reserve(used, size) - used >= BUF_LEN
  BY SMTT(30) DEF Reserve, BUF_LEN

\* A difference added to what was subtracted.
LEMMA Difference ==
    ASSUME NEW m \in Nat, NEW n \in Nat
    PROVE  n + (m - n) = m
  OBVIOUS

\* Room for a buffer is room.
LEMMA RoomLeft ==
    ASSUME NEW m \in Nat, NEW n \in Nat, m - n >= BUF_LEN
    PROVE  n <= m
  BY DEF BUF_LEN

\* Two multiples of BUF_LEN add up and subtract to one.
LEMMA WholeSum ==
    ASSUME NEW m \in Nat, NEW n \in Nat, m % BUF_LEN = 0
    PROVE  /\ n % BUF_LEN = 0 => (m + n) % BUF_LEN = 0
           /\ n % BUF_LEN = 0 /\ n <= m => (m - n) % BUF_LEN = 0
  BY SMTT(30) DEF BUF_LEN

-----------------------------------------------------------------------------
\* A connection has no task before it is accepted.
Unaccepted ==
    \A c \in Conns : client[c] \in {"idle", "queued", "left"} => task[c] = "none"

\* The inductive invariant: a task starts with an empty buffer because it is the
\* connection's first.
IInv == TypeOK /\ WholeBuffers /\ Unaccepted

\* Nothing has been read before the first connection.
LEMMA InitIInv == Init => IInv
  BY ConnAssumption, OptionAssumption
  DEF Init, IInv, TypeOK, WholeBuffers, Unaccepted, Listeners, BUF_LEN

\* WholeBuffers for one connection, as a fact about its four values.
Whole(w, t, n, k) ==
    /\ n <= w
    /\ t = "none" => n = 0
    /\ t = "read" => n % BUF_LEN = 0 /\ k % BUF_LEN = 0 /\ k - n >= BUF_LEN

LEMMA WholeIsWhole ==
    WholeBuffers <=> \A c \in Conns : Whole(wrote[c], task[c], len[c], cap[c])
  BY DEF WholeBuffers, Whole

\* The end of the process leaves the buffers of the tasks it ends as they are.
LEMMA ExitIInv == IInv /\ Exit => IInv'
<1> SUFFICES ASSUME IInv, Exit PROVE IInv'
  OBVIOUS
<1>1. TypeOK'
  BY DEF IInv, TypeOK, Exit, connVars, readVars, Waiting, Listeners
<1>2. WholeBuffers'
  BY DEF IInv, WholeBuffers, Exit, readVars
<1>3. Unaccepted'
  BY DEF IInv, TypeOK, Unaccepted, Exit, Waiting
<1> QED
  BY <1>1, <1>2, <1>3 DEF IInv

\* A read keeps whole buffers whole: what is not a multiple of BUF_LEN ends the
\* loop, and after a multiple reserve makes room for another buffer.
LEMMA ReadIInv == ASSUME IInv, NEW c \in Conns, Read(c) PROVE IInv'
<1> DEFINE g == Got(c)
<1>1. /\ len[c] \in Nat /\ wrote[c] \in Nat /\ cap[c] \in Nat
      /\ task[c] = "read"
  BY DEF IInv, TypeOK, Read
<1>2. /\ len[c] <= wrote[c] /\ len[c] % BUF_LEN = 0 /\ cap[c] % BUF_LEN = 0
      /\ cap[c] - len[c] >= BUF_LEN
  BY <1>1 DEF IInv, WholeBuffers
<1>3. len[c] <= cap[c]
  BY <1>1, <1>2 DEF BUF_LEN
<1>4. g \in Nat /\ g <= wrote[c] - len[c] /\ g <= cap[c] - len[c]
  BY <1>2, <1>3, GotBounds DEF IInv
<1> HIDE DEF g
<1>5. len[c] + g \in Nat /\ len[c] + g <= wrote[c] /\ len[c] + g <= cap[c]
  BY <1>1, <1>4
<1>6. CASE g % BUF_LEN # 0
  <2>1. /\ len' = [len EXCEPT ![c] = @ + g] /\ task' = [task EXCEPT ![c] = "parse"]
        /\ why' = [why EXCEPT ![c] = "all read"]
        /\ UNCHANGED <<main, listener, client, wrote, response, cap>>
    BY <1>6 DEF Read, Leave, connVars, g
  <2>2. TypeOK'
    BY <1>5, <2>1 DEF IInv, TypeOK
  <2>3. WholeBuffers'
    BY <1>5, <2>1 DEF IInv, TypeOK, WholeBuffers
  <2>4. Unaccepted'
    BY <1>1, <2>1 DEF IInv, TypeOK, Unaccepted
  <2> QED
    BY <2>2, <2>3, <2>4 DEF IInv
<1>7. CASE g % BUF_LEN = 0
  <2> DEFINE r == Reserve(len[c] + g, cap[c])
  <2>1. /\ len' = [len EXCEPT ![c] = @ + g] /\ cap' = [cap EXCEPT ![c] = r]
        /\ UNCHANGED <<main, listener, client, wrote, response, task, why>>
    BY <1>7 DEF Read, Leave, connVars, g
  <2>2. (len[c] + g) % BUF_LEN = 0
    BY <1>1, <1>2, <1>4, <1>7, WholeSum
  <2>3. r \in Nat /\ r % BUF_LEN = 0 /\ r - (len[c] + g) >= BUF_LEN
    BY <1>1, <1>2, <1>5, <2>2, ReserveWhole
  <2> HIDE DEF r
  <2>4. TypeOK'
    BY <1>5, <2>1, <2>3 DEF IInv, TypeOK
  <2>5. ASSUME NEW d \in Conns PROVE Whole(wrote'[d], task'[d], len'[d], cap'[d])
    <3>1. CASE d = c
      BY <1>1, <1>5, <2>1, <2>2, <2>3, <3>1 DEF IInv, TypeOK, Whole
    <3>2. CASE d # c
      BY <2>1, <3>2, WholeIsWhole DEF IInv, TypeOK
    <3> QED
      BY <3>1, <3>2
  <2>6. WholeBuffers'
    BY <2>5 DEF WholeBuffers, Whole
  <2>7. Unaccepted'
    BY <2>1 DEF IInv, Unaccepted
  <2> QED
    BY <2>4, <2>6, <2>7 DEF IInv
<1> QED
  BY <1>6, <1>7

\* A step that moves tasks on, but into no read loop and not back to the start,
\* leaves the buffers as they are.
LEMMA SameBuffers ==
    ASSUME IInv, len' = len, cap' = cap, wrote' = wrote,
           \A c \in Conns : /\ task'[c] = "read" => task[c] = "read"
                            /\ task'[c] = "none" => task[c] = "none"
    PROVE  WholeBuffers'
  BY DEF IInv, WholeBuffers

\* Every step of main, of the listeners, tasks and clients keeps IInv.
LEMMA NextIInv == IInv /\ [Next]_vars => IInv'
<1> SUFFICES ASSUME IInv, [Next]_vars PROVE IInv'
  OBVIOUS
<1> USE DEF TypeOK, connVars, readVars
<1>0. TypeOK
  BY DEF IInv
<1>1. CASE TcpBind
  <2>1. TypeOK'
    BY <1>0, <1>1 DEF TcpBind, Listeners
  <2>2. WholeBuffers'
    BY <1>1, SameBuffers DEF TcpBind
  <2>3. Unaccepted'
    BY <1>1, <1>0 DEF Unaccepted, IInv, TcpBind
  <2> QED
    BY <2>1, <2>2, <2>3 DEF IInv
<1>2. CASE TcpBindFail \/ Join
  BY <1>2, ExitIInv DEF TcpBindFail, Join
<1>3. ASSUME NEW l \in Listeners, AcceptFail(l) PROVE IInv'
  <2>1. TypeOK'
    BY <1>0, <1>3 DEF AcceptFail
  <2>2. WholeBuffers'
    BY <1>3, SameBuffers DEF AcceptFail
  <2>3. Unaccepted'
    BY <1>3, <1>0 DEF Unaccepted, IInv, AcceptFail
  <2> QED
    BY <2>1, <2>2, <2>3 DEF IInv
<1>4. ASSUME NEW c \in Conns, Accept(c) PROVE IInv'
  <2>1. /\ task' = [task EXCEPT ![c] = "read"] /\ cap' = [cap EXCEPT ![c] = BUF_LEN]
        /\ client' \in [Conns -> {"idle", "queued", "left", "open", "reading",
                                 "shut", "closed"}]
        /\ UNCHANGED <<main, listener, wrote, len, why, response>>
    BY <1>0, <1>4 DEF Accept
  <2>0. client'[c] \in {"open", "closed"} /\ \A d \in Conns \ {c} : client'[d] = client[d]
    BY <1>0, <1>4 DEF Accept
  <2>2. TypeOK'
    <3>1. BUF_LEN \in Nat
      BY DEF BUF_LEN
    <3> QED
      BY <1>0, <2>1, <3>1
  <2>3. len[c] = 0
    BY <1>4 DEF Accept, Waiting, IInv, Unaccepted, WholeBuffers
  <2>4. ASSUME NEW d \in Conns
        PROVE  Whole(wrote'[d], task'[d], len'[d], cap'[d])
    <3>1. CASE d = c
      <4>1. wrote'[d] \in Nat /\ len'[d] = 0 /\ cap'[d] = BUF_LEN /\ task'[d] = "read"
        BY <1>0, <2>1, <2>3, <3>1
      <4>2. 0 % BUF_LEN = 0 /\ BUF_LEN % BUF_LEN = 0 /\ BUF_LEN - 0 >= BUF_LEN
        BY DEF BUF_LEN
      <4> QED
        BY <4>1, <4>2 DEF Whole
    <3>2. CASE d # c
      BY <1>0, <2>1, <3>2, WholeIsWhole DEF IInv
    <3> QED
      BY <3>1, <3>2
  <2>5. WholeBuffers'
    BY <2>4 DEF WholeBuffers, Whole
  <2>6. Unaccepted'
    BY <1>0, <2>0, <2>1 DEF Unaccepted, IInv
  <2> QED
    BY <2>2, <2>5, <2>6 DEF IInv
<1>5. ASSUME NEW c \in Conns, Read(c) PROVE IInv'
  BY <1>5, ReadIInv
<1>6. ASSUME NEW c \in Conns, ReadEof(c) PROVE IInv'
  <2>1. TypeOK'
    BY <1>0, <1>6 DEF ReadEof, Leave
  <2>2. WholeBuffers'
    BY <1>0, <1>6, SameBuffers DEF ReadEof, Leave
  <2>3. Unaccepted'
    BY <1>0, <1>6 DEF Unaccepted, IInv, ReadEof, Leave
  <2> QED
    BY <2>1, <2>2, <2>3 DEF IInv
<1>7. ASSUME NEW c \in Conns, ReadTimeout(c) PROVE IInv'
  <2>1. TypeOK'
    BY <1>0, <1>7 DEF ReadTimeout, Leave
  <2>2. WholeBuffers'
    BY <1>0, <1>7, SameBuffers DEF ReadTimeout, Leave
  <2>3. Unaccepted'
    BY <1>0, <1>7 DEF Unaccepted, IInv, ReadTimeout, Leave
  <2> QED
    BY <2>1, <2>2, <2>3 DEF IInv
<1>8. ASSUME NEW c \in Conns, ReadError(c) PROVE IInv'
  <2>1. TypeOK'
    BY <1>0, <1>8 DEF ReadError, Leave
  <2>2. WholeBuffers'
    BY <1>0, <1>8, SameBuffers DEF ReadError, Leave
  <2>3. Unaccepted'
    BY <1>0, <1>8 DEF Unaccepted, IInv, ReadError, Leave
  <2> QED
    BY <2>1, <2>2, <2>3 DEF IInv
<1>9. ASSUME NEW c \in Conns, Parse(c) PROVE IInv'
  <2>1. TypeOK'
    BY <1>0, <1>9 DEF Parse
  <2>2. WholeBuffers'
    BY <1>0, <1>9, SameBuffers DEF Parse
  <2>3. Unaccepted'
    BY <1>0, <1>9 DEF Unaccepted, IInv, Parse
  <2> QED
    BY <2>1, <2>2, <2>3 DEF IInv
<1>10. ASSUME NEW c \in Conns, RunCmd(c) PROVE IInv'
  <2>1. TypeOK'
    <3>1. PICK r \in {"output", "error"} : response' = [response EXCEPT ![c] = r]
      BY <1>10 DEF RunCmd
    <3> QED
      BY <1>0, <1>10, <3>1 DEF RunCmd
  <2>2. WholeBuffers'
    BY <1>0, <1>10, SameBuffers DEF RunCmd
  <2>3. Unaccepted'
    BY <1>0, <1>10 DEF Unaccepted, IInv, RunCmd
  <2> QED
    BY <2>1, <2>2, <2>3 DEF IInv
<1>11. ASSUME NEW c \in Conns, Write(c) PROVE IInv'
  <2>1. TypeOK'
    BY <1>0, <1>11 DEF Write
  <2>2. WholeBuffers'
    BY <1>0, <1>11, SameBuffers DEF Write
  <2>3. Unaccepted'
    BY <1>0, <1>11 DEF Unaccepted, IInv, Write
  <2> QED
    BY <2>1, <2>2, <2>3 DEF IInv
<1>12. ASSUME NEW c \in Conns, Connect(c) PROVE IInv'
  <2>1. TypeOK'
    BY <1>0, <1>12 DEF Connect
  <2>2. WholeBuffers'
    BY <1>0, <1>12, SameBuffers DEF Connect
  <2>3. Unaccepted'
    BY <1>0, <1>12 DEF Unaccepted, IInv, Connect
  <2> QED
    BY <2>1, <2>2, <2>3 DEF IInv
<1>13. ASSUME NEW c \in Conns, Await(c) PROVE IInv'
  <2>1. TypeOK'
    <3>1. PICK r \in {"reading", "shut"} : client' = [client EXCEPT ![c] = r]
      BY <1>13 DEF Await
    <3> QED
      BY <1>0, <1>13, <3>1 DEF Await
  <2>2. WholeBuffers'
    BY <1>0, <1>13, SameBuffers DEF Await
  <2>3. Unaccepted'
    BY <1>0, <1>13 DEF Unaccepted, IInv, Await
  <2> QED
    BY <2>1, <2>2, <2>3 DEF IInv
<1>14. ASSUME NEW c \in Conns, Close(c) PROVE IInv'
  <2>1. TypeOK'
    BY <1>0, <1>14 DEF Close
  <2>2. WholeBuffers'
    BY <1>0, <1>14, SameBuffers DEF Close
  <2>3. Unaccepted'
    BY <1>0, <1>14 DEF Unaccepted, IInv, Close
  <2> QED
    BY <2>1, <2>2, <2>3 DEF IInv
<1>15. ASSUME NEW c \in Conns, Send(c) PROVE IInv'
  <2>1. PICK k \in Steps[c] : k > wrote[c] /\ wrote' = [wrote EXCEPT ![c] = k]
    BY <1>15 DEF Send
  <2>2. k \in Nat
    BY <2>1, ConnAssumption
  <2>3. TypeOK'
    BY <1>0, <1>15, <2>1, <2>2 DEF Send
  <2>4. ASSUME NEW d \in Conns
        PROVE  Whole(wrote'[d], task'[d], len'[d], cap'[d])
    <3>1. /\ len'[d] = len[d] /\ task'[d] = task[d] /\ cap'[d] = cap[d]
          /\ len[d] \in Nat /\ wrote[d] \in Nat /\ wrote'[d] \in Nat
      BY <1>0, <1>15, <2>1, <2>2 DEF Send
    <3>3. wrote[d] <= wrote'[d]
      <4>1. CASE d = c
        <5>1. wrote'[d] = k
          BY <1>0, <2>1, <4>1
        <5> QED
          BY <2>1, <2>2, <3>1, <4>1, <5>1
      <4>2. CASE d # c
        <5>1. wrote'[d] = wrote[d]
          BY <1>0, <2>1, <4>2
        <5> QED
          BY <3>1, <5>1
      <4> QED
        BY <4>1, <4>2
    <3>2. Whole(wrote[d], task[d], len[d], cap[d])
      BY WholeIsWhole DEF IInv
    <3> QED
      BY <3>1, <3>2, <3>3 DEF Whole
  <2>5. WholeBuffers'
    BY <2>4 DEF WholeBuffers, Whole
  <2>6. Unaccepted'
    BY <1>15 DEF Send, Unaccepted, IInv
  <2> QED
    BY <2>3, <2>5, <2>6 DEF IInv
<1>16. CASE UNCHANGED vars
  <2>1. TypeOK'
    BY <1>0, <1>16 DEF vars
  <2>2. WholeBuffers'
    BY <1>16, SameBuffers DEF vars
  <2>3. Unaccepted'
    BY <1>16, <1>0 DEF Unaccepted, IInv, vars
  <2> QED
    BY <2>1, <2>2, <2>3 DEF IInv
<1> QED
  BY <1>1, <1>2, <1>3, <1>4, <1>5, <1>6, <1>7, <1>8, <1>9, <1>10, <1>11, <1>12,
     <1>13, <1>14, <1>15, <1>16
  DEF Next, Handle, Client

\* While handle_stream reads, data holds whole buffers and has room for at least
\* one more, for any number of connections and any lengths.
THEOREM BuffersWhole == Spec => []WholeBuffers
  BY InitIInv, NextIInv, PTL DEF Spec, IInv

\* A read that is not a multiple of BUF_LEN does not fill the room, so it is all
\* that has arrived.
LEMMA LastRead ==
    ASSUME IInv, NEW c \in Conns, Read(c), why[c] = "none", why'[c] = "all read"
    PROVE  len'[c] = wrote[c]
<1> DEFINE l == len[c]
           w == wrote[c]
           k == cap[c]
           g == Got(c)
<1>1. l \in Nat /\ w \in Nat /\ k \in Nat /\ len'[c] = l + g
  BY DEF IInv, TypeOK, Read
<1>2. l <= w /\ l % BUF_LEN = 0 /\ k % BUF_LEN = 0 /\ k - l >= BUF_LEN
  BY DEF IInv, WholeBuffers, Read
<1>3. g % BUF_LEN # 0
  BY DEF Read
<1>4. ASSUME l <= k PROVE g \in Nat /\ (g = w - l \/ g = k - l)
  BY <1>2, <1>4, GotBounds DEF IInv
<1>5. l <= k
  BY <1>1, <1>2, RoomLeft
<1>6. (k - l) % BUF_LEN = 0
  BY <1>1, <1>2, <1>5, WholeSum
<1>7. g = w - l
  BY <1>3, <1>4, <1>5, <1>6
<1>8. l + (w - l) = w
  BY <1>1, Difference
<1> QED
  BY <1>1, <1>7, <1>8, Zenon

\* The loop stops at "All data read" only when it has taken all that had arrived.
THEOREM DrainedWhenStopped == Spec => StopsDrained
<1>1. IInv /\ [Next]_vars
        => [\A c \in Conns : why[c] = "none" /\ why'[c] = "all read"
                               => len'[c] = wrote[c]]_vars
  <2> SUFFICES ASSUME IInv, Next, NEW c \in Conns,
                      why[c] = "none", why'[c] = "all read"
               PROVE  len'[c] = wrote[c]
    OBVIOUS
  <2>1. CASE Read(c)
    BY <2>1, LastRead
  <2>2. CASE ~Read(c)
    <3> USE DEF IInv, TypeOK, connVars, readVars, Leave
    <3>1. ASSUME NEW d \in Conns, Read(d) PROVE FALSE
      BY <2>2, <3>1 DEF Read
    <3>2. ASSUME NEW d \in Conns, Handle(d) PROVE FALSE
      BY <3>1, <3>2 DEF Handle, ReadEof, ReadTimeout, ReadError, Parse, RunCmd, Write
    <3>3. CASE TcpBind \/ TcpBindFail \/ Join \/ \E l \in Listeners : AcceptFail(l)
      BY <3>3 DEF TcpBind, TcpBindFail, Join, AcceptFail, Exit
    <3>4. ASSUME NEW d \in Conns, Accept(d) \/ Client(d) PROVE FALSE
      BY <3>4 DEF Accept, Client, Connect, Send, Await, Close
    <3> QED
      BY <3>2, <3>3, <3>4 DEF Next
  <2> QED
    BY <2>1, <2>2
<1> QED
  BY <1>1, InitIInv, NextIInv, PTL DEF Spec, StopsDrained

-----------------------------------------------------------------------------
(***************************************************************************)
(* What ReadEnds and WholeIsAnswered rest on besides fairness              *)
(***************************************************************************)
\* One of the steps of the read loop can be taken: there is something to read,
\* or the client has ended its side, or the timer runs.
ReadCan(c) == Got(c) > 0 \/ client[c] \in {"shut", "closed"} \/ client[c] \in {"open", "reading"}

\* While a task reads it holds no more than has arrived, and can go on.
ReadingInv == \A c \in Conns : task[c] = "read" => len[c] <= wrote[c] /\ ReadCan(c)

LEMMA ReadingFollows == IInv => ReadingInv
<1> SUFFICES ASSUME IInv, NEW c \in Conns, task[c] = "read"
             PROVE  len[c] <= wrote[c] /\ ReadCan(c)
  BY DEF ReadingInv
<1>1. len[c] <= wrote[c]
  BY DEF IInv, WholeBuffers
<1>2. client[c] \notin {"idle", "queued", "left"}
  BY DEF IInv, Unaccepted
<1>3. client[c] \in {"open", "reading", "shut", "closed"}
  BY <1>2 DEF IInv, TypeOK
<1>4. QED
  BY <1>1, <1>3 DEF ReadCan

\* A turn of the read loop ends it or adds a whole buffer.
ReadTurn(c) == task[c] = "read" /\ Handle(c)
                 => task'[c] = "parse" \/ len'[c] >= len[c] + BUF_LEN

LEMMA ReadTurns == ASSUME IInv, NEW c \in Conns PROVE ReadTurn(c)
<1> SUFFICES ASSUME task[c] = "read", Handle(c), task'[c] # "parse"
             PROVE  len'[c] >= len[c] + BUF_LEN
  BY DEF ReadTurn
<1>1. task \in [Conns -> {"none", "read", "parse", "run", "write", "gone"}] /\ len \in [Conns -> Nat]
  BY DEF IInv, TypeOK
<1>2. Read(c) /\ ~(Got(c) % BUF_LEN # 0)
  BY <1>1 DEF Handle, Read, ReadEof, ReadTimeout, ReadError, Parse, RunCmd, Write, Leave
<1>3. len'[c] = len[c] + Got(c) /\ Got(c) > 0
  BY <1>1, <1>2 DEF Read
<1>4. cap[c] \in Nat /\ wrote[c] \in Nat /\ len[c] \in Nat
  BY DEF IInv, TypeOK
<1>5. len[c] <= wrote[c] /\ cap[c] - len[c] >= BUF_LEN
  BY DEF IInv, WholeBuffers
<1>6. len[c] <= cap[c]
  BY <1>4, <1>5, RoomLeft
<1>7. Got(c) \in Nat
  BY <1>5, <1>6, GotBounds DEF IInv
<1>8. \A g \in Nat : g > 0 /\ g % BUF_LEN = 0 => g >= BUF_LEN
  BY DEF BUF_LEN
<1>9. Got(c) >= BUF_LEN
  BY <1>2, <1>3, <1>7, <1>8
<1>10. BUF_LEN \in Nat
  BY DEF BUF_LEN
<1>11. QED
  BY <1>3, <1>4, <1>7, <1>9, <1>10

\* The read loop never holds more than has arrived and can always go on, and each
\* turn of it ends it or adds a whole buffer: of the bytes that have arrived at any
\* moment it takes at most one turn per BUF_LEN and one more (main.rs:38-64).
THEOREM ReadLoopRunsOut ==
    Spec => []ReadingInv /\ [][\A c \in Conns : ReadTurn(c)]_vars
<1>1. IInv /\ [Next]_vars => [\A c \in Conns : ReadTurn(c)]_vars
  BY ReadTurns
<1>2. QED
  BY <1>1, InitIInv, NextIInv, ReadingFollows, PTL DEF Spec

\* A task that stops reading has taken every byte that has arrived, also when it
\* stops at the end of the stream or at the timeout, and unless the connection
\* was reset: so a request that has arrived whole is parsed whole (main.rs:38-72).
THEOREM ParsesAllThatArrived ==
    Spec => [][\A c \in Conns : task[c] = "read" /\ task'[c] = "parse"
                                  => len'[c] = wrote[c] \/ why'[c] = "error"]_vars
<1>1. IInv /\ [Next]_vars
        => [\A c \in Conns : task[c] = "read" /\ task'[c] = "parse"
                               => len'[c] = wrote[c] \/ why'[c] = "error"]_vars
  <2> SUFFICES ASSUME IInv, Next, NEW c \in Conns, task[c] = "read", task'[c] = "parse"
               PROVE  len'[c] = wrote[c] \/ why'[c] = "error"
    OBVIOUS
  <2>1. task \in [Conns -> {"none", "read", "parse", "run", "write", "gone"}]
        /\ why \in [Conns -> {"none", "all read", "eof", "error", "timeout"}]
        /\ len \in [Conns -> Nat]
    BY DEF IInv, TypeOK
  <2>2. cap[c] \in Nat /\ wrote[c] \in Nat /\ len[c] \in Nat
    BY DEF IInv, TypeOK
  <2>3. len[c] <= wrote[c] /\ cap[c] - len[c] >= BUF_LEN /\ cap[c] % BUF_LEN = 0 /\ len[c] % BUF_LEN = 0
    BY DEF IInv, WholeBuffers
  <2>4. len[c] <= cap[c]
    BY <2>2, <2>3, RoomLeft
  <2>5. Read(c) \/ ReadEof(c) \/ ReadTimeout(c) \/ ReadError(c)
    <3>1. ~(TcpBind \/ TcpBindFail \/ Join \/ \E l \in Listeners : AcceptFail(l))
      BY <2>1 DEF TcpBind, TcpBindFail, Join, AcceptFail, Exit
    <3>2. \A d \in Conns : ~Accept(d) /\ ~Client(d)
      BY <2>1 DEF Accept, Client, Connect, Send, Await, Close
    <3>3. PICK d \in Conns : Handle(d)
      BY <3>1, <3>2 DEF Next
    <3>4. d = c
      BY <2>1, <3>3 DEF Handle, Read, ReadEof, ReadTimeout, ReadError, Parse, RunCmd, Write, Leave
    <3>5. QED
      BY <3>3, <3>4 DEF Handle, Parse, RunCmd, Write
  <2>6. CASE Read(c)
    <3>1. Got(c) % BUF_LEN # 0 /\ len'[c] = len[c] + Got(c)
      BY <2>1, <2>6 DEF Read, Leave
    <3>2. Got(c) = wrote[c] - len[c] \/ Got(c) = cap[c] - len[c]
      BY <2>3, <2>4, GotBounds DEF IInv
    <3>3. (cap[c] - len[c]) % BUF_LEN = 0
      BY <2>2, <2>3, <2>4, WholeSum
    <3>4. Got(c) = wrote[c] - len[c]
      BY <3>1, <3>2, <3>3, Zenon
    <3>5. len[c] + (wrote[c] - len[c]) = wrote[c]
      BY <2>2, Difference
    <3>6. QED
      BY <3>1, <3>4, <3>5, Zenon
  <2>7. CASE ReadEof(c) \/ ReadTimeout(c)
    <3>1. Got(c) = 0 /\ len' = len
      BY <2>7 DEF ReadEof, ReadTimeout
    <3>2. Got(c) = wrote[c] - len[c] \/ Got(c) = cap[c] - len[c]
      BY <2>3, <2>4, GotBounds DEF IInv
    <3>3. cap[c] - len[c] # 0
      BY <2>2, <2>3 DEF BUF_LEN
    <3>4. wrote[c] - len[c] = 0
      BY <3>1, <3>2, <3>3
    <3>5. len[c] = wrote[c]
      BY <2>2, <3>4
    <3>6. QED
      BY <3>1, <3>5
  <2>8. CASE ReadError(c)
    BY <2>1, <2>8 DEF ReadError, Leave
  <2>9. QED
    BY <2>5, <2>6, <2>7, <2>8
<1>2. QED
  BY <1>1, InitIInv, NextIInv, PTL DEF Spec

-----------------------------------------------------------------------------
(***************************************************************************)
(* run_cmd, which handle_stream calls                                      *)
(***************************************************************************)
\* What the command and the process it leaves behind have written is read or
\* in a pipe, and once run_cmd has returned its output neither of them is left.
OutputInv ==
    /\ sent \in Nat /\ got \in Nat /\ outPipe \in Nat /\ errPipe \in Nat
    /\ Accounted
    /\ Complete
    /\ parent = "ok" => child = "exited" /\ bg # "run"

LEMMA OutputKeeps == OutputInv /\ [CmdNext]_cmdVars => OutputInv'
<1> SUFFICES ASSUME OutputInv, [CmdNext]_cmdVars PROVE OutputInv'
  OBVIOUS
<1> USE DEF OutputInv, Accounted, Complete
<1>1. CASE Spawn \/ SpawnFail \/ WriteUnit \/ WriteFails \/ WriteDone
  <2>1. UNCHANGED <<sent, got, outPipe, errPipe>> /\ parent' # "ok"
    BY <1>1 DEF Spawn, SpawnFail, WriteUnit, WriteFails, WriteDone, ChildWait,
       pipes
  <2>2. QED
    BY <2>1
<1>2. CASE ReadUnit
  BY <1>2 DEF ReadUnit
<1>3. CASE Return
  <2>1. /\ UNCHANGED <<sent, got, outPipe, errPipe, child, bg>>
        /\ child = "exited" /\ bg # "run" /\ outPipe = 0 /\ errPipe = 0
    BY <1>3 DEF Return, Eof, pipes, proc
  <2>2. QED
    BY <2>1
<1>4. CASE ChildIn \/ ChildFork \/ ChildExit
  <2>1. /\ UNCHANGED <<sent, got, outPipe, errPipe, parent>> /\ child = "run"
    BY <1>4 DEF ChildIn, ChildFork, ChildExit, Does, pipes
  <2>2. QED
    BY <2>1
<1>5. ASSUME parent # "ok", parent' = parent, got' = got,
             \/ UNCHANGED <<sent, outPipe, errPipe>>
             \/ sent' = sent + 1 /\ outPipe' = outPipe + 1 /\ errPipe' = errPipe
             \/ sent' = sent + 1 /\ outPipe' = outPipe /\ errPipe' = errPipe + 1
      PROVE  OutputInv'
  BY <1>5
<1>6. CASE ChildOut \/ ChildErr
  <2>1. child = "run" /\ parent' = parent /\ got' = got
    BY <1>6 DEF ChildOut, ChildErr, Does
  <2>2. \/ UNCHANGED <<sent, outPipe, errPipe>>
        \/ sent' = sent + 1 /\ outPipe' = outPipe + 1 /\ errPipe' = errPipe
        \/ sent' = sent + 1 /\ outPipe' = outPipe /\ errPipe' = errPipe + 1
    BY <1>6, Zenon DEF ChildOut, ChildErr
  <2>3. QED
    BY <1>5, <2>1, <2>2
<1>7. CASE BgOut
  <2>1. bg = "run" /\ parent' = parent /\ got' = got
    BY <1>7 DEF BgOut
  <2>2. \/ UNCHANGED <<sent, outPipe, errPipe>>
        \/ sent' = sent + 1 /\ outPipe' = outPipe + 1 /\ errPipe' = errPipe
    BY <1>7, Zenon DEF BgOut
  <2>3. QED
    BY <1>5, <2>1, <2>2
<1>8. CASE Stopped \/ UNCHANGED cmdVars
  BY <1>8 DEF Stopped, cmdVars, pipes, proc
<1>9. QED
  BY <1>1, <1>2, <1>3, <1>4, <1>6, <1>7, <1>8 DEF CmdNext, Parent, Child

\* Ok(output) of run_cmd holds all that the command, and a process it left
\* behind, wrote to the captured streams (main.rs:101-123): for pipes
\* of any capacity, any input and any command.
THEOREM OutputIsComplete == CmdSpec => []Complete
<1>1. CmdInit => OutputInv
  BY DEF CmdInit, OutputInv, Accounted, Complete
<1>2. OutputInv => Complete
  BY DEF OutputInv
<1>3. QED
  BY <1>1, <1>2, OutputKeeps, PTL DEF CmdSpec

-----------------------------------------------------------------------------
\* Why nothing but two full pipes stops run_cmd.  While it writes or waits the
\* command has been started; it writes only if it was given an input, so stderr
\* is then not captured; and it waits only after it has dropped stdin.
PipesInv ==
    /\ CmdTypeOK
    /\ parent \in {"write", "wait"} => child # "none"
    /\ parent = "write" => ~Captured
    /\ parent = "wait" => stdin = "closed"

LEMMA PipesInit == CmdInit => PipesInv
<1> SUFFICES ASSUME CmdInit PROVE PipesInv
  OBVIOUS
<1>1. input.len \in Nat
  BY PipeAssumption DEF CmdInit, Options, None, Some
<1>2. script \in Seq({"in", "out", "err", "fork"})
  BY ScriptAssumption DEF CmdInit
<1>3. QED
  BY <1>1, <1>2, PipeAssumption DEF CmdInit, PipesInv, CmdTypeOK

\* What the command still has to do, after one operation.
LEMMA TailOfScript ==
    ASSUME PipesInv, script # <<>>
    PROVE  Tail(script) \in Seq({"in", "out", "err", "fork"})
  BY DEF PipesInv, CmdTypeOK

LEMMA PipesKeep == PipesInv /\ [CmdNext]_cmdVars => PipesInv'
<1> SUFFICES ASSUME PipesInv, [CmdNext]_cmdVars PROVE PipesInv'
  OBVIOUS
<1> USE PipeAssumption DEF PipesInv, CmdTypeOK, Captured, pipes, proc
<1>1. CASE Spawn
  BY <1>1 DEF Spawn, ChildWait
<1>2. CASE SpawnFail \/ WriteUnit \/ WriteFails \/ WriteDone
  BY <1>2 DEF SpawnFail, WriteUnit, WriteFails, WriteDone, ChildWait
<1>3. CASE ReadUnit \/ Return
  BY <1>3 DEF ReadUnit, Return
<1>4. CASE ChildIn
  <2>1. script # <<>> /\ script' = Tail(script)
    BY <1>4 DEF ChildIn, Does
  <2>2. script' \in Seq({"in", "out", "err", "fork"})
    BY <2>1, TailOfScript
  <2>3. inPipe' \in 0 .. PipeCap
    BY <1>4 DEF ChildIn
  <2>4. UNCHANGED <<parent, input, left, stdin, outPipe, errPipe, child, bg, sent, got>>
    BY <1>4 DEF ChildIn
  <2>5. QED
    BY <2>2, <2>3, <2>4
<1>4b. CASE ChildFork
  <2>1. script # <<>> /\ script' = Tail(script)
    BY <1>4b DEF ChildFork, Does
  <2>2. script' \in Seq({"in", "out", "err", "fork"})
    BY <2>1, TailOfScript
  <2>3. QED
    BY <1>4b, <2>2 DEF ChildFork
<1>5. CASE ChildOut
  <2>1. script # <<>> /\ (script' = Tail(script) \/ script' = <<>>)
    BY <1>5 DEF ChildOut, Does
  <2> HIDE DEF PipesInv
  <2>2. script' \in Seq({"in", "out", "err", "fork"})
    <3>1. CASE script' = <<>>
      BY <3>1
    <3>2. CASE script' = Tail(script)
      BY <2>1, <3>2, TailOfScript
    <3>3. QED
      BY <2>1, <3>1, <3>2
  <2> USE DEF PipesInv
  <2>3. outPipe' \in 0 .. PipeCap /\ sent' \in Nat
    BY <1>5 DEF ChildOut
  <2>4. UNCHANGED <<parent, input, left, stdin, inPipe, errPipe, child, bg, got>>
    BY <1>5 DEF ChildOut
  <2>5. QED
    BY <2>2, <2>3, <2>4
<1>6. CASE ChildErr
  BY <1>6, TailOfScript DEF ChildErr, Does
<1>7. CASE ChildExit \/ BgOut
  BY <1>7 DEF ChildExit, BgOut
<1>8. CASE Stopped \/ UNCHANGED cmdVars
  BY <1>8 DEF Stopped, cmdVars
<1>9. QED
  BY <1>1, <1>2, <1>3, <1>4, <1>5, <1>6, <1>7, <1>8, <1>4b DEF CmdNext, Parent, Child

\* A running command that is stuck is at one of its three streams.
LEMMA StuckAtStream ==
    ASSUME PipesInv, Stuck, child = "run"
    PROVE  Does("in") \/ Does("out") \/ Does("err")
<1>1. script # <<>> /\ ~Does("fork")
  BY DEF Stuck
<1>2. Head(script) \in {"in", "out", "err", "fork"}
  BY <1>1 DEF PipesInv, CmdTypeOK
<1>3. QED
  BY <1>1, <1>2 DEF Does

\* While run_cmd waits it empties both pipes, and the command sees the end of its
\* input: somebody can always take a step.
LEMMA NotStuckWaiting ==
    ASSUME PipesInv, Stuck, parent = "wait"
    PROVE  FALSE
<1>1. outPipe # PipeCap /\ errPipe # PipeCap /\ stdin = "closed" /\ child # "none" /\ ~Eof
  BY PipeAssumption DEF Stuck, PipesInv
<1>2. ~Does("in") /\ ~Does("out") /\ ~Does("err") /\ bg # "run"
  BY <1>1 DEF Stuck
<1>3. child # "run"
  BY <1>2, StuckAtStream
<1>4. child = "exited"
  BY <1>1, <1>3 DEF PipesInv, CmdTypeOK
<1>5. QED
  BY <1>1, <1>2, <1>4 DEF Eof, Stuck

\* While run_cmd writes, only a command that waits to write with both pipes full
\* is in its way.
LEMMA StuckWriting ==
    ASSUME PipesInv, Stuck, parent = "write"
    PROVE  inPipe = PipeCap /\ outPipe = PipeCap /\ Does("out")
<1>1. child = "run" /\ inPipe = PipeCap /\ inPipe # 0 /\ ~Captured
  BY PipeAssumption DEF Stuck, PipesInv
<1>2. ~Does("in") /\ ~Does("err")
  BY <1>1 DEF Stuck
<1>3. Does("out")
  BY <1>1, <1>2, StuckAtStream
<1>4. QED
  BY <1>1, <1>3 DEF Stuck

\* run_cmd hangs in one way only: it is still writing its input, both pipes are
\* full and the command wants to write (main.rs:114-117): for pipes of any
\* capacity, inputs of any length and any command.
THEOREM HangsOnFullPipes == CmdSpec => []HangsOnlyWhenFull
<1>1. PipesInv => HangsOnlyWhenFull
  <2> SUFFICES ASSUME PipesInv, Stuck, ~Returned
               PROVE  /\ parent = "write" /\ inPipe = PipeCap
                      /\ outPipe = PipeCap /\ Does("out")
    BY DEF HangsOnlyWhenFull
  <2>1. parent \in {"write", "wait"}
    BY DEF PipesInv, CmdTypeOK, Returned, Stuck
  <2>2. QED
    BY <2>1, NotStuckWaiting, StuckWriting
<1>2. QED
  BY <1>1, PipesInit, PipesKeep, PTL DEF CmdSpec

-----------------------------------------------------------------------------
(***************************************************************************)
(* What Returns rests on besides fairness: no state in which run_cmd hangs *)
(* on an input that fits a pipe, and no run that goes on for ever          *)
(***************************************************************************)
\* What is in the pipe and what is still to be written are parts of the input.
InputInv ==
    /\ PipesInv
    /\ left + inPipe <= input.len

LEMMA InputKeeps == InputInv /\ [CmdNext]_cmdVars => InputInv'
<1> SUFFICES ASSUME InputInv, [CmdNext]_cmdVars PROVE InputInv'
  OBVIOUS
<1>1. PipesInv /\ PipesInv'
  BY PipesKeep DEF InputInv
<1>2. left \in Nat /\ inPipe \in Nat /\ left + inPipe <= input.len /\ input.len \in Nat
  <2>1. input.len \in Nat
    BY <1>1, PipeAssumption DEF PipesInv, CmdTypeOK, Options, None, Some
  <2>2. QED
    BY <1>1, <2>1 DEF PipesInv, CmdTypeOK, InputInv
<1>3. input' = input
  BY DEF CmdNext, Parent, Child, Stopped, cmdVars, Spawn, SpawnFail, WriteUnit, WriteFails,
     WriteDone, ReadUnit, Return, ChildIn, ChildOut, ChildErr, ChildFork, ChildExit, BgOut
<1>4. CASE WriteUnit
  BY <1>1, <1>2, <1>3, <1>4 DEF WriteUnit, InputInv
<1>5. CASE ChildIn
  BY <1>1, <1>2, <1>3, <1>5 DEF ChildIn, InputInv
<1>6. CASE ~WriteUnit /\ ~ChildIn
  <2>1. left' = left /\ inPipe' = inPipe
    BY <1>6 DEF CmdNext, Parent, Child, Stopped, cmdVars, pipes, Spawn, SpawnFail, WriteFails,
       WriteDone, ReadUnit, Return, ChildOut, ChildErr, ChildFork, ChildExit, BgOut
  <2>2. QED
    BY <1>1, <1>2, <1>3, <2>1 DEF InputInv
<1>7. QED
  BY <1>4, <1>5, <1>6

\* run_cmd never hangs on an input that fits a pipe, nor without input: wherever
\* nobody can take a step, it has returned (main.rs:101-123).
THEOREM NoHangIfInputFits ==
    CmdSpec => [](input.len <= PipeCap /\ Stuck => Returned)
<1>1. CmdInit => InputInv
  <2> SUFFICES ASSUME CmdInit PROVE InputInv
    OBVIOUS
  <2>1. PipesInv
    BY PipesInit
  <2>2. left = input.len /\ inPipe = 0 /\ left \in Nat
    BY <2>1 DEF CmdInit, PipesInv, CmdTypeOK
  <2>3. QED
    BY <2>1, <2>2 DEF InputInv
<1>2. InputInv => (input.len <= PipeCap /\ Stuck => Returned)
  <2> SUFFICES ASSUME InputInv, input.len <= PipeCap, Stuck, ~Returned PROVE FALSE
    OBVIOUS
  <2>1. PipesInv
    BY DEF InputInv
  <2>2. parent = "write"
    BY <2>1, NotStuckWaiting DEF PipesInv, CmdTypeOK, Returned, Stuck
  <2>3. left > 0 /\ inPipe = PipeCap /\ left \in Nat
    BY <2>1, <2>2 DEF Stuck, PipesInv, CmdTypeOK
  <2>4. input.len \in Nat
    BY <2>1, PipeAssumption DEF PipesInv, CmdTypeOK, Options, None, Some
  <2>5. QED
    BY <2>3, <2>4, PipeAssumption DEF InputInv
<1>3. QED
  BY <1>1, <1>2, InputKeeps, PTL DEF CmdSpec

\* What is left to do.  An operation of the command may put a unit into a pipe,
\* from which it is read, or start the process that does.
ParentWork == CASE parent = "spawn" -> 4
                [] parent = "write" -> 2
                [] parent = "wait"  -> 1
                [] OTHER -> 0
ChildWork  == IF child = "run" THEN 1 ELSE 0
BgWork     == IF bg = "run" THEN 2 ELSE 0
Work == ParentWork + ChildWork + BgWork + left + outPipe + errPipe + 4 * Len(script)

LEMMA WorkNat == PipesInv => Work \in Nat
<1> SUFFICES ASSUME PipesInv PROVE Work \in Nat
  OBVIOUS
<1>1. ParentWork \in Nat /\ ChildWork \in Nat /\ BgWork \in Nat
  BY DEF ParentWork, ChildWork, BgWork
<1>2. Len(script) \in Nat /\ left \in Nat /\ outPipe \in Nat /\ errPipe \in Nat
  BY PipeAssumption DEF PipesInv, CmdTypeOK
<1>3. QED
  BY <1>1, <1>2 DEF Work

\* A command that has done an operation has one less to do.
LEMMA LessToDo ==
    ASSUME PipesInv, script # <<>>, script' = Tail(script)
    PROVE  Len(script) \in Nat /\ Len(script') = Len(script) - 1
  BY DEF PipesInv, CmdTypeOK

\* Every step of run_cmd, of the command and of what it left behind uses up some
\* of the work, so there are finitely many of them (main.rs:101-123): with
\* NoHangIfInputFits, run_cmd returns if no one of the three is held up for ever.
THEOREM CommandRunsOut == CmdSpec => [](Work \in Nat) /\ [][Work' < Work]_cmdVars
<1>1. PipesInv /\ [CmdNext]_cmdVars => [Work' < Work]_cmdVars
  <2> SUFFICES ASSUME PipesInv, CmdNext, ~UNCHANGED cmdVars PROVE Work' < Work
    OBVIOUS
  <2>1. Len(script) \in Nat /\ left \in Nat /\ outPipe \in Nat /\ errPipe \in Nat
    BY PipeAssumption DEF PipesInv, CmdTypeOK
  <2>2. ParentWork \in Nat /\ ChildWork \in Nat /\ BgWork \in Nat
    BY DEF ParentWork, ChildWork, BgWork
  <2>3. CASE Spawn
    <3>1. UNCHANGED <<left, outPipe, errPipe, script, bg>>
      BY <2>3 DEF Spawn, pipes
    <3>2. ParentWork = 4 /\ ParentWork' \in {1, 2}
      BY <2>3 DEF Spawn, ChildWait, ParentWork
    <3>3. ChildWork' = 1 /\ BgWork' = BgWork
      BY <2>3, <3>1 DEF Spawn, ChildWork, BgWork
    <3>4. QED
      BY <2>1, <2>2, <3>1, <3>2, <3>3 DEF Work
  <2>4. CASE SpawnFail \/ WriteFails \/ WriteDone \/ Return
    <3>1. UNCHANGED <<left, outPipe, errPipe, script, child, bg>>
      BY <2>4 DEF SpawnFail, WriteFails, WriteDone, Return, pipes, proc
    <3>2. ParentWork' < ParentWork /\ ParentWork' \in Nat
      BY <2>4 DEF SpawnFail, WriteFails, WriteDone, Return, ChildWait, ParentWork
    <3>3. ChildWork' = ChildWork /\ BgWork' = BgWork
      BY <3>1 DEF ChildWork, BgWork
    <3>4. QED
      BY <2>1, <2>2, <3>1, <3>2, <3>3 DEF Work
  <2>5. CASE WriteUnit \/ ReadUnit
    <3>1. UNCHANGED <<parent, script, child, bg>>
      BY <2>5 DEF WriteUnit, ReadUnit, proc
    <3>2. ParentWork' = ParentWork /\ ChildWork' = ChildWork /\ BgWork' = BgWork
      BY <3>1 DEF ParentWork, ChildWork, BgWork
    <3>3. \/ left' = left - 1 /\ outPipe' = outPipe /\ errPipe' = errPipe
          \/ left' = left /\ outPipe' = outPipe - 1 /\ errPipe' = errPipe
          \/ left' = left /\ outPipe' = outPipe /\ errPipe' = errPipe - 1
      BY <2>5, Zenon DEF WriteUnit, ReadUnit
    <3>4. QED
      BY <2>1, <2>2, <3>1, <3>2, <3>3 DEF Work
  <2>6. CASE ChildIn \/ ChildErr \/ ChildFork
    <3>1. UNCHANGED <<parent, left, outPipe, child>>
      BY <2>6 DEF ChildIn, ChildErr, ChildFork, pipes
    <3>2. ParentWork' = ParentWork /\ ChildWork' = ChildWork
      BY <3>1 DEF ParentWork, ChildWork
    <3>3. Len(script') = Len(script) - 1
      BY <2>6, LessToDo DEF ChildIn, ChildErr, ChildFork, Does
    <3>4. \/ errPipe' = errPipe /\ bg' \in {bg, "run"}
          \/ errPipe' = errPipe + 1 /\ bg' = bg
      BY <2>6 DEF ChildIn, ChildErr, ChildFork, pipes
    <3>5. \/ errPipe' = errPipe /\ BgWork' \in {BgWork, 2}
          \/ errPipe' = errPipe + 1 /\ BgWork' = BgWork
      BY <3>4 DEF BgWork
    <3>6. QED
      BY <2>1, <2>2, <3>1, <3>2, <3>3, <3>5 DEF Work
  <2>7. CASE ChildOut
    <3>1. UNCHANGED <<parent, left, errPipe, child, bg>>
      BY <2>7 DEF ChildOut
    <3>2. ParentWork' = ParentWork /\ ChildWork' = ChildWork /\ BgWork' = BgWork
      BY <3>1 DEF ParentWork, ChildWork, BgWork
    <3>3. Len(script) > 0 /\ Len(script') \in {0, Len(script) - 1}
      <4>1. script # <<>> /\ script \in Seq({"in", "out", "err", "fork"})
        BY <2>7 DEF ChildOut, Does, PipesInv, CmdTypeOK
      <4>2. script' = Tail(script) \/ script' = <<>>
        BY <2>7 DEF ChildOut
      <4>3. QED
        BY <4>1, <4>2
    <3>4. outPipe' = outPipe + 1 \/ outPipe' = outPipe
      BY <2>7 DEF ChildOut
    <3>5. QED
      BY <2>1, <2>2, <3>1, <3>2, <3>3, <3>4 DEF Work
  <2>8. CASE ChildExit
    <3>1. UNCHANGED <<parent, left, outPipe, errPipe, script, bg>>
      BY <2>8 DEF ChildExit, pipes
    <3>2. ParentWork' = ParentWork /\ BgWork' = BgWork
      BY <3>1 DEF ParentWork, BgWork
    <3>3. ChildWork = 1 /\ ChildWork' = 0
      BY <2>8 DEF ChildExit, ChildWork
    <3>4. QED
      BY <2>1, <2>2, <3>1, <3>2, <3>3 DEF Work
  <2>9. CASE BgOut
    <3>1. UNCHANGED <<parent, left, errPipe, script, child>>
      BY <2>9 DEF BgOut
    <3>2. ParentWork' = ParentWork /\ ChildWork' = ChildWork
      BY <3>1 DEF ParentWork, ChildWork
    <3>3. BgWork = 2 /\ BgWork' = 0
      BY <2>9 DEF BgOut, BgWork
    <3>4. outPipe' = outPipe + 1 \/ outPipe' = outPipe
      BY <2>9 DEF BgOut
    <3>5. QED
      BY <2>1, <2>2, <3>1, <3>2, <3>3, <3>4 DEF Work
  <2>10. QED
    BY <2>3, <2>4, <2>5, <2>6, <2>7, <2>8, <2>9 DEF CmdNext, Parent, Child, Stopped
<1>2. QED
  BY <1>1, PipesInit, PipesKeep, WorkNat, PTL DEF CmdSpec
=============================================================================
