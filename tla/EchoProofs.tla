----------------------------- MODULE EchoProofs -----------------------------
(***************************************************************************)
(* echoserver and proxy for any number of clients, workers and datagrams,  *)
(* any buffer, pipe and channel: replies hold what was sent and no byte    *)
(* else, the logger's lag is bounded, and a client that reads to the end   *)
(* has its line.                                                           *)
(***************************************************************************)
EXTENDS EchoService, FiniteSetTheorems, SequenceTheorems, TLAPS

-----------------------------------------------------------------------------
(***************************************************************************)
(* The inductive invariants                                                *)
(***************************************************************************)
Bytes == Datagrams \cup {zero}

\* A worker between its two system calls has a datagram that was sent at the
\* beginning of its buffer
UdpInv ==
    /\ queued \subseteq sent /\ sent \subseteq Datagrams
    /\ worker \in [W -> {"recv", "send", "log", "dead"}]
    /\ buf \in [W -> [1 .. BufLen -> Bytes]] /\ DOMAIN got = W
    /\ \A w \in W : worker[w] = "send" =>
          \E d \in sent : /\ got[w] = <<Least(Size(d), BufLen), From(d)>>
                          /\ \A i \in 1 .. Least(Size(d), BufLen) : buf[w][i] = d

LogTypes ==
    /\ chan \in 0 .. LogCap /\ lag \in Int
    /\ logger \in {"recv", "print", "dead"}

Logging   == {w \in W : worker[w] = "log"}
Stopped   == {w \in W : worker[w] \in {"log", "dead"}}

\* While the logger lives, an echo that is not printed is in its hand, in the
\* channel or with a worker; when it is gone, every worker may add one more
\* before it finds out
LagInv ==
    /\ udp /\ logger # "dead" =>
          lag = chan + (IF logger = "print" THEN 1 ELSE 0) + Cardinality(Logging)
    /\ udp => lag <= LogCap + 1 + Cardinality(Stopped)

ConnType == [client : {"off", "open", "gone"}, px : {"none", "copy", "done"},
             srv : {"none", "backlog", "copy", "log", "closed"},
             wr : Nat, rd : Nat, q : [Pipes -> Nat],
             fin : SUBSET Pipes, gone : SUBSET Pipes, rst : SUBSET {"near", "far"},
             done : SUBSET {"up", "down"}, short : BOOLEAN]

Waiting(c) == c \in {backlog[i] : i \in DOMAIN backlog} \/ proxy = <<"connect", c>>

\* A connection is in the proxy's hands once, and neither process has seen it
\* before
AcceptInv ==
    /\ conn \in [Conns -> ConnType]
    /\ backlog \in Seq(Conns)
    /\ proxy \in {<<"accept">>, <<"exited">>} \cup {<<"connect", c>> : c \in Conns}
    /\ server \in {"up", "exited"}
    /\ \A i, j \in DOMAIN backlog : i # j => backlog[i] # backlog[j]
    /\ \A i \in DOMAIN backlog : proxy # <<"connect", backlog[i]>>
    /\ \A c \in Conns :
          /\ Waiting(c) => conn[c].client # "off" /\ conn[c].px = "none" /\ conn[c].srv = "none"
          /\ conn[c].client = "off" => conn[c] = NewConn

\* The client's view of a connection no process has broken: no byte is lost
\* and nothing is reset; an end of stream comes after all the bytes before it,
\* and goes around from the client, over both tasks, back to it
Intact(k, line) ==
    /\ k.rst = {} /\ "down1" \notin k.gone
    /\ k.wr = k.rd + k.q["up1"] + k.q["up2"] + k.q["down2"] + k.q["down1"]
    /\ k.wr <= line
    /\ "up1" \in k.fin => k.wr = line
    /\ "up2" \in k.fin => "up1" \in k.fin /\ k.q["up1"] = 0
    /\ "down2" \in k.fin => "up2" \in k.fin /\ k.q["up2"] = 0
    /\ "down1" \in k.fin => "down2" \in k.fin /\ k.q["down2"] = 0
    /\ k.px # "done" => ("up" \in k.done <=> "up2" \in k.fin) /\ ("down" \in k.done <=> "down1" \in k.fin)
    /\ k.srv \in {"log", "closed"} => "up2" \in k.fin /\ k.q["up2"] = 0
    /\ k.srv = "closed" <=> "down2" \in k.fin
    /\ "up2" \in k.gone => k.srv = "closed"
    /\ "up1" \in k.gone \/ "down2" \in k.gone => k.px = "done"
    /\ k.px = "done" => "down1" \in k.fin
    /\ k.px = "none" => k.done = {}

IntactInv ==
    \A c \in Conns : conn[c].client = "open" /\ ~Broken => Intact(conn[c], Line(c))

-----------------------------------------------------------------------------
(***************************************************************************)
(* UDP: what is sent back                                                  *)
(***************************************************************************)
LEMMA LeastFacts ==
    ASSUME NEW d \in Datagrams
    PROVE  /\ Least(Size(d), BufLen) \in 0 .. BufLen /\ Least(Size(d), BufLen) <= Size(d)
           /\ Size(d) \in Nat /\ BufLen \in Nat
  BY UdpAssumption DEF Least

\* The beginning of a buffer that holds a datagram is the datagram.
LEMMA Beginning ==
    ASSUME NEW s \in [1 .. BufLen -> Bytes], NEW m \in 0 .. BufLen, NEW d,
           \A i \in 1 .. m : s[i] = d
    PROVE  SubSeq(s, 1, m) = [i \in 1 .. m |-> d]
<1>1. BufLen \in Nat
  BY UdpAssumption
<1>2. s \in Seq(Bytes) /\ Len(s) = BufLen
  BY <1>1
<1>3. SubSeq(s, 1, m) = [i \in 1 .. m |-> s[i]]
  BY <1>1, <1>2
<1>4. QED
  BY <1>3

\* Steps that send nothing back and read nothing.
LEMMA UdpFrame ==
    ASSUME UdpInv, EchoSound, UNCHANGED <<buf, got, replies>>,
           sent \subseteq sent', queued' \subseteq sent', sent' \subseteq Datagrams,
           worker' \in [W -> {"recv", "send", "log", "dead"}],
           \A w \in W : worker'[w] = "send" => worker[w] = "send"
    PROVE  UdpInv' /\ EchoSound'
<1>1. UdpInv'
  BY DEF UdpInv
<1>2. EchoSound'
  BY DEF EchoSound
<1>3. QED
  BY <1>1, <1>2

LEMMA RecvFromKeeps ==
    ASSUME UdpInv, EchoSound, NEW w \in W, NEW d \in Datagrams, RecvFrom(w, d)
    PROVE  UdpInv' /\ EchoSound'
<1>1. PICK b : b = [i \in 1 .. BufLen |-> IF i <= Size(d) THEN d ELSE buf[w][i]]
  OBVIOUS
<1>2. /\ buf' = [buf EXCEPT ![w] = b] /\ d \in sent
      /\ got' = [got EXCEPT ![w] = <<Least(Size(d), BufLen), From(d)>>]
      /\ worker' = [worker EXCEPT ![w] = "send"]
      /\ sent' = sent /\ replies' = replies /\ queued' \subseteq queued
  BY <1>1 DEF RecvFrom, UdpInv
<1>3. b \in [1 .. BufLen -> Bytes]
  <2>1. buf[w] \in [1 .. BufLen -> Bytes]
    BY DEF UdpInv
  <2>2. d \in Bytes
    BY DEF Bytes
  <2>3. QED
    BY <1>1, <2>1, <2>2
<1>4. \A i \in 1 .. Least(Size(d), BufLen) : b[i] = d
  BY <1>1, LeastFacts
<1>5. ASSUME NEW v \in W, worker'[v] = "send"
      PROVE  \E e \in sent' : /\ got'[v] = <<Least(Size(e), BufLen), From(e)>>
                              /\ \A i \in 1 .. Least(Size(e), BufLen) : buf'[v][i] = e
  <2>1. CASE v = w
    <3>1. buf'[v] = b
      BY <1>2, <2>1 DEF UdpInv
    <3>2. got'[v] = <<Least(Size(d), BufLen), From(d)>>
      BY <1>2, <2>1, <1>5 DEF UdpInv
    <3>3. QED
      BY <1>2, <1>4, <3>1, <3>2
  <2>2. CASE v # w
    <3>1. worker[v] = "send" /\ got'[v] = got[v] /\ buf'[v] = buf[v]
      BY <1>2, <1>5, <2>2 DEF UdpInv
    <3>2. QED
      BY <1>2, <3>1 DEF UdpInv
  <2>3. QED
    BY <2>1, <2>2
<1>6. UdpInv'
  BY <1>2, <1>3, <1>5 DEF UdpInv
<1>7. EchoSound'
  BY <1>2 DEF EchoSound
<1>8. QED
  BY <1>6, <1>7

LEMMA SendToKeeps ==
    ASSUME UdpInv, EchoSound, NEW w \in W, SendTo(w)
    PROVE  UdpInv' /\ EchoSound'
<1>1. worker[w] = "send" /\ UNCHANGED <<sent, queued, buf, got>>
  BY DEF SendTo
<1>2. PICK d \in sent : /\ got[w] = <<Least(Size(d), BufLen), From(d)>>
                        /\ \A i \in 1 .. Least(Size(d), BufLen) : buf[w][i] = d
  BY <1>1 DEF UdpInv
<1>3. SubSeq(buf[w], 1, got[w][1]) = [i \in 1 .. Least(Size(d), BufLen) |-> d]
  <2>1. PICK m \in 0 .. BufLen : m = Least(Size(d), BufLen)
    BY <1>2, LeastFacts DEF UdpInv
  <2>2. got[w][1] = m /\ buf[w] \in [1 .. BufLen -> Bytes] /\ \A i \in 1 .. m : buf[w][i] = d
    BY <1>2, <2>1 DEF UdpInv
  <2>3. SubSeq(buf[w], 1, m) = [i \in 1 .. m |-> d]
    BY <2>2, Beginning
  <2>4. QED
    BY <2>1, <2>2, <2>3, Zenon
<1>4. \A e \in replies' \ replies :
         e.to = From(d) /\ e.data = [i \in 1 .. Least(Size(d), BufLen) |-> d]
  <2>1. got[w][2] = From(d)
    BY <1>2
  <2>2. PICK x : x = [i \in 1 .. Least(Size(d), BufLen) |-> d]
    OBVIOUS
  <2>3. replies' = replies \cup {[to |-> From(d), data |-> x]}
    BY <1>3, <2>1, <2>2, Zenon DEF SendTo
  <2>4. \A e \in replies' \ replies : e.to = From(d) /\ e.data = x
    BY <2>3
  <2>5. QED
    BY <2>2, <2>4, Zenon
<1>5. EchoSound'
  BY <1>1, <1>4 DEF EchoSound
<1>6. UdpInv'
  BY <1>1 DEF UdpInv, SendTo
<1>7. QED
  BY <1>5, <1>6

LEMMA UdpKeeps ==
    UdpInv /\ EchoSound /\ [Next]_vars => UdpInv' /\ EchoSound'
<1> SUFFICES ASSUME UdpInv, EchoSound, [Next]_vars PROVE UdpInv' /\ EchoSound'
  OBVIOUS
<1>1. ASSUME NEW d \in Datagrams, Send(d) PROVE UdpInv' /\ EchoSound'
  BY <1>1, UdpFrame DEF Send, UdpInv
<1>2. ASSUME NEW w \in W, Report(w) \/ WorkerPanics(w) PROVE UdpInv' /\ EchoSound'
  <2>1. /\ UNCHANGED <<sent, queued, buf, got, replies>>
        /\ worker' = [worker EXCEPT ![w] = "recv"] \/ worker' = [worker EXCEPT ![w] = "dead"]
    BY <1>2 DEF Report, WorkerPanics
  <2>2. QED
    BY <2>1, UdpFrame DEF UdpInv
<1>3. CASE UNCHANGED <<sent, queued, worker, buf, got, replies>>
  BY <1>3, UdpFrame DEF UdpInv
<1>4. CASE UdpNext
  <2>1. CASE MainReturns \/ UdpLog
    BY <1>3, <2>1 DEF MainReturns, UdpLog, udpVars
  <2>2. QED
    BY <1>1, <1>2, <1>4, <2>1, RecvFromKeeps, SendToKeeps DEF UdpNext
<1>5. QED
  BY <1>3, <1>4 DEF Next, UdpStep, TcpStep, udpVars, vars

\* Every UDP reply is a datagram some client sent, back to that client, cut
\* to the buffer and without a byte of what the buffer held before, for any
\* workers, datagrams and buffer (echoserver/main.rs:116-119).
THEOREM RepliesAreEchoes == Spec => []EchoSound
<1>1. Init => UdpInv /\ EchoSound
  <2> SUFFICES ASSUME Init PROVE UdpInv /\ EchoSound
    OBVIOUS
  <2>1. buf \in [W -> [1 .. BufLen -> Bytes]]
    BY DEF Init, UdpInit, Bytes
  <2>2. QED
    BY <2>1 DEF Init, UdpInit, UdpInv, EchoSound
<1>2. QED
  BY <1>1, UdpKeeps, PTL DEF Spec

-----------------------------------------------------------------------------
(***************************************************************************)
(* TCP: what the operations make of a connection                           *)
(***************************************************************************)
LEMMA LegType == \A p \in Pipes : Leg[p] \in {"near", "far"}
  BY DEF Leg, Pipes

SameTasks(r, k) ==
    r.client = k.client /\ r.px = k.px /\ r.srv = k.srv /\ r.short = k.short

LEMMA ReadFacts ==
    ASSUME NEW k \in ConnType, NEW p \in Pipes, CanRead(k, p), NEW r, r = Read(k, p)
    PROVE  /\ r \in ConnType /\ SameTasks(r, k)
           /\ r.wr = k.wr /\ r.rd = k.rd /\ r.fin = k.fin /\ r.gone = k.gone
           /\ r.rst = k.rst /\ r.done = k.done
           /\ \A x \in Pipes : r.q[x] = IF x = p THEN k.q[x] - 1 ELSE k.q[x]
<1>1. PICK f : f = [k.q EXCEPT ![p] = k.q[p] - 1]
  OBVIOUS
<1>2. k.q \in [Pipes -> Nat]
  BY DEF ConnType
<1>3. f \in [Pipes -> Nat] /\ \A x \in Pipes : f[x] = IF x = p THEN k.q[x] - 1 ELSE k.q[x]
  BY <1>1, <1>2 DEF CanRead
<1>4. r = [k EXCEPT !.q = f]
  BY <1>1 DEF Read
<1>5. /\ r \in ConnType /\ r.q = f /\ SameTasks(r, k)
      /\ r.wr = k.wr /\ r.rd = k.rd /\ r.fin = k.fin /\ r.gone = k.gone
      /\ r.rst = k.rst /\ r.done = k.done
  BY <1>3, <1>4 DEF ConnType, SameTasks
<1>6. QED
  BY <1>3, <1>5

LEMMA WriteFacts ==
    ASSUME NEW k \in ConnType, NEW p \in Pipes, NEW r, r = Write(k, p)
    PROVE  /\ r \in ConnType /\ SameTasks(r, k)
           /\ r.wr = k.wr /\ r.rd = k.rd /\ r.fin = k.fin /\ r.gone = k.gone /\ r.done = k.done
           /\ p \notin k.gone => /\ r.rst = k.rst
                                 /\ \A x \in Pipes : r.q[x] = IF x = p THEN k.q[x] + 1 ELSE k.q[x]
<1>1. PICK f : f = [k.q EXCEPT ![p] = k.q[p] + 1]
  OBVIOUS
<1>2. k.q \in [Pipes -> Nat]
  BY DEF ConnType
<1>3. f \in [Pipes -> Nat] /\ \A x \in Pipes : f[x] = IF x = p THEN k.q[x] + 1 ELSE k.q[x]
  BY <1>1, <1>2
<1>4. CASE p \notin k.gone
  <2>1. r = [k EXCEPT !.q = f]
    BY <1>1, <1>4 DEF Write
  <2>2. /\ r \in ConnType /\ r.q = f /\ SameTasks(r, k)
        /\ r.wr = k.wr /\ r.rd = k.rd /\ r.fin = k.fin /\ r.gone = k.gone
        /\ r.rst = k.rst /\ r.done = k.done
    BY <1>3, <2>1 DEF ConnType, SameTasks
  <2>3. QED
    BY <1>3, <2>2
<1>5. CASE p \in k.gone
  <2>1. PICK z : z = k.rst \cup {Leg[p]}
    OBVIOUS
  <2>2. z \in SUBSET {"near", "far"}
    BY <2>1, LegType DEF ConnType
  <2>3. r = [k EXCEPT !.rst = z]
    BY <1>5, <2>1 DEF Write
  <2>4. /\ r \in ConnType /\ SameTasks(r, k)
        /\ r.wr = k.wr /\ r.rd = k.rd /\ r.fin = k.fin /\ r.gone = k.gone /\ r.done = k.done
    BY <2>2, <2>3 DEF ConnType, SameTasks
  <2>5. QED
    BY <1>5, <2>4
<1>6. QED
  BY <1>4, <1>5

LEMMA CloseFacts ==
    ASSUME NEW k \in ConnType, NEW in \in Pipes, NEW out \in Pipes, NEW r, r = Close(k, in, out)
    PROVE  /\ r \in ConnType /\ SameTasks(r, k)
           /\ r.wr = k.wr /\ r.rd = k.rd /\ r.done = k.done
           /\ r.fin = k.fin \cup {out} /\ r.gone = k.gone \cup {in}
           /\ k.q[in] = 0 => r.rst = k.rst /\ \A x \in Pipes : r.q[x] = k.q[x]
<1>1. PICK f : f = [k.q EXCEPT ![in] = 0]
  OBVIOUS
<1>2. k.q \in [Pipes -> Nat]
  BY DEF ConnType
<1>3. f \in [Pipes -> Nat] /\ \A x \in Pipes : f[x] = IF x = in THEN 0 ELSE k.q[x]
  BY <1>1, <1>2
<1>4. PICK z : z = IF k.q[in] > 0 THEN k.rst \cup {Leg[in]} ELSE k.rst
  OBVIOUS
<1>5. z \in SUBSET {"near", "far"} /\ (k.q[in] = 0 => z = k.rst)
  BY <1>4, LegType DEF ConnType
<1>6. PICK a, b : a = k.fin \cup {out} /\ b = k.gone \cup {in}
  OBVIOUS
<1>7. a \in SUBSET Pipes /\ b \in SUBSET Pipes
  BY <1>6 DEF ConnType
<1>8. r = [k EXCEPT !.fin = a, !.gone = b, !.q = f, !.rst = z]
  BY <1>1, <1>4, <1>6, Zenon DEF Close
<1>9. /\ r \in ConnType /\ SameTasks(r, k)
      /\ r.wr = k.wr /\ r.rd = k.rd /\ r.done = k.done
      /\ r.fin = a /\ r.gone = b /\ r.rst = z /\ r.q = f
  BY <1>3, <1>5, <1>7, <1>8 DEF ConnType, SameTasks
<1>10. QED
  BY <1>3, <1>5, <1>6, <1>9

LEMMA WriteLine ==
    ASSUME NEW k \in ConnType, NEW line \in Nat, k.wr < line, NEW r,
           r = [Write(k, "up1") EXCEPT !.wr = @ + 1]
    PROVE  r \in ConnType /\ SameTasks(r, k) /\ (Intact(k, line) => Intact(r, line))
<1>1. "up1" \in Pipes
  BY DEF Pipes
<1>2. PICK e : e = Write(k, "up1")
  OBVIOUS
<1>3. /\ e \in ConnType /\ SameTasks(e, k)
      /\ e.wr = k.wr /\ e.rd = k.rd /\ e.fin = k.fin /\ e.gone = k.gone /\ e.done = k.done
      /\ "up1" \notin k.gone => /\ e.rst = k.rst
                              /\ \A x \in Pipes : e.q[x] = IF x = "up1" THEN k.q[x] + 1 ELSE k.q[x]
  BY <1>1, <1>2, WriteFacts
<1>4. r = [e EXCEPT !.wr = k.wr + 1]
  BY <1>2, <1>3
<1>5. /\ r \in ConnType /\ SameTasks(r, k) /\ r.wr = k.wr + 1
      /\ r.rd = k.rd /\ r.fin = k.fin /\ r.gone = k.gone /\ r.done = k.done
      /\ r.rst = e.rst /\ r.q = e.q
  BY <1>3, <1>4 DEF ConnType, SameTasks
<1>6. ASSUME Intact(k, line) PROVE Intact(r, line)
  <2>1. "up1" \notin k.gone
    BY <1>6 DEF Intact, ConnType
  <2>2. /\ r.q["up1"] = k.q["up1"] + 1 /\ r.q["up2"] = k.q["up2"]
        /\ r.q["down1"] = k.q["down1"] /\ r.q["down2"] = k.q["down2"] /\ r.rst = k.rst
    BY <1>3, <1>5, <2>1 DEF Pipes
  <2>3. /\ k.q["up1"] \in Nat /\ k.q["up2"] \in Nat /\ k.q["down1"] \in Nat /\ k.q["down2"] \in Nat
        /\ k.wr \in Nat /\ k.rd \in Nat
    BY DEF ConnType, Pipes
  <2>4. QED
    BY <1>5, <1>6, <2>2, <2>3 DEF Intact, SameTasks
<1>7. QED
  BY <1>5, <1>6

LEMMA ShutdownLine ==
    ASSUME NEW k \in ConnType, NEW line \in Nat, k.wr = line, NEW r,
           r = [k EXCEPT !.fin = @ \cup {"up1"}]
    PROVE  r \in ConnType /\ SameTasks(r, k) /\ (Intact(k, line) => Intact(r, line))
<1>1. /\ r \in ConnType /\ SameTasks(r, k) /\ r.wr = k.wr /\ r.rd = k.rd /\ r.q = k.q
      /\ r.fin = k.fin \cup {"up1"} /\ r.gone = k.gone /\ r.done = k.done /\ r.rst = k.rst
  BY DEF ConnType, SameTasks, Pipes
<1>2. QED
  BY <1>1 DEF Intact, SameTasks

LEMMA ReadLine ==
    ASSUME NEW k \in ConnType, NEW line \in Nat, CanRead(k, "down1"), NEW r,
           r = [Read(k, "down1") EXCEPT !.rd = @ + 1]
    PROVE  r \in ConnType /\ SameTasks(r, k) /\ (Intact(k, line) => Intact(r, line))
<1>1. "down1" \in Pipes
  BY DEF Pipes
<1>2. PICK e : e = Read(k, "down1")
  OBVIOUS
<1>3. /\ e \in ConnType /\ SameTasks(e, k)
      /\ e.wr = k.wr /\ e.rd = k.rd /\ e.fin = k.fin /\ e.gone = k.gone
      /\ e.rst = k.rst /\ e.done = k.done
      /\ \A x \in Pipes : e.q[x] = IF x = "down1" THEN k.q[x] - 1 ELSE k.q[x]
  BY <1>1, <1>2, ReadFacts
<1>4. r = [e EXCEPT !.rd = k.rd + 1]
  BY <1>2, <1>3
<1>5. /\ r \in ConnType /\ SameTasks(r, k) /\ r.rd = k.rd + 1
      /\ r.wr = k.wr /\ r.fin = k.fin /\ r.gone = k.gone /\ r.done = k.done
      /\ r.rst = k.rst /\ r.q = e.q
  BY <1>3, <1>4 DEF ConnType, SameTasks
<1>6. ASSUME Intact(k, line) PROVE Intact(r, line)
  <2>1. /\ r.q["up1"] = k.q["up1"] /\ r.q["up2"] = k.q["up2"]
        /\ r.q["down1"] = k.q["down1"] - 1 /\ r.q["down2"] = k.q["down2"]
    BY <1>3, <1>5 DEF Pipes
  <2>2. /\ k.q["up1"] \in Nat /\ k.q["up2"] \in Nat /\ k.q["down1"] \in Nat /\ k.q["down2"] \in Nat
        /\ k.wr \in Nat /\ k.rd \in Nat
    BY DEF ConnType, Pipes
  <2>3. QED
    BY <1>5, <1>6, <2>1, <2>2 DEF Intact, SameTasks
<1>7. QED
  BY <1>5, <1>6

\* A client of an intact connection that comes to the end has the line.
LEMMA EndOfLine ==
    ASSUME NEW k \in ConnType, NEW line \in Nat, AtEof(k, "down1"), Intact(k, line)
    PROVE  k.rd = line
<1>1. /\ k.q["up1"] \in Nat /\ k.q["up2"] \in Nat /\ k.q["down1"] \in Nat /\ k.q["down2"] \in Nat
      /\ k.wr \in Nat /\ k.rd \in Nat
  BY DEF ConnType, Pipes
<1>2. QED
  BY <1>1 DEF Intact, AtEof

LEMMA LeaveFacts ==
    ASSUME NEW k \in ConnType, NEW r, r = Leave(k)
    PROVE  r \in ConnType /\ r.client = "gone" /\ r.px = k.px /\ r.srv = k.srv /\ r.short = k.short
<1>1. PICK e : e = Close(k, "down1", "up1")
  OBVIOUS
<1>2. e \in ConnType /\ SameTasks(e, k)
  BY <1>1, CloseFacts DEF Pipes
<1>3. r = [e EXCEPT !.client = "gone", !.wr = 0, !.rd = 0]
  BY <1>1 DEF Leave
<1>4. r \in ConnType
  <2>1. PICK f \in ConnType : f = [e EXCEPT !.client = "gone"]
    BY <1>2 DEF ConnType
  <2>2. PICK g \in ConnType : g = [f EXCEPT !.wr = 0]
    BY DEF ConnType
  <2>3. r = [g EXCEPT !.rd = 0]
    BY <1>3, <2>1, <2>2
  <2>4. QED
    BY <2>3 DEF ConnType
<1>5. r.client = "gone" /\ r.px = e.px /\ r.srv = e.srv /\ r.short = e.short
  BY <1>2, <1>3 DEF ConnType
<1>6. QED
  BY <1>2, <1>4, <1>5 DEF SameTasks

LEMMA TransferByte ==
    ASSUME NEW k \in ConnType, NEW line \in Nat, NEW dir \in {"up", "down"},
           k.px = "copy", dir \notin k.done, CanRead(k, In(dir)), NEW r,
           r = Write(Read(k, In(dir)), Out(dir))
    PROVE  r \in ConnType /\ SameTasks(r, k) /\ (Intact(k, line) => Intact(r, line))
<1>1. In(dir) \in Pipes /\ Out(dir) \in Pipes /\ In(dir) # Out(dir)
  BY DEF Pipes, In, Out
<1>2. PICK e : e = Read(k, In(dir))
  OBVIOUS
<1>3. /\ e \in ConnType /\ SameTasks(e, k)
      /\ e.wr = k.wr /\ e.rd = k.rd /\ e.fin = k.fin /\ e.gone = k.gone
      /\ e.rst = k.rst /\ e.done = k.done
      /\ \A x \in Pipes : e.q[x] = IF x = In(dir) THEN k.q[x] - 1 ELSE k.q[x]
  BY <1>1, <1>2, ReadFacts
<1>4. r = Write(e, Out(dir))
  BY <1>2
<1>5. /\ r \in ConnType /\ SameTasks(r, e)
      /\ r.wr = e.wr /\ r.rd = e.rd /\ r.fin = e.fin /\ r.gone = e.gone /\ r.done = e.done
      /\ Out(dir) \notin e.gone =>
            /\ r.rst = e.rst
            /\ \A x \in Pipes : r.q[x] = IF x = Out(dir) THEN e.q[x] + 1 ELSE e.q[x]
  <2>1. PICK o \in Pipes : o = Out(dir)
    BY <1>1
  <2>2. r = Write(e, o)
    BY <1>4, <2>1
  <2>3. /\ r \in ConnType /\ SameTasks(r, e)
        /\ r.wr = e.wr /\ r.rd = e.rd /\ r.fin = e.fin /\ r.gone = e.gone /\ r.done = e.done
        /\ o \notin e.gone =>
              /\ r.rst = e.rst
              /\ \A x \in Pipes : r.q[x] = IF x = o THEN e.q[x] + 1 ELSE e.q[x]
    BY <1>3, <2>2, WriteFacts
  <2>4. QED
    BY <2>1, <2>3, Zenon
<1>6. ASSUME Intact(k, line) PROVE Intact(r, line)
  <2>1. /\ k.q["up1"] \in Nat /\ k.q["up2"] \in Nat /\ k.q["down1"] \in Nat /\ k.q["down2"] \in Nat
        /\ k.wr \in Nat /\ k.rd \in Nat
    BY DEF ConnType, Pipes
  <2>2. Out(dir) \notin k.gone
    BY <1>6 DEF Intact, Out
  <2>3. CASE dir = "up"
    <3>1. /\ r.q["up1"] = k.q["up1"] - 1 /\ r.q["up2"] = k.q["up2"] + 1
          /\ r.q["down1"] = k.q["down1"] /\ r.q["down2"] = k.q["down2"] /\ r.rst = k.rst
      BY <1>3, <1>5, <2>1, <2>2, <2>3 DEF Pipes, In, Out
    <3>2. k.q["up1"] > 0 /\ "up2" \notin k.fin
      BY <1>6, <2>3 DEF Intact, CanRead, In
    <3>3. QED
      BY <1>3, <1>5, <1>6, <2>1, <3>1, <3>2 DEF Intact, SameTasks
  <2>4. CASE dir = "down"
    <3>1. /\ r.q["up1"] = k.q["up1"] /\ r.q["up2"] = k.q["up2"]
          /\ r.q["down1"] = k.q["down1"] + 1 /\ r.q["down2"] = k.q["down2"] - 1 /\ r.rst = k.rst
      BY <1>3, <1>5, <2>1, <2>2, <2>4 DEF Pipes, In, Out
    <3>2. k.q["down2"] > 0 /\ "down1" \notin k.fin
      BY <1>6, <2>4 DEF Intact, CanRead, In
    <3>3. /\ r.wr = r.rd + r.q["up1"] + r.q["up2"] + r.q["down2"] + r.q["down1"]
          /\ r.wr <= line /\ r.wr = k.wr
      BY <1>3, <1>5, <1>6, <2>1, <3>1 DEF Intact
    <3>4. QED
      BY <1>3, <1>5, <1>6, <2>1, <3>1, <3>2, <3>3 DEF Intact, SameTasks
  <2>5. QED
    BY <2>3, <2>4
<1>7. QED
  BY <1>3, <1>5, <1>6 DEF SameTasks

LEMMA TransferEnd ==
    ASSUME NEW k \in ConnType, NEW line \in Nat, NEW dir \in {"up", "down"},
           k.px = "copy", AtEof(k, In(dir)), NEW r,
           r = [k EXCEPT !.fin = @ \cup {Out(dir)}, !.done = @ \cup {dir}]
    PROVE  r \in ConnType /\ SameTasks(r, k) /\ (Intact(k, line) => Intact(r, line))
<1>1. /\ r \in ConnType /\ SameTasks(r, k) /\ r.wr = k.wr /\ r.rd = k.rd /\ r.q = k.q
      /\ r.fin = k.fin \cup {Out(dir)} /\ r.gone = k.gone /\ r.done = k.done \cup {dir} /\ r.rst = k.rst
  <2>1. PICK a, b : a = k.fin \cup {Out(dir)} /\ b = k.done \cup {dir}
    OBVIOUS
  <2>2. a \in SUBSET Pipes /\ b \in SUBSET {"up", "down"}
    BY <2>1 DEF ConnType, Out, Pipes
  <2>3. r = [k EXCEPT !.fin = a, !.done = b]
    BY <2>1
  <2>4. /\ r \in ConnType /\ SameTasks(r, k) /\ r.wr = k.wr /\ r.rd = k.rd /\ r.q = k.q
        /\ r.fin = a /\ r.gone = k.gone /\ r.done = b /\ r.rst = k.rst
    BY <2>2, <2>3 DEF ConnType, SameTasks
  <2>5. QED
    BY <2>1, <2>4
<1>2. CASE dir = "up"
  <2>1. /\ r.fin = k.fin \cup {"up2"} /\ r.done = k.done \cup {"up"}
        /\ "up1" \in k.fin /\ k.q["up1"] = 0
    BY <1>1, <1>2 DEF AtEof, In, Out
  <2>2. QED
    BY <1>1, <2>1 DEF Intact, SameTasks
<1>3. CASE dir = "down"
  <2>1. /\ r.fin = k.fin \cup {"down1"} /\ r.done = k.done \cup {"down"}
        /\ "down2" \in k.fin /\ k.q["down2"] = 0
    BY <1>1, <1>3 DEF AtEof, In, Out
  <2>2. QED
    BY <1>1, <2>1 DEF Intact, SameTasks
<1>4. QED
  BY <1>2, <1>3

\* The proxy's task ends on an intact connection when both directions have.
LEMMA DropFacts ==
    ASSUME NEW k \in ConnType, NEW line \in Nat, k.px = "copy", NEW r, r = Drop(k)
    PROVE  /\ r \in ConnType /\ r.client = k.client /\ r.px = "done" /\ r.srv = k.srv
           /\ r.short = k.short
           /\ Intact(k, line) /\ k.done = {"up", "down"} => Intact(r, line)
<1>1. PICK e : e = Close(k, "up1", "down1")
  OBVIOUS
<1>2. /\ e \in ConnType /\ SameTasks(e, k)
      /\ e.wr = k.wr /\ e.rd = k.rd /\ e.done = k.done
      /\ e.fin = k.fin \cup {"down1"} /\ e.gone = k.gone \cup {"up1"}
      /\ k.q["up1"] = 0 => e.rst = k.rst /\ \A x \in Pipes : e.q[x] = k.q[x]
  BY <1>1, CloseFacts DEF Pipes
<1>3. PICK f : f = Close(e, "down2", "up2")
  OBVIOUS
<1>4. /\ f \in ConnType /\ SameTasks(f, e)
      /\ f.wr = e.wr /\ f.rd = e.rd /\ f.done = e.done
      /\ f.fin = e.fin \cup {"up2"} /\ f.gone = e.gone \cup {"down2"}
      /\ e.q["down2"] = 0 => f.rst = e.rst /\ \A x \in Pipes : f.q[x] = e.q[x]
  BY <1>2, <1>3, CloseFacts DEF Pipes
<1>5. r = [f EXCEPT !.px = "done", !.done = {}]
  BY <1>1, <1>3 DEF Drop
<1>6. r \in ConnType
  <2>1. PICK g \in ConnType : g = [f EXCEPT !.px = "done"]
    BY <1>4 DEF ConnType
  <2>2. r = [g EXCEPT !.done = {}]
    BY <1>5, <2>1
  <2>3. QED
    BY <2>2 DEF ConnType
<1>7. /\ r.client = f.client /\ r.px = "done" /\ r.srv = f.srv /\ r.short = f.short
      /\ r.wr = f.wr /\ r.rd = f.rd /\ r.q = f.q /\ r.fin = f.fin /\ r.gone = f.gone /\ r.rst = f.rst
  BY <1>4, <1>5 DEF ConnType
<1>8. ASSUME Intact(k, line), k.done = {"up", "down"} PROVE Intact(r, line)
  <2>1. /\ {"up1", "up2", "down1", "down2"} \subseteq k.fin
        /\ k.q["up1"] = 0 /\ k.q["down2"] = 0
    BY <1>8 DEF Intact
  <2>2. /\ r.rst = k.rst /\ r.q["up1"] = k.q["up1"] /\ r.q["up2"] = k.q["up2"]
        /\ r.q["down1"] = k.q["down1"] /\ r.q["down2"] = k.q["down2"]
    BY <1>2, <1>4, <1>7, <2>1 DEF Pipes
  <2>3. r.fin = k.fin /\ r.gone = k.gone \cup {"up1", "down2"}
    BY <1>2, <1>4, <1>7, <2>1
  <2>4. /\ r.wr = k.wr /\ r.rd = k.rd /\ r.px = "done" /\ r.srv = k.srv
    BY <1>2, <1>4, <1>7 DEF SameTasks
  <2>5. QED
    BY <1>8, <2>1, <2>2, <2>3, <2>4 DEF Intact
<1>9. QED
  BY <1>2, <1>4, <1>6, <1>7, <1>8 DEF SameTasks

LEMMA SrvAcceptFacts ==
    ASSUME NEW k \in ConnType, NEW line \in Nat, k.srv = "backlog", NEW r,
           r = [k EXCEPT !.srv = "copy"]
    PROVE  /\ r \in ConnType /\ r.client = k.client /\ r.px = k.px /\ r.srv = "copy"
           /\ r.short = k.short /\ (Intact(k, line) => Intact(r, line))
<1>1. /\ r \in ConnType /\ r.client = k.client /\ r.px = k.px /\ r.srv = "copy" /\ r.short = k.short
      /\ r.wr = k.wr /\ r.rd = k.rd /\ r.q = k.q
      /\ r.fin = k.fin /\ r.gone = k.gone /\ r.done = k.done /\ r.rst = k.rst
  BY DEF ConnType
<1>2. QED
  BY <1>1 DEF Intact

LEMMA EchoByte ==
    ASSUME NEW k \in ConnType, NEW line \in Nat, k.srv = "copy", CanRead(k, "up2"), NEW r,
           r = Write(Read(k, "up2"), "down2")
    PROVE  r \in ConnType /\ SameTasks(r, k) /\ (Intact(k, line) => Intact(r, line))
<1>1. "up2" \in Pipes /\ "down2" \in Pipes
  BY DEF Pipes
<1>2. PICK e : e = Read(k, "up2")
  OBVIOUS
<1>3. /\ e \in ConnType /\ SameTasks(e, k)
      /\ e.wr = k.wr /\ e.rd = k.rd /\ e.fin = k.fin /\ e.gone = k.gone
      /\ e.rst = k.rst /\ e.done = k.done
      /\ \A x \in Pipes : e.q[x] = IF x = "up2" THEN k.q[x] - 1 ELSE k.q[x]
  BY <1>1, <1>2, ReadFacts
<1>4. r = Write(e, "down2")
  BY <1>2
<1>5. /\ r \in ConnType /\ SameTasks(r, e)
      /\ r.wr = e.wr /\ r.rd = e.rd /\ r.fin = e.fin /\ r.gone = e.gone /\ r.done = e.done
      /\ "down2" \notin e.gone =>
            /\ r.rst = e.rst
            /\ \A x \in Pipes : r.q[x] = IF x = "down2" THEN e.q[x] + 1 ELSE e.q[x]
  <2>1. PICK o \in Pipes : o = "down2"
    BY <1>1
  <2>2. r = Write(e, o)
    BY <1>4, <2>1
  <2>3. /\ r \in ConnType /\ SameTasks(r, e)
        /\ r.wr = e.wr /\ r.rd = e.rd /\ r.fin = e.fin /\ r.gone = e.gone /\ r.done = e.done
        /\ o \notin e.gone =>
              /\ r.rst = e.rst
              /\ \A x \in Pipes : r.q[x] = IF x = o THEN e.q[x] + 1 ELSE e.q[x]
    BY <1>3, <2>2, WriteFacts
  <2>4. QED
    BY <2>1, <2>3, Zenon
<1>6. ASSUME Intact(k, line) PROVE Intact(r, line)
  <2>1. /\ k.q["up1"] \in Nat /\ k.q["up2"] \in Nat /\ k.q["down1"] \in Nat /\ k.q["down2"] \in Nat
        /\ k.wr \in Nat /\ k.rd \in Nat
    BY DEF ConnType, Pipes
  <2>2. k.q["up2"] > 0 /\ "down2" \notin k.fin
    BY <1>6 DEF Intact, CanRead
  <2>3. "down2" \notin k.gone
    BY <1>6, <2>2 DEF Intact
  <2>4. /\ r.q["up1"] = k.q["up1"] /\ r.q["up2"] = k.q["up2"] - 1
        /\ r.q["down1"] = k.q["down1"] /\ r.q["down2"] = k.q["down2"] + 1 /\ r.rst = k.rst
    BY <1>3, <1>5, <2>1, <2>3 DEF Pipes
  <2>5. QED
    BY <1>3, <1>5, <1>6, <2>1, <2>2, <2>4 DEF Intact, SameTasks
<1>7. QED
  BY <1>3, <1>5, <1>6 DEF SameTasks

LEMMA EchoEndFacts ==
    ASSUME NEW k \in ConnType, NEW line \in Nat, k.srv = "copy", AtEof(k, "up2"), NEW r,
           r = [k EXCEPT !.srv = "log"]
    PROVE  /\ r \in ConnType /\ r.client = k.client /\ r.px = k.px /\ r.srv = "log"
           /\ r.short = k.short /\ (Intact(k, line) => Intact(r, line))
<1>1. /\ r \in ConnType /\ r.client = k.client /\ r.px = k.px /\ r.srv = "log" /\ r.short = k.short
      /\ r.wr = k.wr /\ r.rd = k.rd /\ r.q = k.q
      /\ r.fin = k.fin /\ r.gone = k.gone /\ r.done = k.done /\ r.rst = k.rst
  BY DEF ConnType
<1>2. QED
  BY <1>1 DEF Intact, AtEof

LEMMA SrvCloseFacts ==
    ASSUME NEW k \in ConnType, NEW line \in Nat, NEW r, r = SrvClose(k)
    PROVE  /\ r \in ConnType /\ r.client = k.client /\ r.px = k.px /\ r.srv = "closed"
           /\ r.short = k.short /\ (Intact(k, line) /\ k.srv = "log" => Intact(r, line))
<1>1. PICK e : e = Close(k, "up2", "down2")
  OBVIOUS
<1>2. /\ e \in ConnType /\ SameTasks(e, k)
      /\ e.wr = k.wr /\ e.rd = k.rd /\ e.done = k.done
      /\ e.fin = k.fin \cup {"down2"} /\ e.gone = k.gone \cup {"up2"}
      /\ k.q["up2"] = 0 => e.rst = k.rst /\ \A x \in Pipes : e.q[x] = k.q[x]
  BY <1>1, CloseFacts DEF Pipes
<1>3. r = [e EXCEPT !.srv = "closed"]
  BY <1>1 DEF SrvClose
<1>4. /\ r \in ConnType /\ r.client = k.client /\ r.px = k.px /\ r.srv = "closed" /\ r.short = k.short
      /\ r.wr = k.wr /\ r.rd = k.rd /\ r.done = k.done /\ r.q = e.q
      /\ r.fin = k.fin \cup {"down2"} /\ r.gone = k.gone \cup {"up2"} /\ r.rst = e.rst
  BY <1>2, <1>3 DEF ConnType, SameTasks
<1>5. ASSUME Intact(k, line), k.srv = "log" PROVE Intact(r, line)
  <2>1. k.q["up2"] = 0 /\ "up2" \in k.fin
    BY <1>5 DEF Intact
  <2>2. /\ r.rst = k.rst /\ r.q["up1"] = k.q["up1"] /\ r.q["up2"] = k.q["up2"]
        /\ r.q["down1"] = k.q["down1"] /\ r.q["down2"] = k.q["down2"]
    BY <1>2, <1>4, <2>1 DEF Pipes
  <2>3. QED
    BY <1>4, <1>5, <2>1, <2>2 DEF Intact
<1>6. QED
  BY <1>4, <1>5

LEMMA NewConnType == NewConn \in ConnType
<1>1. [p \in Pipes |-> 0] \in [Pipes -> Nat]
  OBVIOUS
<1>2. QED
  BY <1>1 DEF NewConn, ConnType

LEMMA ConnectFacts ==
    ASSUME NEW line \in Nat, NEW r, r = [NewConn EXCEPT !.client = "open"]
    PROVE  /\ r \in ConnType /\ r.client = "open" /\ r.px = "none" /\ r.srv = "none"
           /\ ~r.short /\ Intact(r, line)
<1>1. PICK f : f = [p \in Pipes |-> 0]
  OBVIOUS
<1>2. f["up1"] = 0 /\ f["up2"] = 0 /\ f["down1"] = 0 /\ f["down2"] = 0
  BY <1>1 DEF Pipes
<1>3. /\ r.client = "open" /\ r.px = "none" /\ r.srv = "none" /\ ~r.short
      /\ r.wr = 0 /\ r.rd = 0 /\ r.q = f
      /\ r.fin = {} /\ r.gone = {} /\ r.done = {} /\ r.rst = {}
  BY <1>1 DEF NewConn
<1>4. r \in ConnType
  BY NewConnType DEF ConnType
<1>5. QED
  BY <1>2, <1>3, <1>4 DEF Intact

Paired(k) == [k EXCEPT !.px = "copy", !.srv = "backlog"]

LEMMA ConnectedFacts ==
    ASSUME NEW k \in ConnType, NEW line \in Nat, k.px = "none", k.srv = "none", NEW r,
           r = Paired(k)
    PROVE  /\ r \in ConnType /\ r.client = k.client /\ r.px = "copy" /\ r.srv = "backlog"
           /\ r.short = k.short /\ (Intact(k, line) => Intact(r, line))
<1>1. /\ r.client = k.client /\ r.px = "copy" /\ r.srv = "backlog" /\ r.short = k.short
      /\ r.wr = k.wr /\ r.rd = k.rd /\ r.q = k.q
      /\ r.fin = k.fin /\ r.gone = k.gone /\ r.done = k.done /\ r.rst = k.rst
  BY DEF ConnType, Paired
<1>2. r \in ConnType
  BY DEF ConnType, Paired
<1>3. QED
  BY <1>1, <1>2 DEF Intact

-----------------------------------------------------------------------------
(***************************************************************************)
(* TCP: every step keeps the connections intact                            *)
(***************************************************************************)
TcpInv == AcceptInv /\ IntactInv /\ LineEchoed

\* What a step of a task or a client makes of its connection
Advances(c, r) ==
    /\ Becomes(c, r) /\ UNCHANGED <<backlog, proxy, server>>
    /\ conn[c].client # "off" /\ r.client # "off"
    /\ (r.px = conn[c].px /\ r.srv = conn[c].srv) \/ conn[c].px # "none" \/ conn[c].srv # "none"
    /\ r.px = "none" => conn[c].px = "none"
    /\ ~Broken /\ r.client = "open" => Intact(r, Line(c))
    /\ r.short => conn[c].short \/ Broken
    /\ lag' \in {lag, lag + 1}

LEMMA OneConn ==
    ASSUME TcpInv, NEW c \in Conns, NEW r \in ConnType, Advances(c, r)
    PROVE  TcpInv'
<1>1. /\ conn' = [conn EXCEPT ![c] = r] /\ conn' \in [Conns -> ConnType] /\ conn'[c] = r
      /\ \A d \in Conns \ {c} : conn'[d] = conn[d]
  BY DEF TcpInv, AcceptInv, Advances, Becomes
<1>2. UNCHANGED <<backlog, proxy, server>> /\ Broken' = Broken /\ \A d : Waiting(d)' = Waiting(d)
  BY DEF Advances, Broken, Waiting
<1>3. Waiting(c) => r.px = "none" /\ r.srv = "none"
  BY DEF TcpInv, AcceptInv, Advances
<1>4. AcceptInv'
  <2>1. ASSUME NEW d \in Conns
        PROVE  /\ Waiting(d)' => conn'[d].client # "off" /\ conn'[d].px = "none" /\ conn'[d].srv = "none"
               /\ conn'[d].client = "off" => conn'[d] = NewConn
    <3>1. CASE d = c
      BY <1>1, <1>2, <1>3, <3>1 DEF Advances
    <3>2. CASE d # c
      BY <1>1, <1>2, <3>2 DEF TcpInv, AcceptInv
    <3>3. QED
      BY <3>1, <3>2
  <2>2. QED
    BY <1>1, <1>2, <2>1 DEF TcpInv, AcceptInv, NewConn
<1>5. IntactInv'
  <2> SUFFICES ASSUME NEW d \in Conns, conn'[d].client = "open", ~Broken
               PROVE  Intact(conn'[d], Line(d))
    BY <1>2 DEF IntactInv, Intact
  <2>1. CASE d = c
    BY <1>1, <2>1 DEF Advances
  <2>2. CASE d # c
    BY <1>1, <2>2 DEF TcpInv, IntactInv
  <2>3. QED
    BY <2>1, <2>2
<1>6. LineEchoed'
  BY <1>1, <1>2 DEF TcpInv, LineEchoed, Advances, Broken
<1>7. QED
  BY <1>4, <1>5, <1>6 DEF TcpInv

\* A client or a task at work on a connection.
ConnStep(c) ==
    \/ ClientWrite(c) \/ ClientShutdown(c) \/ ClientRead(c)
    \/ \E killed \in BOOLEAN : ClientLeaves(c, killed)
    \/ \E dir \in {"up", "down"} : Transfer(c, dir)
    \/ TaskEnds(c) \/ SrvAccept(c) \/ Echo(c) \/ EchoEnds(c) \/ SrvReport(c)

LEMMA ConnSteps ==
    ASSUME TcpInv, NEW c \in Conns, ConnStep(c)
    PROVE  \E r \in ConnType : Advances(c, r)
<1>1. PICK k \in ConnType, line \in Nat : k = conn[c] /\ line = Line(c)
  BY TcpAssumption DEF TcpInv, AcceptInv
<1>2. ~Broken /\ k.client = "open" => Intact(k, line)
  BY <1>1 DEF TcpInv, IntactInv
<1>3. k.client = "off" => k.px = "none" /\ k.srv = "none"
  <2>1. k.client = "off" => k = NewConn
    BY <1>1 DEF TcpInv, AcceptInv
  <2>2. NewConn.px = "none" /\ NewConn.srv = "none"
    BY DEF NewConn
  <2>3. QED
    BY <2>1, <2>2
<1>4. ASSUME NEW r \in ConnType, Becomes(c, r), UNCHANGED <<backlog, proxy, server, lag>>,
             k.client # "off", SameTasks(r, k), Intact(k, line) => Intact(r, line)
      PROVE  Advances(c, r)
  BY <1>1, <1>2, <1>4 DEF Advances, SameTasks
<1>5. CASE ClientWrite(c)
  <2>1. PICK r : r = [Write(k, "up1") EXCEPT !.wr = @ + 1]
    OBVIOUS
  <2>2. /\ k.client = "open" /\ k.wr < line /\ Becomes(c, r)
        /\ UNCHANGED <<backlog, proxy, server, lag>>
    BY <1>1, <1>5, <2>1, Zenon DEF ClientWrite, logVars
  <2>3. QED
    BY <1>4, <2>1, <2>2, WriteLine
<1>6. CASE ClientShutdown(c)
  <2>1. PICK r : r = [k EXCEPT !.fin = @ \cup {"up1"}]
    OBVIOUS
  <2>2. /\ k.client = "open" /\ k.wr = line /\ Becomes(c, r)
        /\ UNCHANGED <<backlog, proxy, server, lag>>
    BY <1>1, <1>6, <2>1, Zenon DEF ClientShutdown, logVars
  <2>3. QED
    BY <1>4, <2>1, <2>2, ShutdownLine
<1>7. CASE ClientRead(c)
  <2>1. k.client = "open" /\ UNCHANGED <<backlog, proxy, server, lag>>
    BY <1>1, <1>7, Zenon DEF ClientRead, logVars
  <2>2. CASE CanRead(k, "down1") /\ Becomes(c, [Read(k, "down1") EXCEPT !.rd = @ + 1])
    <3>1. PICK r : r = [Read(k, "down1") EXCEPT !.rd = @ + 1]
      OBVIOUS
    <3>2. QED
      BY <1>4, <2>1, <2>2, <3>1, ReadLine
  <2>3. CASE AtEof(k, "down1") /\ Becomes(c, [Leave(k) EXCEPT !.short = k.rd < line])
    <3>1. PICK e : e = Leave(k)
      OBVIOUS
    <3>2. e \in ConnType /\ e.client = "gone" /\ e.px = k.px /\ e.srv = k.srv
      BY <3>1, LeaveFacts
    <3>3. PICK b \in BOOLEAN : b = (k.rd < line)
      <4>1. (k.rd < line) \in BOOLEAN
        OBVIOUS
      <4>2. QED
        BY <4>1, Zenon
    <3>4. PICK r : r = [e EXCEPT !.short = b]
      OBVIOUS
    <3>5. Becomes(c, r)
      BY <2>3, <3>1, <3>3, <3>4, Zenon
    <3>6. r \in ConnType /\ r.client = "gone" /\ r.px = k.px /\ r.srv = k.srv /\ r.short = b
      BY <3>2, <3>4 DEF ConnType
    <3>7. b => Broken
      <4>1. SUFFICES ASSUME ~Broken PROVE ~b
        OBVIOUS
      <4>2. k.rd = line
        BY <1>2, <2>1, <2>3, <4>1, EndOfLine
      <4>3. ~(k.rd < line)
        BY <4>2
      <4>4. QED
        BY <3>3, <4>3, Zenon
    <3>8. QED
      BY <1>1, <2>1, <3>5, <3>6, <3>7 DEF Advances
  <2>4. QED
    BY <1>1, <1>7, <2>2, <2>3, Zenon DEF ClientRead
<1>8. CASE \E killed \in BOOLEAN : ClientLeaves(c, killed)
  <2>1. PICK r : r = Leave(k)
    OBVIOUS
  <2>2. k.client = "open" /\ Becomes(c, r) /\ UNCHANGED <<backlog, proxy, server, lag>>
    BY <1>1, <1>8, <2>1, Zenon DEF ClientLeaves, logVars
  <2>3. r \in ConnType /\ r.client = "gone" /\ r.px = k.px /\ r.srv = k.srv /\ r.short = k.short
    BY <2>1, LeaveFacts
  <2>4. QED
    BY <1>1, <2>2, <2>3 DEF Advances
<1>9. ASSUME NEW dir \in {"up", "down"}, Transfer(c, dir) PROVE \E r \in ConnType : Advances(c, r)
  <2>1. k.px = "copy" /\ dir \notin k.done /\ UNCHANGED <<backlog, proxy, server, lag>>
    BY <1>1, <1>9, Zenon DEF Transfer, logVars
  <2>2. k.client # "off"
    BY <1>3, <2>1
  <2>3. CASE CanRead(k, In(dir)) /\ Becomes(c, Write(Read(k, In(dir)), Out(dir)))
    <3>1. PICK r : r = Write(Read(k, In(dir)), Out(dir))
      OBVIOUS
    <3>2. r \in ConnType /\ SameTasks(r, k) /\ (Intact(k, line) => Intact(r, line))
      BY <2>1, <2>3, <3>1, TransferByte
    <3>3. QED
      BY <1>4, <2>1, <2>2, <2>3, <3>1, <3>2
  <2>4. CASE /\ AtEof(k, In(dir))
             /\ Becomes(c, [k EXCEPT !.fin = @ \cup {Out(dir)}, !.done = @ \cup {dir}])
    <3>1. PICK r : r = [k EXCEPT !.fin = @ \cup {Out(dir)}, !.done = @ \cup {dir}]
      OBVIOUS
    <3>2. r \in ConnType /\ SameTasks(r, k) /\ (Intact(k, line) => Intact(r, line))
      BY <2>1, <2>4, <3>1, TransferEnd
    <3>3. QED
      BY <1>4, <2>1, <2>2, <2>4, <3>1, <3>2
  <2>5. QED
    BY <1>1, <1>9, <2>3, <2>4, Zenon DEF Transfer
<1>10. CASE TaskEnds(c)
  <2>1. PICK r : r = Drop(k)
    OBVIOUS
  <2>2. /\ k.px = "copy" /\ Becomes(c, r) /\ UNCHANGED <<backlog, proxy, server, lag>>
        /\ k.done = {"up", "down"} \/ k.rst # {}
    BY <1>1, <1>10, <2>1, Zenon DEF TaskEnds, logVars
  <2>3. /\ r \in ConnType /\ r.client = k.client /\ r.px = "done" /\ r.srv = k.srv
        /\ r.short = k.short
        /\ Intact(k, line) /\ k.done = {"up", "down"} => Intact(r, line)
    BY <2>1, <2>2, DropFacts
  <2>4. Intact(k, line) => k.rst = {}
    BY DEF Intact
  <2>5. ~Broken /\ r.client = "open" => Intact(r, line)
    BY <1>2, <2>2, <2>3, <2>4
  <2>6. QED
    BY <1>1, <1>3, <2>2, <2>3, <2>5 DEF Advances
<1>11. CASE SrvAccept(c)
  <2>1. PICK r : r = [k EXCEPT !.srv = "copy"]
    OBVIOUS
  <2>2. k.srv = "backlog" /\ Becomes(c, r) /\ UNCHANGED <<backlog, proxy, server, lag>>
    BY <1>1, <1>11, <2>1, Zenon DEF SrvAccept, logVars
  <2>3. /\ r \in ConnType /\ r.client = k.client /\ r.px = k.px /\ r.srv = "copy"
        /\ r.short = k.short /\ (Intact(k, line) => Intact(r, line))
    BY <2>1, <2>2, SrvAcceptFacts
  <2>4. QED
    BY <1>1, <1>2, <1>3, <2>2, <2>3 DEF Advances
<1>12. CASE Echo(c)
  <2>1. PICK r : r = Write(Read(k, "up2"), "down2")
    OBVIOUS
  <2>2. /\ k.srv = "copy" /\ CanRead(k, "up2") /\ Becomes(c, r)
        /\ UNCHANGED <<backlog, proxy, server, lag>>
    BY <1>1, <1>12, <2>1, Zenon DEF Echo, logVars
  <2>3. QED
    BY <1>3, <1>4, <2>1, <2>2, EchoByte
<1>13. CASE EchoEnds(c)
  <2>1. k.srv = "copy" /\ UNCHANGED <<backlog, proxy, server>>
    BY <1>1, <1>13, Zenon DEF EchoEnds
  <2>2. CASE AtEof(k, "up2") /\ Becomes(c, [k EXCEPT !.srv = "log"]) /\ lag' = lag + 1
    <3>1. PICK r : r = [k EXCEPT !.srv = "log"]
      OBVIOUS
    <3>2. /\ r \in ConnType /\ r.client = k.client /\ r.px = k.px /\ r.srv = "log"
          /\ r.short = k.short /\ (Intact(k, line) => Intact(r, line))
      BY <2>1, <2>2, <3>1, EchoEndFacts
    <3>3. QED
      BY <1>1, <1>2, <1>3, <2>1, <2>2, <3>1, <3>2 DEF Advances
  <2>3. CASE "far" \in k.rst /\ Becomes(c, SrvClose(k)) /\ UNCHANGED lag
    <3>1. PICK r : r = SrvClose(k)
      OBVIOUS
    <3>2. /\ r \in ConnType /\ r.client = k.client /\ r.px = k.px /\ r.srv = "closed"
          /\ r.short = k.short
      BY <3>1, SrvCloseFacts
    <3>3. ~Intact(k, line)
      BY <2>3 DEF Intact
    <3>4. QED
      BY <1>1, <1>2, <1>3, <2>1, <2>3, <3>1, <3>2, <3>3 DEF Advances
  <2>4. QED
    BY <1>1, <1>13, <2>2, <2>3, Zenon DEF EchoEnds
<1>14. CASE SrvReport(c)
  <2>1. PICK r : r = SrvClose(k)
    OBVIOUS
  <2>2. k.srv = "log" /\ Becomes(c, r) /\ UNCHANGED <<backlog, proxy, server, lag>>
    BY <1>1, <1>14, <2>1, Zenon DEF SrvReport, LogSend, LogSendFails, logVars
  <2>3. /\ r \in ConnType /\ r.client = k.client /\ r.px = k.px /\ r.srv = "closed"
        /\ r.short = k.short /\ (Intact(k, line) => Intact(r, line))
    BY <2>1, <2>2, SrvCloseFacts
  <2>4. QED
    BY <1>1, <1>2, <1>3, <2>2, <2>3 DEF Advances
<1>15. QED
  BY <1>5, <1>6, <1>7, <1>8, <1>9, <1>10, <1>11, <1>12, <1>13, <1>14 DEF ConnStep

LEMMA ConnectKeeps ==
    ASSUME TcpInv, NEW c \in Conns, Connect(c)
    PROVE  TcpInv'
<1>1. PICK r : r = [NewConn EXCEPT !.client = "open"]
  OBVIOUS
<1>2. /\ conn[c].client = "off" /\ conn[c] = NewConn /\ Becomes(c, r)
      /\ backlog' = Append(backlog, c) /\ UNCHANGED <<proxy, server>>
  BY <1>1 DEF Connect, TcpInv, AcceptInv
<1>3. /\ r \in ConnType /\ r.client = "open" /\ r.px = "none" /\ r.srv = "none"
      /\ ~r.short /\ Intact(r, Line(c))
  BY <1>1, TcpAssumption, ConnectFacts
<1>4. /\ conn' \in [Conns -> ConnType] /\ conn'[c] = r
      /\ \A d \in Conns \ {c} : conn'[d] = conn[d]
  BY <1>2, <1>3 DEF TcpInv, AcceptInv, Becomes
<1>5. PICK n \in Nat : /\ n = Len(backlog) /\ DOMAIN backlog = 1 .. n
                       /\ backlog' \in Seq(Conns) /\ DOMAIN backlog' = 1 .. n + 1
                       /\ \A i \in 1 .. n : backlog'[i] = backlog[i]
                       /\ backlog'[n + 1] = c
  BY <1>2, AppendProperties, LenProperties DEF TcpInv, AcceptInv
<1>6. ~Waiting(c)
  BY <1>2 DEF TcpInv, AcceptInv
<1>7. \A d : Waiting(d)' => d = c \/ Waiting(d)
  BY <1>2, <1>5 DEF Waiting
<1>8. AcceptInv'
  <2>1. \A i \in 1 .. n : backlog[i] # c /\ backlog[i] \in Conns
    BY <1>5, <1>6, ElementOfSeq DEF Waiting, TcpInv, AcceptInv
  <2>2. \A i, j \in DOMAIN backlog' : i # j => backlog'[i] # backlog'[j]
    BY <1>5, <2>1 DEF TcpInv, AcceptInv
  <2>3. \A i \in DOMAIN backlog' : proxy' # <<"connect", backlog'[i]>>
    <3>1. proxy # <<"connect", c>>
      BY <1>6 DEF Waiting
    <3>2. QED
      BY <1>2, <1>5, <3>1 DEF TcpInv, AcceptInv
  <2>4. ASSUME NEW d \in Conns
        PROVE  /\ Waiting(d)' => conn'[d].client # "off" /\ conn'[d].px = "none" /\ conn'[d].srv = "none"
               /\ conn'[d].client = "off" => conn'[d] = NewConn
    BY <1>3, <1>4, <1>7 DEF TcpInv, AcceptInv
  <2>5. QED
    BY <1>2, <1>4, <1>5, <2>2, <2>3, <2>4 DEF TcpInv, AcceptInv, NewConn
<1>9. Broken' = Broken
  BY <1>2 DEF Broken
<1>10. IntactInv'
  <2> SUFFICES ASSUME NEW d \in Conns, conn'[d].client = "open", ~Broken
               PROVE  Intact(conn'[d], Line(d))
    BY <1>9 DEF IntactInv, Intact
  <2>1. QED
    BY <1>3, <1>4 DEF TcpInv, IntactInv
<1>11. LineEchoed'
  BY <1>2, <1>3, <1>4 DEF TcpInv, LineEchoed
<1>12. QED
  BY <1>8, <1>10, <1>11 DEF TcpInv

LEMMA AcceptKeeps ==
    ASSUME TcpInv, Accept
    PROVE  TcpInv'
<1>1. /\ proxy = <<"accept">> /\ backlog # <<>> /\ proxy' = <<"connect", Head(backlog)>>
      /\ backlog' = Tail(backlog) /\ UNCHANGED <<conn, server>> /\ backlog \in Seq(Conns)
  BY DEF Accept, TcpInv, AcceptInv
<1>2. PICK n \in Nat : /\ n = Len(backlog) /\ DOMAIN backlog = 1 .. n /\ 1 <= n
                       /\ backlog' \in Seq(Conns) /\ DOMAIN backlog' = 1 .. n - 1
                       /\ \A i \in 1 .. n - 1 : backlog'[i] = backlog[i + 1]
                       /\ Head(backlog) = backlog[1] /\ backlog[1] \in Conns
  BY <1>1, HeadTailProperties, LenProperties, EmptySeq, ElementOfSeq
<1>3. \A d : Waiting(d)' => Waiting(d)
  BY <1>1, <1>2 DEF Waiting
<1>4. AcceptInv'
  <2>0. \A i, j \in 1 .. n : i # j => backlog[i] # backlog[j]
    BY <1>2 DEF TcpInv, AcceptInv
  <2>1. \A i, j \in DOMAIN backlog' : i # j => backlog'[i] # backlog'[j]
    <3> SUFFICES ASSUME NEW i \in 1 .. n - 1, NEW j \in 1 .. n - 1, i # j
                 PROVE  backlog'[i] # backlog'[j]
      BY <1>2
    <3>1. i + 1 \in 1 .. n /\ j + 1 \in 1 .. n /\ i + 1 # j + 1
      BY <1>2
    <3>2. QED
      BY <1>2, <2>0, <3>1
  <2>2. \A i \in DOMAIN backlog' : proxy' # <<"connect", backlog'[i]>>
    <3> SUFFICES ASSUME NEW i \in 1 .. n - 1 PROVE proxy' # <<"connect", backlog'[i]>>
      BY <1>2
    <3>1. i + 1 \in 1 .. n /\ 1 \in 1 .. n /\ i + 1 # 1
      BY <1>2
    <3>2. backlog'[i] # backlog[1]
      BY <1>2, <2>0, <3>1
    <3>3. QED
      BY <1>1, <1>2, <3>2
  <2>3. proxy' \in {<<"accept">>, <<"exited">>} \cup {<<"connect", c>> : c \in Conns}
    BY <1>1, <1>2
  <2>4. ASSUME NEW d \in Conns
        PROVE  /\ Waiting(d)' => conn'[d].client # "off" /\ conn'[d].px = "none" /\ conn'[d].srv = "none"
               /\ conn'[d].client = "off" => conn'[d] = NewConn
    BY <1>1, <1>3 DEF TcpInv, AcceptInv
  <2>5. QED
    BY <1>1, <1>2, <2>1, <2>2, <2>3, <2>4 DEF TcpInv, AcceptInv, NewConn
<1>5. Broken' = Broken
  BY <1>1 DEF Broken
<1>6. IntactInv' /\ LineEchoed'
  BY <1>1, <1>5 DEF TcpInv, IntactInv, Intact, LineEchoed, Broken
<1>7. QED
  BY <1>4, <1>6 DEF TcpInv

LEMMA ConnectedKeeps ==
    ASSUME TcpInv, Connected
    PROVE  TcpInv'
<1>1. PICK c \in Conns : proxy = <<"connect", c>>
  BY DEF Connected, TcpInv, AcceptInv
<1>2. PICK k \in ConnType : k = conn[c]
  BY DEF TcpInv, AcceptInv
<1>3. PICK r : r = Paired(k)
  OBVIOUS
<1>4. Becomes(c, r) /\ proxy' = <<"accept">> /\ UNCHANGED <<backlog, server>>
  <2>1. proxy[2] = c
    BY <1>1
  <2>2. QED
    BY <1>2, <1>3, <2>1, Zenon DEF Connected, Paired
<1>5. k.client # "off" /\ k.px = "none" /\ k.srv = "none"
  BY <1>1, <1>2 DEF TcpInv, AcceptInv, Waiting
<1>6. /\ r \in ConnType /\ r.client = k.client /\ r.px = "copy" /\ r.srv = "backlog"
      /\ r.short = k.short /\ (Intact(k, Line(c)) => Intact(r, Line(c)))
  <2>1. PICK line \in Nat : line = Line(c)
    BY TcpAssumption
  <2>2. /\ r \in ConnType /\ r.client = k.client /\ r.px = "copy" /\ r.srv = "backlog"
        /\ r.short = k.short /\ (Intact(k, line) => Intact(r, line))
    BY <1>3, <1>5, ConnectedFacts
  <2>3. QED
    BY <2>1, <2>2, Zenon
<1>7. /\ conn' \in [Conns -> ConnType] /\ conn'[c] = r
      /\ \A d \in Conns \ {c} : conn'[d] = conn[d]
  BY <1>4, <1>6 DEF TcpInv, AcceptInv, Becomes
<1>8. \A d : Waiting(d)' => Waiting(d) /\ d # c
  BY <1>1, <1>4 DEF Waiting, TcpInv, AcceptInv
<1>9. AcceptInv'
  <2>1. \A i \in DOMAIN backlog' : proxy' # <<"connect", backlog'[i]>>
    BY <1>4
  <2>2. ASSUME NEW d \in Conns
        PROVE  /\ Waiting(d)' => conn'[d].client # "off" /\ conn'[d].px = "none" /\ conn'[d].srv = "none"
               /\ conn'[d].client = "off" => conn'[d] = NewConn
    BY <1>2, <1>5, <1>6, <1>7, <1>8 DEF TcpInv, AcceptInv
  <2>3. QED
    BY <1>4, <1>7, <2>1, <2>2 DEF TcpInv, AcceptInv, NewConn
<1>10. Broken' = Broken
  BY <1>1, <1>4 DEF Broken
<1>11. IntactInv'
  <2> SUFFICES ASSUME NEW d \in Conns, conn'[d].client = "open", ~Broken
               PROVE  Intact(conn'[d], Line(d))
    BY <1>10 DEF IntactInv, Intact
  <2>1. QED
    BY <1>2, <1>6, <1>7 DEF TcpInv, IntactInv
<1>12. LineEchoed'
  BY <1>2, <1>6, <1>7, <1>10 DEF TcpInv, LineEchoed, Broken
<1>13. QED
  BY <1>9, <1>11, <1>12 DEF TcpInv

\* The end of a process breaks every connection it has, and no other.
LEMMA BrokenKeeps ==
    ASSUME TcpInv, Broken', server' \in {"up", "exited"},
           (proxy' = <<"exited">> /\ backlog' = <<>>) \/ UNCHANGED <<proxy, backlog>>,
           DOMAIN conn' = Conns, conn' = [c \in Conns |-> conn'[c]],
           \A c \in Conns : /\ conn'[c] \in ConnType
                            /\ conn[c].client = "off" \/ Waiting(c)' => conn'[c] = conn[c]
                            /\ conn'[c].client = conn[c].client
    PROVE  TcpInv'
<1>1. conn' \in [Conns -> ConnType]
  OBVIOUS
<1>2. \A d : Waiting(d)' => Waiting(d)
  BY DEF Waiting
<1>3. /\ backlog' \in Seq(Conns)
      /\ proxy' \in {<<"accept">>, <<"exited">>} \cup {<<"connect", c>> : c \in Conns}
      /\ \A i, j \in DOMAIN backlog' : i # j => backlog'[i] # backlog'[j]
      /\ \A i \in DOMAIN backlog' : proxy' # <<"connect", backlog'[i]>>
  <2>1. CASE proxy' = <<"exited">> /\ backlog' = <<>>
    <3>1. DOMAIN backlog' = {} /\ backlog' \in Seq(Conns)
      BY <2>1
    <3>2. QED
      BY <2>1, <3>1
  <2>2. CASE UNCHANGED <<proxy, backlog>>
    BY <2>2 DEF TcpInv, AcceptInv
  <2>3. QED
    BY <2>1, <2>2
<1>4. ASSUME NEW d \in Conns
      PROVE  /\ Waiting(d)' => conn'[d].client # "off" /\ conn'[d].px = "none" /\ conn'[d].srv = "none"
             /\ conn'[d].client = "off" => conn'[d] = NewConn
  BY <1>2 DEF TcpInv, AcceptInv
<1>5. AcceptInv'
  BY <1>1, <1>3, <1>4 DEF AcceptInv, NewConn
<1>6. IntactInv' /\ LineEchoed'
  BY DEF IntactInv, LineEchoed, Broken
<1>7. QED
  BY <1>5, <1>6 DEF TcpInv

Here == {backlog[i] : i \in DOMAIN backlog} \cup {proxy[i] : i \in DOMAIN proxy \ {1}}

Refused(k) == [k EXCEPT !.px = "done", !.rst = @ \cup {"near"}]

ExitConn(c) ==
    CASE c \in Here          -> Refused(Close(conn[c], "up1", "down1"))
      [] conn[c].px = "copy" -> Drop(conn[c])
      [] OTHER               -> conn[c]

LEMMA ProxyExitsKeeps ==
    ASSUME TcpInv, ProxyExits
    PROVE  TcpInv'
<1>2. /\ proxy' = <<"exited">> /\ backlog' = <<>> /\ server' = server
      /\ conn' = [c \in Conns |-> ExitConn(c)]
  BY DEF ProxyExits, Here, ExitConn, Refused
<1>3. \A c \in Conns : c \in Here => Waiting(c)
  BY DEF Here, Waiting, TcpInv, AcceptInv
<1>4. Broken' /\ \A c : ~Waiting(c)'
  <2>1. proxy' = <<"exited">> /\ backlog' = <<>>
    BY <1>2, Zenon
  <2>2. DOMAIN backlog' = {}
    BY <2>1
  <2>3. QED
    BY <2>1, <2>2 DEF Broken, Waiting
<1>5. ASSUME NEW c \in Conns
      PROVE  /\ conn'[c] \in ConnType
             /\ conn[c].client = "off" => conn'[c] = conn[c]
             /\ conn'[c].client = conn[c].client /\ conn'[c].srv = conn[c].srv
  <2>0. conn'[c] = ExitConn(c)
    BY <1>2, Zenon
  <2>1. PICK k \in ConnType : k = conn[c]
    BY DEF TcpInv, AcceptInv
  <2>2. CASE c \in Here
    <3>1. PICK e : e = Close(k, "up1", "down1")
      OBVIOUS
    <3>2. e \in ConnType /\ SameTasks(e, k)
      BY <3>1, CloseFacts DEF Pipes
    <3>3. conn'[c] = [e EXCEPT !.px = "done", !.rst = @ \cup {"near"}]
      <4>1. conn'[c] = Refused(e)
        <5>1. conn[c].px # "copy"
          BY <1>3, <2>2 DEF TcpInv, AcceptInv
        <5>2. QED
          BY <2>0, <2>1, <2>2, <3>1, <5>1 DEF ExitConn
      <4>2. QED
        BY <4>1 DEF Refused
    <3>4. PICK f \in ConnType : f = [e EXCEPT !.px = "done"]
      BY <3>2 DEF ConnType
    <3>5. PICK z \in SUBSET {"near", "far"} : z = f.rst \cup {"near"}
      BY DEF ConnType
    <3>6. conn'[c] = [f EXCEPT !.rst = z]
      BY <3>2, <3>3, <3>4, <3>5 DEF ConnType
    <3>7. conn'[c] \in ConnType /\ conn'[c].client = f.client /\ conn'[c].srv = f.srv
      BY <3>6 DEF ConnType
    <3>8. f.client = e.client /\ f.srv = e.srv
      BY <3>2, <3>4 DEF ConnType
    <3>9. conn[c].client # "off"
      BY <1>3, <2>2 DEF TcpInv, AcceptInv
    <3>10. QED
      BY <2>1, <3>2, <3>7, <3>8, <3>9 DEF SameTasks
  <2>3. CASE c \notin Here /\ k.px = "copy"
    <3>1. conn'[c] = Drop(k)
      BY <2>0, <2>1, <2>3 DEF ExitConn
    <3>2. conn'[c] \in ConnType /\ conn'[c].client = k.client /\ conn'[c].srv = k.srv
      BY <2>3, <3>1, DropFacts
    <3>3. conn[c].client # "off"
      <4>1. NewConn.px = "none"
        BY DEF NewConn
      <4>2. QED
        BY <2>1, <2>3, <4>1 DEF TcpInv, AcceptInv
    <3>4. QED
      BY <2>1, <3>2, <3>3
  <2>4. CASE c \notin Here /\ k.px # "copy"
    <3>1. conn'[c] = k
      BY <2>0, <2>1, <2>4 DEF ExitConn
    <3>2. QED
      BY <2>1, <3>1
  <2>5. QED
    BY <2>2, <2>3, <2>4
<1>6. DOMAIN conn' = Conns /\ conn' = [c \in Conns |-> conn'[c]]
  BY <1>2, Zenon
<1>7. server' \in {"up", "exited"}
  BY <1>2 DEF TcpInv, AcceptInv
<1>8. QED
  BY <1>2, <1>4, <1>5, <1>6, <1>7, BrokenKeeps

LEMMA ServerExitsKeeps ==
    ASSUME TcpInv, ServerExits
    PROVE  TcpInv'
<1>1. /\ server' = "exited" /\ UNCHANGED <<backlog, proxy>>
      /\ conn' = [c \in Conns |->
          CASE conn[c].srv = "backlog"         -> [SrvClose(conn[c]) EXCEPT !.rst = @ \cup {"far"}]
            [] conn[c].srv \in {"copy", "log"} -> SrvClose(conn[c])
            [] OTHER                           -> conn[c]]
  BY DEF ServerExits
<1>2. Broken' /\ \A c : Waiting(c)' = Waiting(c)
  BY <1>1 DEF Broken, Waiting
<1>3. ASSUME NEW c \in Conns
      PROVE  /\ conn'[c] \in ConnType
             /\ conn[c].client = "off" \/ Waiting(c) => conn'[c] = conn[c]
             /\ conn'[c].client = conn[c].client
             /\ conn[c].srv \in {"log", "closed"} => conn'[c].srv \in {"log", "closed"}
  <2>1. PICK k \in ConnType : k = conn[c]
    BY DEF TcpInv, AcceptInv
  <2>2. NewConn.srv = "none"
    BY DEF NewConn
  <2>3. conn[c].client = "off" \/ Waiting(c) => k.srv = "none"
    BY <2>1, <2>2 DEF TcpInv, AcceptInv
  <2>4. PICK e : e = SrvClose(k)
    OBVIOUS
  <2>5. e \in ConnType /\ e.client = k.client /\ e.srv = "closed"
    BY <2>4, SrvCloseFacts
  <2>6. CASE k.srv = "backlog"
    <3>1. PICK z \in SUBSET {"near", "far"} : z = e.rst \cup {"far"}
      BY <2>5 DEF ConnType
    <3>2. conn'[c] = [e EXCEPT !.rst = z]
      BY <1>1, <2>1, <2>4, <2>6, <3>1
    <3>3. conn'[c] \in ConnType /\ conn'[c].client = e.client /\ conn'[c].srv = e.srv
      BY <2>5, <3>2 DEF ConnType
    <3>4. QED
      BY <2>1, <2>3, <2>5, <2>6, <3>3
  <2>7. CASE k.srv \in {"copy", "log"}
    <3>1. conn'[c] = e
      BY <1>1, <2>1, <2>4, <2>7
    <3>2. QED
      BY <2>1, <2>3, <2>5, <2>7, <3>1
  <2>8. CASE k.srv \notin {"backlog", "copy", "log"}
    <3>1. conn'[c] = k
      BY <1>1, <2>1, <2>8
    <3>2. QED
      BY <2>1, <3>1
  <2>9. QED
    BY <2>6, <2>7, <2>8
<1>4. DOMAIN conn' = Conns /\ conn' = [c \in Conns |-> conn'[c]]
  BY <1>1
<1>5. QED
  BY <1>1, <1>2, <1>3, <1>4, BrokenKeeps

LEMMA TcpFrame ==
    ASSUME TcpInv, UNCHANGED tcpVars
    PROVE  TcpInv'
<1>1. UNCHANGED <<conn, backlog, proxy, server>>
  BY DEF tcpVars
<1>2. AcceptInv'
  BY <1>1 DEF TcpInv, AcceptInv, Waiting, NewConn
<1>3. IntactInv'
  BY <1>1 DEF TcpInv, IntactInv, Intact, Broken
<1>4. LineEchoed'
  BY <1>1 DEF TcpInv, LineEchoed
<1>5. QED
  BY <1>1, <1>2, <1>3, <1>4 DEF TcpInv

\* TcpNext by what a step does to the connections.
LEMMA TcpCases ==
    ASSUME TcpNext
    PROVE  \/ \E c \in Conns : Connect(c) \/ ConnStep(c)
           \/ Accept \/ Connected \/ ProxyExits \/ ServerExits \/ TcpLog
  BY DEF TcpNext, ConnStep

LEMMA TcpKeeps == TcpInv /\ [Next]_vars => TcpInv'
<1> SUFFICES ASSUME TcpInv, [Next]_vars PROVE TcpInv'
  OBVIOUS
<1>1. CASE UNCHANGED tcpVars
  BY <1>1, TcpFrame
<1>2. CASE TcpNext
  <2>1. CASE TcpLog
    BY <1>1, <2>1 DEF TcpLog
  <2>2. ASSUME NEW c \in Conns, ConnStep(c) PROVE TcpInv'
    BY <2>2, ConnSteps, OneConn
  <2>3. QED
    BY <1>2, <2>1, <2>2, TcpCases, ConnectKeeps, AcceptKeeps, ConnectedKeeps,
       ProxyExitsKeeps, ServerExitsKeeps
<1>3. QED
  BY <1>1, <1>2 DEF Next, UdpStep, TcpStep, vars

LEMMA TcpInitInv == Init => TcpInv
<1> SUFFICES ASSUME Init PROVE TcpInv
  OBVIOUS
<1>1. /\ conn = [c \in Conns |-> NewConn] /\ backlog = <<>>
      /\ proxy = <<"accept">> /\ server = "up"
  BY DEF Init, TcpInit
<1>2. NewConn.client = "off" /\ ~NewConn.short
  BY DEF NewConn
<1>3. backlog \in Seq(Conns) /\ DOMAIN backlog = {}
  BY <1>1
<1>4. \A c : ~Waiting(c)
  BY <1>1, <1>3 DEF Waiting
<1>5. AcceptInv
  BY <1>1, <1>3, <1>4, NewConnType DEF AcceptInv
<1>6. IntactInv /\ LineEchoed
  BY <1>1, <1>2 DEF IntactInv, LineEchoed
<1>7. QED
  BY <1>5, <1>6 DEF TcpInv

\* A client that reads to the end of the stream has its whole line, unless
\* one of the two processes has ended: for any clients, any lines and pipes
\* that hold any number of bytes (proxy/main.rs:35-38,
\* echoserver/main.rs:142-149).
THEOREM LinesAreEchoed == Spec => []LineEchoed
<1>1. TcpInv => LineEchoed
  BY DEF TcpInv
<1>2. QED
  BY <1>1, TcpInitInv, TcpKeeps, PTL DEF Spec

-----------------------------------------------------------------------------
(***************************************************************************)
(* The lag of the log                                                      *)
(***************************************************************************)
LEMMA Finite == IsFiniteSet(W) /\ Cardinality(W) = Workers /\ Workers \in Nat /\ LogCap \in Nat
<1>1. Workers \in Nat /\ Workers >= 1 /\ LogCap \in Nat
  BY UdpAssumption, LogAssumption
<1>2. IsFiniteSet(1 .. Workers) /\ Cardinality(1 .. Workers) = Workers
  BY <1>1, FS_Interval
<1>3. QED
  BY <1>1, <1>2 DEF W

LEMMA LogStepTypes ==
    ASSUME LogTypes, LogSend \/ LogSendFails \/ LogRecv \/ LogPrint \/ LogPanic
    PROVE  LogTypes'
  BY LogAssumption DEF LogTypes, LogSend, LogSendFails, LogRecv, LogPrint, LogPanic, logVars

\* A step that leaves the log alone.
LEMMA LogFrame ==
    ASSUME LogTypes, chan' = chan, logger' = logger, lag' \in Int
    PROVE  LogTypes'
  BY DEF LogTypes

\* While the logger lives, what is in its hands and in the channel is bounded.
LEMMA LagUdp ==
    ASSUME LogTypes', udp' = TRUE,
           logger' # "dead" =>
              lag' = chan' + (IF logger' = "print" THEN 1 ELSE 0) + Cardinality(Logging'),
           logger' = "dead" => lag' <= LogCap + 1 + Cardinality(Stopped')
    PROVE  LagInv'
<1>1. Logging' \subseteq Stopped' /\ Stopped' \subseteq W
  BY DEF Logging, Stopped, W
<1>2. /\ Cardinality(Logging') \in Nat /\ Cardinality(Stopped') \in Nat
      /\ Cardinality(Logging') <= Cardinality(Stopped')
  <2>1. IsFiniteSet(Stopped')
    BY <1>1, Finite, FS_Subset
  <2>2. IsFiniteSet(Logging') /\ Cardinality(Logging') <= Cardinality(Stopped')
    BY <1>1, <2>1, FS_Subset
  <2>3. QED
    BY <2>1, <2>2, FS_CardinalityType
<1>3. LogCap \in Nat /\ chan' \in 0 .. LogCap /\ lag' \in Int
  BY Finite DEF LogTypes
<1>4. CASE logger' # "dead"
  <2>1. lag' <= LogCap + 1 + Cardinality(Stopped')
    BY <1>2, <1>3, <1>4
  <2>2. QED
    BY <1>4, <2>1 DEF LagInv
<1>5. CASE logger' = "dead"
  BY <1>5 DEF LagInv
<1>6. QED
  BY <1>4, <1>5

\* Every UDP step keeps the bound on the lag.
LEMMA UdpLagKeeps ==
    ASSUME UdpInv, LogTypes, LagInv, udp = TRUE, udp' = TRUE, UdpNext
    PROVE  LogTypes' /\ LagInv'
<1>1. /\ IsFiniteSet(Logging) /\ IsFiniteSet(Stopped)
      /\ Cardinality(Logging) \in Nat /\ Cardinality(Stopped) \in Nat
  <2>1. Logging \subseteq W /\ Stopped \subseteq W
    BY DEF Logging, Stopped
  <2>2. QED
    BY <2>1, Finite, FS_Subset, FS_CardinalityType
<1>2. /\ chan \in 0 .. LogCap /\ lag \in Int /\ LogCap \in Nat
      /\ logger \in {"recv", "print", "dead"}
  BY Finite DEF LogTypes
<1>3. /\ logger # "dead" => lag = chan + (IF logger = "print" THEN 1 ELSE 0) + Cardinality(Logging)
      /\ lag <= LogCap + 1 + Cardinality(Stopped)
  BY DEF LagInv
<1>4. ASSUME UNCHANGED logVars, Logging' = Logging, Stopped \subseteq Stopped', Stopped' \subseteq W
      PROVE  LogTypes' /\ LagInv'
  <2>1. UNCHANGED <<chan, logger, lag>>
    BY <1>4 DEF logVars
  <2>2. LogTypes'
    BY <2>1 DEF LogTypes
  <2>3. IsFiniteSet(Stopped') /\ Cardinality(Stopped) <= Cardinality(Stopped')
    BY <1>4, Finite, FS_Subset
  <2>4. Cardinality(Stopped') \in Nat
    BY <2>3, FS_CardinalityType
  <2>5. lag' <= LogCap + 1 + Cardinality(Stopped')
    BY <1>1, <1>2, <1>3, <2>1, <2>3, <2>4
  <2>6. QED
    BY <1>3, <1>4, <2>1, <2>2, <2>5, LagUdp
<1>5. ASSUME UNCHANGED <<worker, logVars>> PROVE LogTypes' /\ LagInv'
  <2>1. Logging' = Logging /\ Stopped' = Stopped /\ Stopped \subseteq W
    BY <1>5 DEF Logging, Stopped
  <2>2. QED
    BY <1>4, <1>5, <2>1
<1>6. ASSUME NEW w \in W, NEW d \in Datagrams, RecvFrom(w, d) PROVE LogTypes' /\ LagInv'
  <2>1. /\ worker[w] = "recv" /\ worker' = [worker EXCEPT ![w] = "send"] /\ UNCHANGED logVars
    BY <1>6 DEF RecvFrom
  <2>2. Logging' = Logging /\ Stopped' = Stopped /\ Stopped \subseteq W
    BY <2>1 DEF Logging, Stopped, UdpInv
  <2>3. QED
    BY <1>4, <2>1, <2>2
<1>7. ASSUME NEW w \in W, SendTo(w) PROVE LogTypes' /\ LagInv'
  <2>1. /\ worker[w] = "send" /\ worker' = [worker EXCEPT ![w] = "log"]
        /\ lag' = lag + 1 /\ UNCHANGED <<chan, logger>>
    BY <1>7 DEF SendTo
  <2>2. LogTypes'
    BY <1>2, <2>1, LogFrame
  <2>3. /\ Logging' = Logging \cup {w} /\ w \notin Logging
        /\ Stopped' = Stopped \cup {w} /\ w \notin Stopped
    BY <2>1 DEF Logging, Stopped, UdpInv
  <2>4. /\ Cardinality(Logging') = Cardinality(Logging) + 1
        /\ Cardinality(Stopped') = Cardinality(Stopped) + 1
    BY <1>1, <2>3, FS_AddElement
  <2>5. /\ logger' # "dead" =>
              lag' = chan' + (IF logger' = "print" THEN 1 ELSE 0) + Cardinality(Logging')
        /\ lag' <= LogCap + 1 + Cardinality(Stopped')
    BY <1>1, <1>2, <1>3, <2>1, <2>4
  <2>6. QED
    BY <2>2, <2>5, LagUdp
<1>8. ASSUME NEW w \in W, Report(w) PROVE LogTypes' /\ LagInv'
  <2>1. CASE LogSend /\ worker' = [worker EXCEPT ![w] = "recv"]
    <3>1. LogTypes'
      BY <2>1, LogStepTypes
    <3>2. logger # "dead" /\ chan' = chan + 1 /\ UNCHANGED <<logger, lag>> /\ worker[w] = "log"
      BY <1>8, <2>1 DEF LogSend, Report
    <3>3. Logging' = Logging \ {w} /\ w \in Logging
      BY <2>1, <3>2 DEF Logging, UdpInv
    <3>4. Cardinality(Logging') = Cardinality(Logging) - 1
      BY <1>1, <3>3, FS_RemoveElement
    <3>5. /\ logger' # "dead"
          /\ lag' = chan' + (IF logger' = "print" THEN 1 ELSE 0) + Cardinality(Logging')
      BY <1>1, <1>2, <1>3, <3>2, <3>4
    <3>6. QED
      BY <3>1, <3>5, LagUdp
  <2>2. CASE LogSendFails /\ worker' = [worker EXCEPT ![w] = "dead"]
    <3>1. logger = "dead" /\ UNCHANGED <<chan, logger, lag>> /\ worker[w] = "log"
      BY <1>8, <2>2 DEF LogSendFails, logVars, Report
    <3>2. Stopped' = Stopped
      BY <2>2, <3>1 DEF Stopped, UdpInv
    <3>3. LogTypes'
      BY <3>1 DEF LogTypes
    <3>4. QED
      BY <1>3, <3>1, <3>2, <3>3, LagUdp
  <2>3. QED
    BY <1>8, <2>1, <2>2 DEF Report
<1>9. ASSUME NEW w \in W, WorkerPanics(w) PROVE LogTypes' /\ LagInv'
  <2>1. /\ worker[w] \in {"recv", "send"} /\ worker' = [worker EXCEPT ![w] = "dead"]
        /\ UNCHANGED logVars
    BY <1>9 DEF WorkerPanics
  <2>2. Logging' = Logging /\ Stopped \subseteq Stopped' /\ Stopped' \subseteq W
    BY <2>1 DEF Logging, Stopped, UdpInv, W
  <2>3. QED
    BY <1>4, <2>1, <2>2
<1>10. CASE UdpLog
  <2>1. LogRecv \/ LogPrint \/ LogPanic
    BY <1>10 DEF UdpLog
  <2>2. LogTypes'
    BY <2>1, LogStepTypes
  <2>3. Logging' = Logging /\ Stopped' = Stopped
    BY <1>10 DEF UdpLog, udpVars, Logging, Stopped
  <2>4. CASE LogRecv \/ LogPrint
    <3>1. /\ logger' # "dead"
          /\ lag' = chan' + (IF logger' = "print" THEN 1 ELSE 0) + Cardinality(Logging)
      BY <1>1, <1>2, <1>3, <2>4 DEF LogRecv, LogPrint
    <3>2. QED
      BY <2>2, <2>3, <3>1, LagUdp
  <2>5. CASE LogPanic
    <3>1. logger' = "dead" /\ lag' = lag
      BY <2>5 DEF LogPanic
    <3>2. QED
      BY <1>3, <2>2, <2>3, <3>1, LagUdp
  <2>6. QED
    BY <2>1, <2>4, <2>5
<1>11. QED
  <2>1. CASE MainReturns \/ \E d \in Datagrams : Send(d)
    BY <1>5, <2>1 DEF MainReturns, Send
  <2>2. QED
    BY <1>6, <1>7, <1>8, <1>9, <1>10, <2>1 DEF UdpNext

\* The steps of the TCP server keep the log's types; its lag is not bounded.
LEMMA TcpLogKeeps ==
    ASSUME TcpInv, LogTypes, TcpNext
    PROVE  LogTypes'
<1>1. ASSUME UNCHANGED logVars PROVE LogTypes'
  BY <1>1 DEF logVars, LogTypes
<1>2. ASSUME NEW c \in Conns, ConnStep(c) PROVE LogTypes'
  <2>1. CASE SrvReport(c)
    BY <2>1, LogStepTypes DEF SrvReport
  <2>2. CASE ~SrvReport(c)
    <3>1. UNCHANGED <<chan, logger>>
      BY <1>2, <2>2 DEF ConnStep, ClientWrite, ClientShutdown, ClientRead, ClientLeaves,
         Transfer, TaskEnds, SrvAccept, Echo, EchoEnds, logVars
    <3>2. PICK r \in ConnType : Advances(c, r)
      BY <1>2, ConnSteps
    <3>3. lag' \in Int
      BY <3>2 DEF Advances, LogTypes
    <3>4. QED
      BY <3>1, <3>3, LogFrame
  <2>3. QED
    BY <2>1, <2>2
<1>3. CASE TcpLog
  BY <1>3, LogStepTypes DEF TcpLog
<1>4. CASE Accept \/ Connected \/ ProxyExits \/ ServerExits \/ \E c \in Conns : Connect(c)
  BY <1>1, <1>4 DEF Accept, Connected, ProxyExits, ServerExits, Connect
<1>5. QED
  BY <1>2, <1>3, <1>4, TcpCases

EchoInv == udp \in BOOLEAN /\ UdpInv /\ EchoSound /\ TcpInv /\ LogTypes /\ LagInv

LEMMA EchoKeeps == EchoInv /\ [Next]_vars => EchoInv'
<1> SUFFICES ASSUME EchoInv, [Next]_vars PROVE EchoInv'
  OBVIOUS
<1>1. UdpInv' /\ EchoSound' /\ TcpInv'
  BY UdpKeeps, TcpKeeps DEF EchoInv
<1>2. udp' = udp /\ udp \in BOOLEAN
  BY DEF EchoInv, Next, UdpStep, TcpStep, vars
<1>3. CASE udp /\ UdpNext
  <2>1. udp = TRUE /\ udp' = TRUE
    BY <1>2, <1>3
  <2>2. QED
    BY <1>1, <1>2, <1>3, <2>1, UdpLagKeeps DEF EchoInv
<1>4. CASE ~udp /\ TcpNext
  <2>1. udp = FALSE /\ udp' = FALSE
    BY <1>2, <1>4
  <2>2. LogTypes'
    BY <1>4, TcpLogKeeps DEF EchoInv
  <2>3. QED
    BY <1>1, <1>2, <2>1, <2>2 DEF EchoInv, LagInv
<1>5. CASE UNCHANGED vars
  <2>1. LogTypes' /\ LagInv'
    BY <1>5 DEF EchoInv, vars, logVars, udpVars, tcpVars, LogTypes, LagInv, Logging, Stopped
  <2>2. QED
    BY <1>1, <1>2, <2>1 DEF EchoInv
<1>6. QED
  BY <1>3, <1>4, <1>5 DEF Next, UdpStep, TcpStep

LEMMA EchoInitInv == Init => EchoInv
<1> SUFFICES ASSUME Init PROVE EchoInv
  OBVIOUS
<1>1. buf \in [W -> [1 .. BufLen -> Bytes]]
  BY DEF Init, UdpInit, Bytes
<1>2. UdpInv /\ EchoSound /\ udp \in BOOLEAN
  BY <1>1 DEF Init, UdpInit, UdpInv, EchoSound
<1>3. chan = 0 /\ logger = "recv" /\ lag = 0 /\ LogCap \in Nat
  BY Finite DEF Init, LogInit
<1>4. LogTypes
  BY <1>3 DEF LogTypes
<1>5. Logging = {}
  BY DEF Init, UdpInit, Logging
<1>6. Stopped \subseteq W
  BY DEF Stopped
<1>7. Cardinality(Logging) = 0 /\ Cardinality(Stopped) \in Nat
  BY <1>5, <1>6, Finite, FS_EmptySet, FS_Subset, FS_CardinalityType
<1>8. LagInv
  BY <1>3, <1>7 DEF LagInv
<1>9. QED
  BY <1>2, <1>4, <1>8, TcpInitInv DEF EchoInv

\* However the logger stalls or dies and UDP workers with it, no more echoes
\* go unreported than the channel, the logger and the workers hold, for any
\* capacity, workers and datagrams (echoserver/main.rs:83-89, 116-122).
THEOREM LagIsBounded == Spec => []LagBounded
<1>1. EchoInv => LagBounded
  <2> SUFFICES ASSUME EchoInv, udp PROVE lag <= LogCap + 1 + Workers
    BY DEF LagBounded
  <2>1. Stopped \subseteq W
    BY DEF Stopped
  <2>2. Cardinality(Stopped) \in Nat /\ Cardinality(Stopped) <= Workers
    BY <2>1, Finite, FS_Subset, FS_CardinalityType
  <2>3. lag \in Int /\ LogCap \in Nat /\ Workers \in Nat
    BY Finite DEF EchoInv, LogTypes
  <2>4. QED
    BY <2>2, <2>3 DEF EchoInv, LagInv
<1>2. QED
  BY <1>1, EchoInitInv, EchoKeeps, PTL DEF Spec

-----------------------------------------------------------------------------
(***************************************************************************)
(* What Progress rests on                                                  *)
(***************************************************************************)
LogGoesOn ==
    logger = "dead" \/ chan < LogCap \/ logger = "print" \/ (logger = "recv" /\ chan > 0)

\* A step its client, the proxy's task or the server's task can take on a
\* connection: the guards of ClientWrite, ClientShutdown, ClientRead,
\* ClientLeaves, Transfer, TaskEnds, SrvAccept, Echo and EchoEnds.
ClientMoves(k, line, own) ==
    /\ k.client = "open"
    /\ \/ k.wr < line /\ CanWrite(k, "up1")
       \/ k.wr = line /\ ~own /\ "up1" \notin k.fin
       \/ (own => k.wr = line /\ k.rd < line) /\ (CanRead(k, "down1") \/ AtEof(k, "down1"))
       \/ "near" \in k.rst

CopyMoves(k, in, out) ==
    \/ CanRead(k, in) /\ CanWrite(k, out)
    \/ AtEof(k, in) /\ Leg[out] \notin k.rst

ProxyMoves(k) ==
    /\ k.px = "copy"
    /\ \/ "up" \notin k.done /\ CopyMoves(k, "up1", "up2")
       \/ "down" \notin k.done /\ CopyMoves(k, "down2", "down1")
       \/ k.done = {"up", "down"} \/ k.rst # {}

ServerMoves(k) ==
    \/ k.srv = "backlog"
    \/ /\ k.srv = "copy"
       /\ \/ CanRead(k, "up2") /\ CanWrite(k, "down2")
          \/ AtEof(k, "up2") \/ "far" \in k.rst

Moves(k, line, own) == ClientMoves(k, line, own) \/ ProxyMoves(k) \/ ServerMoves(k)

\* Nothing more is owed to the client
Settled(k, line) ==
    \/ k.client = "off"
    \/ k.client = "open" /\ k.rd = line
    \/ k.client = "gone" /\ k.px = "done" /\ k.srv = "closed"

\* A connection whose client still waits, or whose tasks have not ended, can
\* be moved on: by one of the three, by the proxy's accept loop or by the
\* logger.
NeverStalls ==
    ~udp /\ ~Broken => \A c \in Conns :
        \/ Settled(conn[c], Line(c))
        \/ Moves(conn[c], Line(c), c \in OwnConns)
        \/ Waiting(c) /\ (proxy[1] = "connect" \/ (proxy = <<"accept">> /\ backlog # <<>>))
        \/ conn[c].srv = "log" /\ LogGoesOn

\* The line of echoserver's own client, which does not read while it writes,
\* fits the way there and back.
OwnLinesFit == \A c \in OwnConns : Line(c) <= 4 * PipeCap

\* How the ends of a connection hang together, whoever is still there
Wired(k) ==
    /\ k.client = "gone" => "up1" \in k.fin /\ "down1" \in k.gone
    /\ k.px = "none" <=> k.srv = "none"
    /\ "up" \in k.done => "up2" \in k.fin
    /\ "down" \in k.done => "down2" \in k.fin /\ k.q["down2"] = 0
    /\ "down2" \in k.fin <=> k.srv = "closed"
    /\ k.srv = "closed" => "up2" \in k.gone
    /\ k.srv = "log" => "up2" \in k.fin
    /\ k.px = "done" => "up2" \in k.fin /\ "down2" \in k.gone

WiredInv == ~Broken => \A c \in Conns : Wired(conn[c])

\* A client the proxy has not served is still in its hands
WaitInv == ~Broken => \A c \in Conns : conn[c].client # "off" /\ conn[c].px = "none" => Waiting(c)

\* Writing and closing change no other pipe, whether or not anybody reads.
LEMMA WriteElsewhere ==
    ASSUME NEW k \in ConnType, NEW p \in Pipes, NEW x \in Pipes, x # p
    PROVE  Write(k, p).q[x] = k.q[x]
<1>1. k.q \in [Pipes -> Nat]
  BY DEF ConnType
<1>2. CASE p \in k.gone
  BY <1>2 DEF Write, ConnType
<1>3. CASE p \notin k.gone
  <2>1. PICK f : f = [k.q EXCEPT ![p] = k.q[p] + 1]
    OBVIOUS
  <2>2. Write(k, p) = [k EXCEPT !.q = f]
    BY <1>3, <2>1 DEF Write
  <2>3. Write(k, p).q = f
    BY <2>2 DEF ConnType
  <2>4. f[x] = k.q[x]
    BY <1>1, <2>1
  <2>5. QED
    BY <2>3, <2>4
<1>4. QED
  BY <1>2, <1>3

LEMMA CloseElsewhere ==
    ASSUME NEW k \in ConnType, NEW in \in Pipes, NEW out \in Pipes, NEW x \in Pipes
    PROVE  Close(k, in, out).q[x] = IF x = in THEN 0 ELSE k.q[x]
<1>1. k.q \in [Pipes -> Nat]
  BY DEF ConnType
<1>2. PICK f : f = [k.q EXCEPT ![in] = 0]
  OBVIOUS
<1>3. PICK a, b, z : /\ a = k.fin \cup {out} /\ b = k.gone \cup {in}
                     /\ z = IF k.q[in] > 0 THEN k.rst \cup {Leg[in]} ELSE k.rst
  OBVIOUS
<1>4. Close(k, in, out) = [k EXCEPT !.fin = a, !.gone = b, !.q = f, !.rst = z]
  BY <1>2, <1>3, Zenon DEF Close
<1>5. Close(k, in, out).q = f
  BY <1>4 DEF ConnType
<1>6. f[x] = IF x = in THEN 0 ELSE k.q[x]
  BY <1>1, <1>2
<1>7. QED
  BY <1>5, <1>6

\* The clients' steps.
LEMMA WiredClient ==
    ASSUME NEW k \in ConnType, Wired(k), k.client = "open", NEW r,
           \/ r = [Write(k, "up1") EXCEPT !.wr = @ + 1]
           \/ r = [k EXCEPT !.fin = @ \cup {"up1"}]
           \/ CanRead(k, "down1") /\ r = [Read(k, "down1") EXCEPT !.rd = @ + 1]
    PROVE  Wired(r)
<1>1. SUFFICES /\ SameTasks(r, k) /\ r.done = k.done /\ r.gone = k.gone
               /\ r.fin \in {k.fin, k.fin \cup {"up1"}} /\ r.q["down2"] = k.q["down2"]
  BY DEF Wired, SameTasks
<1>2. CASE r = [Write(k, "up1") EXCEPT !.wr = @ + 1]
  <2>1. PICK e : e = Write(k, "up1")
    OBVIOUS
  <2>2. /\ e \in ConnType /\ SameTasks(e, k) /\ e.fin = k.fin /\ e.gone = k.gone /\ e.done = k.done
        /\ e.q["down2"] = k.q["down2"]
    BY <2>1, WriteFacts, WriteElsewhere DEF Pipes
  <2>3. /\ SameTasks(r, e) /\ r.fin = e.fin /\ r.gone = e.gone /\ r.done = e.done /\ r.q = e.q
    BY <1>2, <2>1, <2>2 DEF ConnType, SameTasks
  <2>4. QED
    BY <2>2, <2>3 DEF SameTasks
<1>3. CASE r = [k EXCEPT !.fin = @ \cup {"up1"}]
  BY <1>3 DEF ConnType, SameTasks
<1>4. CASE CanRead(k, "down1") /\ r = [Read(k, "down1") EXCEPT !.rd = @ + 1]
  <2>1. PICK e : e = Read(k, "down1")
    OBVIOUS
  <2>2. /\ e \in ConnType /\ SameTasks(e, k) /\ e.fin = k.fin /\ e.gone = k.gone /\ e.done = k.done
        /\ e.q["down2"] = k.q["down2"]
    BY <1>4, <2>1, ReadFacts DEF Pipes
  <2>3. /\ SameTasks(r, e) /\ r.fin = e.fin /\ r.gone = e.gone /\ r.done = e.done /\ r.q = e.q
    BY <1>4, <2>1, <2>2 DEF ConnType, SameTasks
  <2>4. QED
    BY <2>2, <2>3 DEF SameTasks
<1>5. QED
  BY <1>2, <1>3, <1>4

LEMMA WiredLeave ==
    ASSUME NEW k \in ConnType, Wired(k), k.client = "open", NEW r,
           r = Leave(k) \/ \E b \in BOOLEAN : r = [Leave(k) EXCEPT !.short = b]
    PROVE  Wired(r)
<1>1. PICK e : e = Close(k, "down1", "up1")
  OBVIOUS
<1>2. /\ e \in ConnType /\ SameTasks(e, k) /\ e.done = k.done /\ e.fin = k.fin \cup {"up1"}
      /\ e.gone = k.gone \cup {"down1"} /\ e.q["down2"] = k.q["down2"]
  <2>1. "down1" \in Pipes /\ "up1" \in Pipes /\ "down2" \in Pipes
    BY DEF Pipes
  <2>2. e.q["down2"] = k.q["down2"]
    BY <1>1, <2>1, CloseElsewhere
  <2>3. /\ e \in ConnType /\ SameTasks(e, k) /\ e.done = k.done
        /\ e.fin = k.fin \cup {"up1"} /\ e.gone = k.gone \cup {"down1"}
    BY <1>1, CloseFacts DEF Pipes
  <2>4. QED
    BY <2>2, <2>3
<1>3. PICK f : f = Leave(k)
  OBVIOUS
<1>4. f = [e EXCEPT !.client = "gone", !.wr = 0, !.rd = 0]
  BY <1>1, <1>3 DEF Leave
<1>5. /\ f.client = "gone" /\ f.px = e.px /\ f.srv = e.srv /\ f.done = e.done /\ f.fin = e.fin
      /\ f.gone = e.gone /\ f.q = e.q
  BY <1>2, <1>4 DEF ConnType
<1>6. f \in ConnType
  BY <1>3, LeaveFacts
<1>7. /\ r.client = "gone" /\ r.px = f.px /\ r.srv = f.srv /\ r.done = f.done /\ r.fin = f.fin
      /\ r.gone = f.gone /\ r.q = f.q
  BY <1>3, <1>5, <1>6 DEF ConnType
<1>8. QED
  BY <1>2, <1>5, <1>7 DEF Wired, SameTasks

\* The proxy's task: a byte, the end of a direction, its own end.
LEMMA WiredTransfer ==
    ASSUME NEW k \in ConnType, Wired(k), k.px = "copy", NEW dir \in {"up", "down"}, dir \notin k.done,
           NEW r,
           \/ CanRead(k, In(dir)) /\ r = Write(Read(k, In(dir)), Out(dir))
           \/ /\ AtEof(k, In(dir))
              /\ r = [k EXCEPT !.fin = @ \cup {Out(dir)}, !.done = @ \cup {dir}]
    PROVE  Wired(r)
<1>1. /\ In(dir) \in Pipes /\ Out(dir) \in Pipes /\ "down2" \in Pipes
      /\ Out(dir) # "down2" /\ (dir = "up" => In(dir) # "down2")
      /\ (dir = "up" => Out(dir) = "up2") /\ (dir = "down" => In(dir) = "down2" /\ Out(dir) = "down1")
  BY DEF In, Out, Pipes
<1>2. CASE CanRead(k, In(dir)) /\ r = Write(Read(k, In(dir)), Out(dir))
  <2>1. PICK e : e = Read(k, In(dir))
    OBVIOUS
  <2>2. /\ e \in ConnType /\ SameTasks(e, k) /\ e.fin = k.fin /\ e.gone = k.gone /\ e.done = k.done
        /\ dir = "up" => e.q["down2"] = k.q["down2"]
    BY <1>1, <1>2, <2>1, ReadFacts
  <2>3. r = Write(e, Out(dir))
    BY <1>2, <2>1
  <2>4. /\ SameTasks(r, e) /\ r.fin = e.fin /\ r.gone = e.gone /\ r.done = e.done
    <3>1. PICK o \in Pipes : r = Write(e, o)
      BY <1>1, <2>3
    <3>2. QED
      BY <2>2, <3>1, WriteFacts
  <2>5. r.q["down2"] = e.q["down2"]
    BY <1>1, <2>2, <2>3, WriteElsewhere
  <2>6. QED
    BY <2>2, <2>4, <2>5 DEF Wired, SameTasks
<1>3. CASE /\ AtEof(k, In(dir))
           /\ r = [k EXCEPT !.fin = @ \cup {Out(dir)}, !.done = @ \cup {dir}]
  <2>1. /\ SameTasks(r, k) /\ r.gone = k.gone /\ r.q = k.q
        /\ r.fin = k.fin \cup {Out(dir)} /\ r.done = k.done \cup {dir}
    BY <1>3 DEF ConnType, SameTasks
  <2>2. CASE dir = "up"
    BY <1>1, <2>1, <2>2 DEF Wired, SameTasks
  <2>3. CASE dir = "down"
    BY <1>1, <1>3, <2>1, <2>3 DEF Wired, SameTasks, AtEof
  <2>4. QED
    BY <2>2, <2>3
<1>4. QED
  BY <1>2, <1>3

LEMMA WiredDrop ==
    ASSUME NEW k \in ConnType, Wired(k), k.px = "copy", NEW r, r = Drop(k)
    PROVE  Wired(r)
<1>1. PICK e : e = Close(k, "up1", "down1")
  OBVIOUS
<1>2. PICK f : f = Close(e, "down2", "up2")
  OBVIOUS
<1>3. /\ e \in ConnType /\ SameTasks(e, k)
      /\ e.fin = k.fin \cup {"down1"} /\ e.gone = k.gone \cup {"up1"}
  BY <1>1, CloseFacts DEF Pipes
<1>4. /\ f \in ConnType /\ SameTasks(f, e)
      /\ f.fin = e.fin \cup {"up2"} /\ f.gone = e.gone \cup {"down2"}
  BY <1>2, <1>3, CloseFacts DEF Pipes
<1>5. r = [f EXCEPT !.px = "done", !.done = {}]
  BY <1>1, <1>2 DEF Drop
<1>6. /\ r.client = f.client /\ r.px = "done" /\ r.srv = f.srv /\ r.done = {}
      /\ r.fin = f.fin /\ r.gone = f.gone
  BY <1>4, <1>5 DEF ConnType
<1>7. QED
  BY <1>3, <1>4, <1>6 DEF Wired, SameTasks

\* The server's task: a byte, the end of the stream, its own end.
LEMMA WiredEcho ==
    ASSUME NEW k \in ConnType, Wired(k), k.srv = "copy", CanRead(k, "up2"), NEW r,
           r = Write(Read(k, "up2"), "down2")
    PROVE  Wired(r)
<1>1. PICK p \in Pipes, o \in Pipes : p = "up2" /\ o = "down2"
  BY DEF Pipes
<1>2. PICK e : e = Read(k, p)
  OBVIOUS
<1>3. /\ e \in ConnType /\ SameTasks(e, k) /\ e.fin = k.fin /\ e.gone = k.gone /\ e.done = k.done
  BY <1>1, <1>2, ReadFacts
<1>4. r = Write(e, o)
  BY <1>1, <1>2
<1>5. /\ SameTasks(r, e) /\ r.fin = e.fin /\ r.gone = e.gone /\ r.done = e.done
  BY <1>3, <1>4, WriteFacts
<1>6. "down" \notin k.done
  BY DEF Wired
<1>7. QED
  BY <1>3, <1>5, <1>6 DEF Wired, SameTasks

LEMMA WiredSrv ==
    ASSUME NEW k \in ConnType, Wired(k), NEW r,
           \/ k.srv = "backlog" /\ r = [k EXCEPT !.srv = "copy"]
           \/ k.srv = "copy" /\ AtEof(k, "up2") /\ r = [k EXCEPT !.srv = "log"]
    PROVE  Wired(r)
<1>1. /\ r.client = k.client /\ r.px = k.px /\ r.done = k.done
      /\ r.fin = k.fin /\ r.gone = k.gone /\ r.q = k.q
      /\ r.srv \in {"copy", "log"} /\ (r.srv = "log" => "up2" \in k.fin)
      /\ k.srv \in {"backlog", "copy"}
  BY DEF ConnType, AtEof
<1>2. QED
  BY <1>1 DEF Wired

LEMMA WiredClose ==
    ASSUME NEW k \in ConnType, Wired(k), k.srv \in {"copy", "log"}, NEW r, r = SrvClose(k)
    PROVE  Wired(r)
<1>1. PICK e : e = Close(k, "up2", "down2")
  OBVIOUS
<1>2. "up2" \in Pipes /\ "down2" \in Pipes
  BY DEF Pipes
<1>3. /\ e \in ConnType /\ SameTasks(e, k) /\ e.done = k.done
      /\ e.fin = k.fin \cup {"down2"} /\ e.gone = k.gone \cup {"up2"}
  BY <1>1, <1>2, CloseFacts
<1>4. r = [e EXCEPT !.srv = "closed"]
  BY <1>1 DEF SrvClose
<1>5. /\ r.client = e.client /\ r.px = e.px /\ r.srv = "closed" /\ r.done = e.done
      /\ r.fin = e.fin /\ r.gone = e.gone
  BY <1>3, <1>4 DEF ConnType
<1>6. "down" \notin k.done
  BY DEF Wired
<1>7. QED
  BY <1>3, <1>5, <1>6 DEF Wired, SameTasks

LEMMA WiredPaired ==
    ASSUME NEW k \in ConnType, Wired(k), k.px = "none", NEW r, r = Paired(k)
    PROVE  Wired(r)
<1>1. /\ r.client = k.client /\ r.px = "copy" /\ r.srv = "backlog" /\ r.done = k.done
      /\ r.fin = k.fin /\ r.gone = k.gone /\ r.q = k.q
  BY DEF ConnType, Paired
<1>2. QED
  BY <1>1 DEF Wired

LEMMA WiredNew ==
    Wired(NewConn) /\ Wired([NewConn EXCEPT !.client = "open"])
<1>1. ASSUME NEW r, r = NewConn \/ r = [NewConn EXCEPT !.client = "open"] PROVE Wired(r)
  <2>1. /\ r.client \in {"off", "open"} /\ r.px = "none" /\ r.srv = "none" /\ r.done = {}
        /\ r.fin = {} /\ r.gone = {}
    BY <1>1 DEF NewConn
  <2>2. QED
    BY <2>1 DEF Wired
<1>2. QED
  BY <1>1

\* Every step on a connection keeps it wired.
LEMMA WiredStep ==
    ASSUME TcpInv, NEW c \in Conns, ConnStep(c), Wired(conn[c])
    PROVE  Wired(conn'[c])
<1>1. PICK k \in ConnType : k = conn[c]
  BY DEF TcpInv, AcceptInv
<1>2. Wired(k)
  BY <1>1
<1>3. ASSUME NEW r, Becomes(c, r), Wired(r) PROVE Wired(conn'[c])
  <2>1. conn'[c] = r
    BY <1>3 DEF Becomes, TcpInv, AcceptInv
  <2>2. QED
    BY <1>3, <2>1, Zenon
<1>4. CASE ClientWrite(c)
  <2>1. PICK r : r = [Write(k, "up1") EXCEPT !.wr = @ + 1]
    OBVIOUS
  <2>2. k.client = "open" /\ Becomes(c, r)
    BY <1>1, <1>4, <2>1, Zenon DEF ClientWrite
  <2>3. QED
    BY <1>2, <1>3, <2>1, <2>2, WiredClient
<1>5. CASE ClientShutdown(c)
  <2>1. PICK r : r = [k EXCEPT !.fin = @ \cup {"up1"}]
    OBVIOUS
  <2>2. k.client = "open" /\ Becomes(c, r)
    BY <1>1, <1>5, <2>1, Zenon DEF ClientShutdown
  <2>3. QED
    BY <1>2, <1>3, <2>1, <2>2, WiredClient
<1>6. CASE ClientRead(c)
  <2>1. k.client = "open"
    BY <1>1, <1>6, Zenon DEF ClientRead
  <2>2. CASE CanRead(k, "down1") /\ Becomes(c, [Read(k, "down1") EXCEPT !.rd = @ + 1])
    <3>1. PICK r : r = [Read(k, "down1") EXCEPT !.rd = @ + 1]
      OBVIOUS
    <3>2. QED
      BY <1>2, <1>3, <2>1, <2>2, <3>1, WiredClient
  <2>3. CASE Becomes(c, [Leave(k) EXCEPT !.short = k.rd < Line(c)])
    <3>1. (k.rd < Line(c)) \in BOOLEAN
      OBVIOUS
    <3>2. PICK b \in BOOLEAN : b = (k.rd < Line(c))
      BY <3>1, Zenon
    <3>3. PICK r : r = [Leave(k) EXCEPT !.short = b]
      OBVIOUS
    <3>4. Becomes(c, r)
      BY <2>3, <3>2, <3>3, Zenon
    <3>5. Wired(r)
      BY <1>2, <2>1, <3>3, WiredLeave
    <3>6. QED
      BY <1>3, <3>4, <3>5
  <2>4. QED
    BY <1>1, <1>6, <2>2, <2>3, Zenon DEF ClientRead
<1>7. CASE \E killed \in BOOLEAN : ClientLeaves(c, killed)
  <2>1. PICK r : r = Leave(k)
    OBVIOUS
  <2>2. k.client = "open" /\ Becomes(c, r)
    BY <1>1, <1>7, <2>1, Zenon DEF ClientLeaves
  <2>3. QED
    BY <1>2, <1>3, <2>1, <2>2, WiredLeave
<1>8. ASSUME NEW dir \in {"up", "down"}, Transfer(c, dir) PROVE Wired(conn'[c])
  <2>1. k.px = "copy" /\ dir \notin k.done
    BY <1>1, <1>8, Zenon DEF Transfer
  <2>2. CASE CanRead(k, In(dir)) /\ Becomes(c, Write(Read(k, In(dir)), Out(dir)))
    <3>1. PICK r : r = Write(Read(k, In(dir)), Out(dir))
      OBVIOUS
    <3>2. Wired(r)
      BY <1>2, <2>1, <2>2, <3>1, WiredTransfer
    <3>3. QED
      BY <1>3, <2>2, <3>1, <3>2
  <2>3. CASE /\ AtEof(k, In(dir))
             /\ Becomes(c, [k EXCEPT !.fin = @ \cup {Out(dir)}, !.done = @ \cup {dir}])
    <3>1. PICK r : r = [k EXCEPT !.fin = @ \cup {Out(dir)}, !.done = @ \cup {dir}]
      OBVIOUS
    <3>2. Wired(r)
      BY <1>2, <2>1, <2>3, <3>1, WiredTransfer
    <3>3. QED
      BY <1>3, <2>3, <3>1, <3>2
  <2>4. QED
    BY <1>1, <1>8, <2>2, <2>3, Zenon DEF Transfer
<1>9. CASE TaskEnds(c)
  <2>1. PICK r : r = Drop(k)
    OBVIOUS
  <2>2. k.px = "copy" /\ Becomes(c, r)
    BY <1>1, <1>9, <2>1, Zenon DEF TaskEnds
  <2>3. QED
    BY <1>2, <1>3, <2>1, <2>2, WiredDrop
<1>10. CASE SrvAccept(c)
  <2>1. PICK r : r = [k EXCEPT !.srv = "copy"]
    OBVIOUS
  <2>2. k.srv = "backlog" /\ Becomes(c, r)
    BY <1>1, <1>10, <2>1, Zenon DEF SrvAccept
  <2>3. QED
    BY <1>2, <1>3, <2>1, <2>2, WiredSrv
<1>11. CASE Echo(c)
  <2>1. PICK r : r = Write(Read(k, "up2"), "down2")
    OBVIOUS
  <2>2. k.srv = "copy" /\ CanRead(k, "up2") /\ Becomes(c, r)
    BY <1>1, <1>11, <2>1, Zenon DEF Echo
  <2>3. QED
    BY <1>2, <1>3, <2>1, <2>2, WiredEcho
<1>12. ASSUME k.srv \in {"copy", "log"}, Becomes(c, SrvClose(k)) PROVE Wired(conn'[c])
  <2>1. PICK r : r = SrvClose(k)
    OBVIOUS
  <2>2. Wired(r)
    BY <1>2, <1>12, <2>1, WiredClose
  <2>3. QED
    BY <1>3, <1>12, <2>1, <2>2
<1>13. CASE EchoEnds(c)
  <2>1. k.srv = "copy"
    BY <1>1, <1>13, Zenon DEF EchoEnds
  <2>2. CASE AtEof(k, "up2") /\ Becomes(c, [k EXCEPT !.srv = "log"])
    <3>1. PICK r : r = [k EXCEPT !.srv = "log"]
      OBVIOUS
    <3>2. QED
      BY <1>2, <1>3, <2>1, <2>2, <3>1, WiredSrv
  <2>3. CASE Becomes(c, SrvClose(k))
    BY <1>12, <2>1, <2>3
  <2>4. QED
    BY <1>1, <1>13, <2>2, <2>3, Zenon DEF EchoEnds
<1>14. CASE SrvReport(c)
  <2>1. k.srv = "log" /\ Becomes(c, SrvClose(k))
    BY <1>1, <1>14, Zenon DEF SrvReport
  <2>2. QED
    BY <1>12, <2>1
<1>15. QED
  BY <1>4, <1>5, <1>6, <1>7, <1>8, <1>9, <1>10, <1>11, <1>13, <1>14 DEF ConnStep

\* While both processes live.
LEMMA WiredKeeps ==
    ASSUME TcpInv, WiredInv, WaitInv, [Next]_vars
    PROVE  WiredInv' /\ WaitInv'
<1>1. SUFFICES ASSUME ~Broken'
               PROVE  /\ \A d \in Conns : Wired(conn'[d])
                      /\ \A d \in Conns : conn'[d].client # "off" /\ conn'[d].px = "none" => Waiting(d)'
  BY DEF WiredInv, WaitInv, Wired
<1>2. ASSUME ~Broken, UNCHANGED <<conn, backlog, proxy>>
      PROVE  /\ \A d \in Conns : Wired(conn'[d])
             /\ \A d \in Conns : conn'[d].client # "off" /\ conn'[d].px = "none" => Waiting(d)'
  BY <1>2 DEF WiredInv, WaitInv, Waiting
<1>3. CASE UNCHANGED tcpVars
  <2>1. UNCHANGED <<conn, backlog, proxy, server>>
    BY <1>3 DEF tcpVars
  <2>2. ~Broken
    BY <1>1, <2>1 DEF Broken
  <2>3. QED
    BY <1>2, <2>1, <2>2
<1>4. ASSUME NEW c \in Conns, ConnStep(c)
      PROVE  /\ \A d \in Conns : Wired(conn'[d])
             /\ \A d \in Conns : conn'[d].client # "off" /\ conn'[d].px = "none" => Waiting(d)'
  <2>1. PICK r \in ConnType : Advances(c, r)
    BY <1>4, ConnSteps
  <2>2. UNCHANGED <<backlog, proxy, server>> /\ conn[c].client # "off" /\ Becomes(c, r)
    BY <2>1 DEF Advances
  <2>3. ~Broken /\ \A d : Waiting(d)' = Waiting(d)
    BY <1>1, <2>2 DEF Broken, Waiting
  <2>4. conn'[c] = r /\ \A d \in Conns \ {c} : conn'[d] = conn[d]
    BY <2>2 DEF Becomes, TcpInv, AcceptInv
  <2>5. Wired(conn'[c])
    BY <1>4, <2>3, WiredStep DEF WiredInv
  <2>6. \A d \in Conns : Wired(conn'[d])
    <3> TAKE d \in Conns
    <3>1. CASE d = c
      BY <2>5, <3>1, Zenon
    <3>2. CASE d # c
      BY <2>3, <2>4, <3>2 DEF WiredInv
    <3>3. QED
      BY <3>1, <3>2
  <2>7. conn'[c].px = "none" => Waiting(c)'
    BY <2>1, <2>2, <2>3, <2>4 DEF Advances, WaitInv
  <2>8. QED
    BY <2>3, <2>4, <2>6, <2>7 DEF WaitInv
<1>5. ASSUME NEW c \in Conns, Connect(c)
      PROVE  /\ \A d \in Conns : Wired(conn'[d])
             /\ \A d \in Conns : conn'[d].client # "off" /\ conn'[d].px = "none" => Waiting(d)'
  <2>1. PICK r : r = [NewConn EXCEPT !.client = "open"]
    OBVIOUS
  <2>2. /\ conn[c] = NewConn /\ Becomes(c, r)
        /\ backlog' = Append(backlog, c) /\ UNCHANGED <<proxy, server>>
    BY <1>5, <2>1 DEF Connect, TcpInv, AcceptInv
  <2>3. ~Broken
    BY <1>1, <2>2 DEF Broken
  <2>4. conn'[c] = r /\ \A d \in Conns \ {c} : conn'[d] = conn[d]
    BY <2>2 DEF Becomes, TcpInv, AcceptInv
  <2>5. PICK n \in Nat : /\ DOMAIN backlog = 1 .. n /\ DOMAIN backlog' = 1 .. n + 1
                         /\ \A i \in 1 .. n : backlog'[i] = backlog[i]
                         /\ backlog'[n + 1] = c
    BY <2>2, AppendProperties, LenProperties DEF TcpInv, AcceptInv
  <2>6. Waiting(c)' /\ \A d : Waiting(d) => Waiting(d)'
    BY <2>2, <2>5 DEF Waiting
  <2>7. Wired(conn'[c])
    BY <2>1, <2>4, WiredNew
  <2>8. \A d \in Conns : Wired(conn'[d])
    <3> TAKE d \in Conns
    <3>1. CASE d = c
      BY <2>7, <3>1, Zenon
    <3>2. CASE d # c
      BY <2>3, <2>4, <3>2 DEF WiredInv
    <3>3. QED
      BY <3>1, <3>2
  <2>9. QED
    BY <2>3, <2>4, <2>6, <2>8 DEF WaitInv
<1>6. CASE Accept
  <2>1. /\ proxy = <<"accept">> /\ backlog # <<>> /\ proxy' = <<"connect", Head(backlog)>>
        /\ backlog' = Tail(backlog) /\ UNCHANGED <<conn, server>> /\ backlog \in Seq(Conns)
    BY <1>6 DEF Accept, TcpInv, AcceptInv
  <2>2. PICK n \in Nat : /\ DOMAIN backlog = 1 .. n /\ 1 <= n /\ DOMAIN backlog' = 1 .. n - 1
                         /\ \A i \in 1 .. n - 1 : backlog'[i] = backlog[i + 1]
                         /\ Head(backlog) = backlog[1]
    BY <2>1, HeadTailProperties, LenProperties, EmptySeq
  <2>3. ~Broken
    BY <1>1, <2>1 DEF Broken
  <2>4. ASSUME NEW d, Waiting(d) PROVE Waiting(d)'
    <3>1. PICK i \in 1 .. n : backlog[i] = d
      BY <2>1, <2>2, <2>4 DEF Waiting
    <3>2. CASE i = 1
      BY <2>1, <2>2, <3>1, <3>2 DEF Waiting
    <3>3. CASE i # 1
      <4>1. i - 1 \in 1 .. n - 1 /\ (i - 1) + 1 = i
        BY <3>3
      <4>2. backlog'[i - 1] = d
        BY <2>2, <3>1, <4>1
      <4>3. QED
        BY <2>2, <4>1, <4>2 DEF Waiting
    <3>4. QED
      BY <3>2, <3>3
  <2>5. QED
    BY <2>1, <2>3, <2>4 DEF WiredInv, WaitInv
<1>7. CASE Connected
  <2>1. PICK c \in Conns : proxy = <<"connect", c>>
    BY <1>7 DEF Connected, TcpInv, AcceptInv
  <2>2. PICK k \in ConnType : k = conn[c]
    BY DEF TcpInv, AcceptInv
  <2>3. PICK r : r = Paired(k)
    OBVIOUS
  <2>4. Becomes(c, r) /\ proxy' = <<"accept">> /\ UNCHANGED <<backlog, server>>
    <3>1. proxy[2] = c
      BY <2>1
    <3>2. QED
      BY <1>7, <2>2, <2>3, <3>1, Zenon DEF Connected, Paired
  <2>5. k.px = "none" /\ k.srv = "none"
    BY <2>1, <2>2 DEF TcpInv, AcceptInv, Waiting
  <2>6. ~Broken
    BY <1>1, <2>1, <2>4 DEF Broken
  <2>7. conn'[c] = r /\ \A d \in Conns \ {c} : conn'[d] = conn[d]
    BY <2>4 DEF Becomes, TcpInv, AcceptInv
  <2>8. \A d \in Conns \ {c} : Waiting(d) => Waiting(d)'
    BY <2>1, <2>4 DEF Waiting
  <2>9. Wired(r) /\ r.px = "copy"
    <3>1. Wired(k)
      BY <2>2, <2>6 DEF WiredInv
    <3>2. r.px = "copy"
      BY <2>3 DEF ConnType, Paired
    <3>3. QED
      BY <2>3, <2>5, <3>1, <3>2, WiredPaired
  <2>10. \A d \in Conns : Wired(conn'[d])
    <3> TAKE d \in Conns
    <3>1. CASE d = c
      BY <2>7, <2>9, <3>1, Zenon
    <3>2. CASE d # c
      BY <2>6, <2>7, <3>2 DEF WiredInv
    <3>3. QED
      BY <3>1, <3>2
  <2>11. QED
    BY <2>6, <2>7, <2>8, <2>9, <2>10 DEF WaitInv
<1>8. ~ProxyExits /\ ~ServerExits
  BY <1>1 DEF ProxyExits, ServerExits, Broken
<1>9. CASE TcpLog
  BY <1>3, <1>9 DEF TcpLog
<1>10. CASE TcpNext
  BY <1>4, <1>5, <1>6, <1>7, <1>8, <1>9, <1>10, TcpCases
<1>11. QED
  BY <1>3, <1>10 DEF Next, UdpStep, TcpStep, vars

LEMMA WiredInit == Init => WiredInv /\ WaitInv
<1> SUFFICES ASSUME Init PROVE WiredInv /\ WaitInv
  OBVIOUS
<1>1. \A c \in Conns : conn[c] = NewConn
  BY DEF Init, TcpInit
<1>2. NewConn.client = "off"
  BY DEF NewConn
<1>3. QED
  BY <1>1, <1>2, WiredNew, Zenon DEF WiredInv, WaitInv

\* The numbers of a connection and which leg a pipe is of.
LEMMA ConnNumbers ==
    ASSUME NEW k \in ConnType
    PROVE  /\ k.q["up1"] \in Nat /\ k.q["up2"] \in Nat /\ k.q["down1"] \in Nat /\ k.q["down2"] \in Nat
           /\ k.wr \in Nat /\ k.rd \in Nat /\ PipeCap \in Nat /\ PipeCap > 0
           /\ k.client \in {"off", "open", "gone"} /\ k.px \in {"none", "copy", "done"}
           /\ k.srv \in {"none", "backlog", "copy", "log", "closed"}
           /\ k.done \in SUBSET {"up", "down"}
  BY TcpAssumption DEF ConnType, Pipes

LEMMA Legs == Leg["up1"] = "near" /\ Leg["down1"] = "near" /\ Leg["up2"] = "far" /\ Leg["down2"] = "far"
  BY DEF Leg, Pipes

\* Where nothing was reset, a pipe that cannot be written to is full and its
\* reader is there.
LEMMA Full ==
    ASSUME NEW k \in ConnType, NEW p \in Pipes, k.rst = {}, ~CanWrite(k, p)
    PROVE  p \notin k.gone /\ k.q[p] >= PipeCap /\ CanRead(k, p)
<1>1. k.q[p] \in Nat /\ PipeCap \in Nat /\ PipeCap > 0
  BY TcpAssumption DEF ConnType
<1>2. QED
  BY <1>1 DEF CanWrite, CanRead

\* A pipe that cannot be read and is not at its end can be written to.
LEMMA Empty ==
    ASSUME NEW k \in ConnType, NEW p \in Pipes, k.rst = {}, ~CanRead(k, p)
    PROVE  k.q[p] = 0 /\ CanWrite(k, p) /\ (p \in k.fin => AtEof(k, p))
<1>1. k.q[p] \in Nat /\ PipeCap \in Nat /\ PipeCap > 0
  BY TcpAssumption DEF ConnType
<1>2. QED
  BY <1>1 DEF CanWrite, CanRead, AtEof

\* A client that waits on an intact connection: its bytes are somewhere on
\* the way around, and whoever they are with can pass them on.
LEMMA OpenMoves ==
    ASSUME NEW k \in ConnType, NEW line \in Nat, NEW own \in BOOLEAN,
           own => line <= 4 * PipeCap,
           k.client = "open", k.px # "none", k.srv # "log", k.rd # line,
           Intact(k, line), Wired(k)
    PROVE  Moves(k, line, own)
<1> SUFFICES ASSUME ~Moves(k, line, own) PROVE FALSE
  OBVIOUS
<1>1. /\ "up1" \in Pipes /\ "up2" \in Pipes /\ "down1" \in Pipes /\ "down2" \in Pipes
      /\ k.rst = {}
  BY DEF Pipes, Intact
<1>2. /\ k.q["up1"] \in Nat /\ k.q["up2"] \in Nat /\ k.q["down1"] \in Nat /\ k.q["down2"] \in Nat
      /\ k.wr \in Nat /\ k.rd \in Nat /\ PipeCap \in Nat /\ PipeCap > 0
      /\ k.px \in {"copy", "done"}
      /\ k.srv \in {"none", "backlog", "copy", "closed"}
  BY ConnNumbers
<1>3. /\ k.wr = k.rd + k.q["up1"] + k.q["up2"] + k.q["down2"] + k.q["down1"]
      /\ k.wr < line \/ k.wr = line
  <2>1. k.wr <= line /\ k.wr = k.rd + k.q["up1"] + k.q["up2"] + k.q["down2"] + k.q["down1"]
    BY DEF Intact
  <2>2. QED
    BY <1>2, <2>1
<1>4. k.rd < line
  <2>1. k.rd <= k.wr
    BY <1>2, <1>3
  <2>2. QED
    BY <1>2, <1>3, <2>1
<1>5. /\ ~(k.wr < line /\ CanWrite(k, "up1"))
      /\ (own => k.wr = line) => ~CanRead(k, "down1") /\ ~AtEof(k, "down1")
  BY <1>4 DEF Moves, ClientMoves
<1>6. k.px = "copy"
  <2>1. SUFFICES ASSUME k.px = "done" PROVE FALSE
    BY <1>2
  <2>2. "down1" \in k.fin /\ k.wr = line
    BY <2>1 DEF Intact
  <2>3. QED
    BY <1>1, <1>5, <2>2, Empty
<1>7. /\ k.srv \in {"copy", "closed"}
      /\ "up" \notin k.done => ~(CanRead(k, "up1") /\ CanWrite(k, "up2")) /\ ~AtEof(k, "up1")
      /\ "down" \notin k.done => ~(CanRead(k, "down2") /\ CanWrite(k, "down1")) /\ ~AtEof(k, "down2")
      /\ k.srv = "copy" => ~(CanRead(k, "up2") /\ CanWrite(k, "down2")) /\ ~AtEof(k, "up2")
  <2>1. k.srv # "backlog" /\ k.srv # "none"
    BY <1>6 DEF Moves, ServerMoves, Wired
  <2>2. QED
    BY <1>1, <1>2, <1>6, <2>1 DEF Moves, ServerMoves, ProxyMoves, CopyMoves
<1>8. CASE own /\ k.wr < line
  <2>1. k.q["up1"] >= PipeCap /\ CanRead(k, "up1")
    BY <1>1, <1>5, <1>8, Full
  <2>2. "up1" \notin k.fin /\ "up2" \notin k.fin /\ "down2" \notin k.fin /\ "down1" \notin k.fin
    BY <1>2, <1>8 DEF Intact
  <2>3. "up" \notin k.done /\ "down" \notin k.done /\ k.srv = "copy"
    BY <1>6, <1>7, <2>2 DEF Intact
  <2>4. k.q["up2"] >= PipeCap /\ CanRead(k, "up2")
    BY <1>1, <1>7, <2>1, <2>3, Full
  <2>5. k.q["down2"] >= PipeCap /\ CanRead(k, "down2")
    BY <1>1, <1>7, <2>3, <2>4, Full
  <2>6. k.q["down1"] >= PipeCap
    BY <1>1, <1>7, <2>3, <2>5, Full
  <2>7. QED
    BY <1>2, <1>3, <1>8, <2>1, <2>4, <2>5, <2>6
<1>9. CASE own => k.wr = line
  <2>1. k.q["down1"] = 0 /\ CanWrite(k, "down1") /\ "down1" \notin k.fin
    BY <1>1, <1>5, <1>9, Empty
  <2>2. "down" \notin k.done
    BY <1>6, <2>1 DEF Intact
  <2>3. k.q["down2"] = 0 /\ CanWrite(k, "down2") /\ "down2" \notin k.fin
    BY <1>1, <1>7, <2>1, <2>2, Empty
  <2>4. k.srv = "copy"
    BY <1>7, <2>3 DEF Wired
  <2>5. k.q["up2"] = 0 /\ CanWrite(k, "up2") /\ "up2" \notin k.fin
    BY <1>1, <1>7, <2>3, <2>4, Empty
  <2>6. "up" \notin k.done
    BY <2>5 DEF Wired
  <2>7. k.q["up1"] = 0 /\ CanWrite(k, "up1")
    BY <1>1, <1>7, <2>5, <2>6, Empty
  <2>8. k.wr = k.rd
    BY <1>2, <1>3, <2>1, <2>3, <2>5, <2>7
  <2>9. QED
    BY <1>4, <1>5, <2>7, <2>8
<1>10. QED
  BY <1>3, <1>8, <1>9, Zenon

\* After a client has left, both tasks come to their end.
LEMMA GoneMoves ==
    ASSUME NEW k \in ConnType, NEW line \in Nat, NEW own \in BOOLEAN,
           k.client = "gone", k.px # "none", k.srv # "log", Wired(k),
           ~(k.px = "done" /\ k.srv = "closed")
    PROVE  Moves(k, line, own)
<1> SUFFICES ASSUME ~Moves(k, line, own) PROVE FALSE
  OBVIOUS
<1>1. /\ "up1" \in Pipes /\ "up2" \in Pipes /\ "down1" \in Pipes /\ "down2" \in Pipes
  BY DEF Pipes
<1>2. /\ k.px \in {"copy", "done"} /\ k.srv \in {"none", "backlog", "copy", "closed"}
      /\ k.done \in SUBSET {"up", "down"}
  BY ConnNumbers
<1>3. k.srv \in {"copy", "closed"}
  BY <1>2 DEF Moves, ServerMoves, Wired
<1>4. CASE k.px = "done"
  <2>1. k.srv = "copy" /\ "far" \notin k.rst /\ "up2" \in k.fin /\ "down2" \in k.gone
    BY <1>3, <1>4 DEF Moves, ServerMoves, Wired
  <2>2. CanWrite(k, "down2")
    BY <2>1, Legs DEF CanWrite
  <2>3. ~CanRead(k, "up2") /\ ~AtEof(k, "up2")
    BY <2>1, <2>2 DEF Moves, ServerMoves
  <2>4. k.q["up2"] \in Nat
    BY ConnNumbers
  <2>5. QED
    BY <2>1, <2>3, <2>4 DEF CanRead, AtEof
<1>5. CASE k.px = "copy"
  <2>1. k.rst = {} /\ k.done # {"up", "down"}
    BY <1>5 DEF Moves, ProxyMoves
  <2>2. /\ "up" \notin k.done => ~(CanRead(k, "up1") /\ CanWrite(k, "up2")) /\ ~AtEof(k, "up1")
        /\ "down" \notin k.done => ~(CanRead(k, "down2") /\ CanWrite(k, "down1")) /\ ~AtEof(k, "down2")
        /\ k.srv = "copy" => ~(CanRead(k, "up2") /\ CanWrite(k, "down2")) /\ ~AtEof(k, "up2")
    BY <1>5, <2>1 DEF Moves, ServerMoves, ProxyMoves, CopyMoves
  <2>3. CanWrite(k, "down1") /\ "up1" \in k.fin
    BY <2>1 DEF CanWrite, Wired
  <2>4. "down" \notin k.done
    <3>1. SUFFICES ASSUME "down" \in k.done PROVE FALSE
      OBVIOUS
    <3>2. "up2" \in k.gone /\ "up" \notin k.done
      BY <1>2, <2>1, <3>1 DEF Wired
    <3>3. CanWrite(k, "up2")
      BY <2>1, <3>2 DEF CanWrite
    <3>4. QED
      BY <1>1, <2>1, <2>2, <2>3, <3>2, <3>3, Empty
  <2>5. CanWrite(k, "down2") /\ "down2" \notin k.fin
    BY <1>1, <2>1, <2>2, <2>3, <2>4, Empty
  <2>6. k.srv = "copy"
    BY <1>3, <2>5 DEF Wired
  <2>7. CanWrite(k, "up2") /\ "up2" \notin k.fin
    BY <1>1, <2>1, <2>2, <2>5, <2>6, Empty
  <2>8. "up" \notin k.done
    BY <2>7 DEF Wired
  <2>9. QED
    BY <1>1, <2>1, <2>2, <2>3, <2>7, <2>8, Empty
<1>6. QED
  BY <1>2, <1>4, <1>5

LEMMA NoStall ==
    ASSUME OwnLinesFit, TcpInv, WiredInv, WaitInv, LogTypes
    PROVE  NeverStalls
<1> SUFFICES ASSUME ~Broken, NEW c \in Conns
             PROVE  \/ Settled(conn[c], Line(c))
                    \/ Moves(conn[c], Line(c), c \in OwnConns)
                    \/ Waiting(c) /\ (proxy[1] = "connect" \/ (proxy = <<"accept">> /\ backlog # <<>>))
                    \/ conn[c].srv = "log" /\ LogGoesOn
  BY DEF NeverStalls
<1>1. PICK k \in ConnType, line \in Nat : k = conn[c] /\ line = Line(c)
  BY TcpAssumption DEF TcpInv, AcceptInv
<1>2. (c \in OwnConns) \in BOOLEAN
  OBVIOUS
<1>3. PICK own \in BOOLEAN : own = (c \in OwnConns)
  BY <1>2, Zenon
<1>4. own => line <= 4 * PipeCap
  <2>1. own => c \in OwnConns
    BY <1>3, Zenon
  <2>2. QED
    BY <1>1, <2>1 DEF OwnLinesFit
<1>5. Wired(k) /\ (k.client = "open" => Intact(k, line))
  BY <1>1 DEF WiredInv, TcpInv, IntactInv
<1>6. LogGoesOn
  BY LogAssumption DEF LogTypes, LogGoesOn
<1>7. CASE k.client = "off" \/ k.srv = "log"
  BY <1>1, <1>6, <1>7 DEF Settled
<1>8. CASE k.client # "off" /\ k.px = "none"
  <2>1. Waiting(c)
    BY <1>1, <1>8 DEF WaitInv
  <2>2. CASE proxy = <<"connect", c>>
    BY <2>1, <2>2
  <2>3. CASE proxy # <<"connect", c>>
    <3>1. PICK i \in DOMAIN backlog : backlog[i] = c
      BY <2>1, <2>3 DEF Waiting
    <3>2. backlog # <<>>
      <4>1. DOMAIN <<>> = {}
        OBVIOUS
      <4>2. QED
        BY <3>1, <4>1
    <3>3. proxy = <<"accept">> \/ proxy[1] = "connect"
      BY DEF TcpInv, AcceptInv, Broken
    <3>4. QED
      BY <2>1, <3>2, <3>3
  <2>4. QED
    BY <2>2, <2>3
<1>9. CASE k.client = "open" /\ k.px # "none" /\ k.srv # "log"
  <2>1. k.rd = line \/ Moves(k, line, own)
    BY <1>4, <1>5, <1>9, OpenMoves
  <2>2. QED
    BY <1>1, <1>3, <1>9, <2>1, Zenon DEF Settled
<1>10. CASE k.client = "gone" /\ k.px # "none" /\ k.srv # "log"
  <2>1. (k.px = "done" /\ k.srv = "closed") \/ Moves(k, line, own)
    BY <1>5, <1>10, GoneMoves
  <2>2. QED
    BY <1>1, <1>3, <1>10, <2>1, Zenon DEF Settled
<1>11. QED
  BY <1>7, <1>8, <1>9, <1>10, ConnNumbers

\* No connection comes to a halt with all of its client, the proxy's task and
\* the server's task waiting for each other, before the client has its line
\* or, after it has left, before both tasks have ended: for any clients,
\* lines, pipes and log channel, provided that the line of echoserver's own
\* client, which reads only after it has written all of it, fits the pipes
\* (echoserver/main.rs:73, 142-149, proxy/main.rs:35-38).
THEOREM CircuitNeverStalls ==
    ASSUME OwnLinesFit
    PROVE  Spec => []NeverStalls
<1>1. Init => EchoInv /\ WiredInv /\ WaitInv
  BY EchoInitInv, WiredInit
<1>2. EchoInv /\ WiredInv /\ WaitInv /\ [Next]_vars => EchoInv' /\ WiredInv' /\ WaitInv'
  BY EchoKeeps, WiredKeeps DEF EchoInv
<1>3. EchoInv /\ WiredInv /\ WaitInv => NeverStalls
  BY NoStall DEF EchoInv
<1>4. QED
  BY <1>1, <1>2, <1>3, PTL DEF Spec
=============================================================================
