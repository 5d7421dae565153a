-------------------------- MODULE FuncProbeProofs --------------------------
(***************************************************************************)
(* funcprobe's ring for any number of tasks, records, firings and any      *)
(* depth of stacks: a record that main may read is whole, and what main    *)
(* prints is what EventQueue promises.                                     *)
(***************************************************************************)
EXTENDS FuncProbe, SequenceTheorems, TLAPS

-----------------------------------------------------------------------------
(***************************************************************************)
(* The inductive invariant                                                 *)
(***************************************************************************)
Caps    == [id : Nat, kstack_sz : Sizes \cup {0}, ustack_sz : Sizes \cup {0}]
Frames  == [1 .. Depth -> Nat]
Records == [busy : BOOLEAN, id : Nat, kstack_sz : Int, ustack_sz : Int,
            kstack : Frames, ustack : Frames]

\* The memory of the i-th record between consumer and producers
Place(i) == (cons + i - 1) % Slots

Holds(r, c) ==
    /\ r.id = c.id
    /\ r.kstack_sz = c.kstack_sz /\ r.kstack = Stack(c.kstack_sz, c.id)
    /\ r.ustack_sz = c.ustack_sz /\ r.ustack = Stack(c.ustack_sz, c.id)

\* What a record holds of c when the next step of get_stack is the n-th
Partly(r, c, n) ==
    /\ r.busy
    /\ n > 1 => r.id = c.id
    /\ n > 2 => r.kstack_sz = c.kstack_sz /\ r.kstack = Stack(c.kstack_sz, c.id)
    /\ n > 3 => r.ustack_sz = c.ustack_sz /\ r.ustack = Stack(c.ustack_sz, c.id)

Fills(t, i) == stage[t] # 0 /\ slot[t] = Place(i) /\ capture[t] = pending[i]

ProbeTypes ==
    /\ main \in {"load", "entry", "return", "polling", "handler", "failed", "interrupted"}
    /\ stage \in [Tasks -> 0 .. 4]
    /\ slot \in [Tasks -> 0 .. Slots - 1]
    /\ capture \in [Tasks -> Caps]
    /\ ring \in [0 .. Slots - 1 -> Records]
    /\ fired \in Nat /\ prod \in Nat /\ cons \in Nat
    /\ pending \in Seq(Caps)

QueueInv == Len(pending) = prod - cons /\ prod - cons <= Slots

\* A record is being filled by a task, or whole
CellInv ==
    \A i \in 1 .. Len(pending) :
        IF ring[Place(i)].busy
        THEN \E t \in Tasks : Fills(t, i)
        ELSE Holds(ring[Place(i)], pending[i])

\* A task that fills a record has one to fill, and has filled it so far
TaskInv ==
    \A t \in Tasks : stage[t] # 0 =>
        /\ \E i \in 1 .. Len(pending) : Fills(t, i)
        /\ Partly(ring[slot[t]], capture[t], stage[t])

\* No two tasks fill the same record
AloneInv ==
    \A t, u \in Tasks : stage[t] # 0 /\ stage[u] # 0 /\ slot[t] = slot[u] => t = u

\* Half-way through a record main has printed its first half
ScreenInv ==
    main = "handler" =>
        /\ 1 <= Len(pending) /\ ~Record.busy /\ Shows(Record)
        /\ screen = <<[id |-> pending[1].id, kstack |-> EventOf(pending[1]).kstack]>>

IInv == ProbeTypes /\ QueueInv /\ CellInv /\ TaskInv /\ AloneInv /\ ScreenInv

-----------------------------------------------------------------------------
(***************************************************************************)
(* Operators                                                               *)
(***************************************************************************)
LEMMA SlotsPos == Slots \in Nat /\ Slots > 0 /\ Slots - 1 \in Nat
  BY RingAssumption

\* Quotient and remainder, named so that the arithmetic stays linear.
LEMMA DivMod ==
    ASSUME NEW a \in Nat, NEW s \in Nat, s > 0,
           NEW q \in Int, NEW r \in Int, q = a \div s, r = a % s
    PROVE  a = s * q + r
  BY SMT

LEMMA ModRange == \A a \in Nat : a % Slots \in 0 .. Slots - 1
  BY SlotsPos

\* Positions less than a round apart are different memory.
LEMMA ModDistinct ==
    ASSUME NEW a \in Nat, NEW b \in Nat, a < b, b - a < Slots
    PROVE  a % Slots # b % Slots
<1> SUFFICES ASSUME a % Slots = b % Slots PROVE FALSE
  OBVIOUS
<1> DEFINE p == a \div Slots
           q == b \div Slots
<1>1. p \in Int /\ q \in Int
  BY SlotsPos
<1>2. a % Slots \in Int /\ b % Slots \in Int
  BY SlotsPos
<1>3. a = Slots * p + (a % Slots) /\ b = Slots * q + (b % Slots)
  BY <1>1, <1>2, SlotsPos, DivMod
<1> HIDE DEF p, q
<1>4. b - a = Slots * (q - p)
  BY <1>1, <1>2, <1>3, SlotsPos
<1>5. CASE q - p <= 0
  <2>1. Slots * (q - p) <= 0
    BY <1>1, <1>5, SlotsPos
  <2>2. QED
    BY <1>4, <2>1
<1>6. CASE q - p >= 1
  <2>1. Slots * (q - p) >= Slots
    BY <1>1, <1>6, SlotsPos
  <2>2. QED
    BY <1>4, <2>1, SlotsPos
<1>7. QED
  BY <1>1, <1>5, <1>6

\* The records between consumer and producers do not share memory.
LEMMA PlaceDistinct ==
    ASSUME NEW c \in Nat, NEW i \in Nat, NEW j \in Nat,
           1 <= i, 1 <= j, i <= Slots, j <= Slots, i # j
    PROVE  (c + i - 1) % Slots # (c + j - 1) % Slots
<1>1. c + i - 1 \in Nat /\ c + j - 1 \in Nat
  OBVIOUS
<1>2. CASE i < j
  <2>1. c + i - 1 < c + j - 1 /\ (c + j - 1) - (c + i - 1) < Slots
    BY <1>2, SlotsPos
  <2>2. QED
    BY <1>1, <2>1, ModDistinct
<1>3. CASE j < i
  <2>1. c + j - 1 < c + i - 1 /\ (c + i - 1) - (c + j - 1) < Slots
    BY <1>3, SlotsPos
  <2>2. QED
    BY <1>1, <2>1, ModDistinct
<1>4. QED
  BY <1>2, <1>3

\* get_stack's four steps.
LEMMA StepsFacts ==
    /\ Len(Steps) = 4
    /\ Steps[1] = "head" /\ Steps[2] = "kstack" /\ Steps[3] = "ustack" /\ Steps[4] = "submit"
  BY DEF Steps

\* A stack fits the buffer, and a size is positive when it has frames.
LEMMA FrameFacts ==
    ASSUME NEW n \in Sizes \cup {0}
    PROVE  /\ n \in Int /\ FrameCount(n) \in 0 .. Depth
           /\ n > 0 <=> FrameCount(n) > 0
<1>1. n \in Int /\ (n > 0 => n % 8 = 0 /\ n \div 8 <= Depth) /\ Depth \in Nat
  BY RingAssumption
<1>2. CASE n > 0
  <2>1. n \div 8 \in Nat
    BY <1>1, <1>2
  <2>2. n \div 8 > 0
    BY <1>1, <1>2
  <2>3. QED
    BY <1>1, <1>2, <2>1, <2>2 DEF FrameCount
<1>3. CASE ~(n > 0)
  BY <1>1, <1>3 DEF FrameCount
<1>4. QED
  BY <1>2, <1>3

LEMMA StackType ==
    ASSUME NEW n, NEW id \in Nat
    PROVE  Stack(n, id) \in Frames
  BY DEF Stack, Frames

\* The frames that are shown of a stack are the capture's own.
LEMMA StackShown ==
    ASSUME NEW n \in Sizes \cup {0}, NEW id \in Nat
    PROVE  SubSeq(Stack(n, id), 1, FrameCount(n)) = [i \in 1 .. FrameCount(n) |-> id]
<1> DEFINE m == FrameCount(n)
           s == Stack(n, id)
           f == [i \in 1 .. m |-> id]
<1>1. m \in 0 .. Depth /\ Depth \in Nat
  BY FrameFacts, RingAssumption
<1>2. s \in [1 .. Depth -> Nat] /\ \A i \in 1 .. m : s[i] = id
  BY <1>1, StackType DEF Frames, Stack
<1>3. s \in Seq(Nat) /\ Len(s) = Depth
  BY <1>1, <1>2, SMT
<1> HIDE DEF m, s
<1>4. SubSeq(s, 1, m) = [i \in 1 .. m |-> s[i]]
  BY <1>1, <1>3
<1>5. QED
  BY <1>2, <1>4 DEF m, s

LEMMA CapFields ==
    ASSUME NEW c \in Caps
    PROVE  /\ c.id \in Nat /\ c.kstack_sz \in Sizes \cup {0} /\ c.ustack_sz \in Sizes \cup {0}
           /\ c.kstack_sz \in Int /\ c.ustack_sz \in Int
           /\ Stack(c.kstack_sz, c.id) \in Frames /\ Stack(c.ustack_sz, c.id) \in Frames
<1>1. c.id \in Nat /\ c.kstack_sz \in Sizes \cup {0} /\ c.ustack_sz \in Sizes \cup {0}
  BY DEF Caps
<1>2. QED
  BY <1>1, FrameFacts, StackType

-----------------------------------------------------------------------------
(***************************************************************************)
(* Places                                                                  *)
(***************************************************************************)
\* The queue's records are somewhere in the ring, each at a place of its own,
\* and the one main looks at is the first.
LEMMA Places ==
    ASSUME IInv
    PROVE  /\ Len(pending) \in Nat
           /\ \A i \in 1 .. Len(pending) : Place(i) \in 0 .. Slots - 1
           /\ \A i, j \in 1 .. Len(pending) : i # j => Place(i) # Place(j)
           /\ Record = ring[Place(1)]
           /\ \A i \in 1 .. Len(pending) : pending[i] \in Caps
<1>1. Len(pending) \in Nat /\ Len(pending) <= Slots /\ cons \in Nat
  BY LenProperties DEF IInv, ProbeTypes, QueueInv
<1>2. ASSUME NEW i \in 1 .. Len(pending) PROVE Place(i) \in 0 .. Slots - 1
  <2>1. cons + i - 1 \in Nat
    BY <1>1
  <2>2. QED
    BY <2>1, ModRange, Zenon DEF Place
<1>3. ASSUME NEW i \in 1 .. Len(pending), NEW j \in 1 .. Len(pending), i # j
      PROVE  Place(i) # Place(j)
  <2>1. i \in Nat /\ j \in Nat /\ 1 <= i /\ 1 <= j /\ i <= Slots /\ j <= Slots
    BY <1>1, SlotsPos
  <2>2. QED
    BY <1>1, <1>3, <2>1, PlaceDistinct, Zenon DEF Place
<1>4. cons + 1 - 1 = cons
  BY <1>1
<1>5. Record = ring[Place(1)]
  BY <1>4, Zenon DEF Record, Place
<1>6. \A i \in 1 .. Len(pending) : pending[i] \in Caps
  BY ElementOfSeq DEF IInv, ProbeTypes
<1>7. QED
  BY <1>1, <1>2, <1>3, <1>5, <1>6

\* The record a producer reserves is none of those in the queue.
LEMMA NewPlace ==
    ASSUME IInv, prod - cons < Slots
    PROVE  /\ prod % Slots \in 0 .. Slots - 1
           /\ prod % Slots = Place(Len(pending) + 1)
           /\ \A i \in 1 .. Len(pending) : Place(i) # prod % Slots
<1>1. /\ Len(pending) \in Nat /\ Len(pending) = prod - cons /\ cons \in Nat /\ prod \in Nat
      /\ cons + (Len(pending) + 1) - 1 = prod
  BY LenProperties DEF IInv, ProbeTypes, QueueInv
<1>2. prod % Slots = Place(Len(pending) + 1)
  BY <1>1, Zenon DEF Place
<1>3. ASSUME NEW i \in 1 .. Len(pending) PROVE Place(i) # Place(Len(pending) + 1)
  <2> DEFINE j == Len(pending) + 1
  <2>1. /\ i \in Nat /\ j \in Nat /\ 1 <= i /\ 1 <= j /\ i <= Slots /\ j <= Slots /\ i # j
    BY <1>1, SlotsPos
  <2> HIDE DEF j
  <2>2. Place(i) # Place(j)
    BY <1>1, <2>1, PlaceDistinct, Zenon DEF Place
  <2>3. QED
    BY <2>2 DEF j
<1>4. QED
  BY <1>1, <1>2, <1>3, ModRange

-----------------------------------------------------------------------------
(***************************************************************************)
(* Every step keeps the invariant                                          *)
(***************************************************************************)
LEMMA InitInv == Init => IInv
<1> SUFFICES ASSUME Init PROVE IInv
  OBVIOUS
<1>1. Stack(0, 0) \in Frames
  BY StackType
<1>2. stacktrace_event \in Records
  BY <1>1 DEF stacktrace_event, Records
<1>3. Nothing \in Caps
  BY DEF Nothing, Caps
<1>4. 0 \in 0 .. Slots - 1
  BY SlotsPos
<1>5. pending \in Seq(Caps) /\ Len(pending) = 0
  BY DEF Init
<1>6. ProbeTypes
  BY <1>2, <1>3, <1>4, <1>5 DEF Init, ProbeTypes
<1>7. QueueInv
  BY <1>5, SlotsPos DEF Init, QueueInv
<1>8. CellInv /\ TaskInv /\ AloneInv /\ ScreenInv
  BY <1>5 DEF Init, CellInv, TaskInv, AloneInv, ScreenInv
<1>9. QED
  BY <1>6, <1>7, <1>8 DEF IInv

\* Steps that leave the ring and the tasks alone.
LEMMA FrameInv ==
    ASSUME IInv, ScreenInv', fired' \in Nat,
           main' \in {"load", "entry", "return", "polling", "handler", "failed", "interrupted"},
           UNCHANGED <<stage, slot, capture, ring, prod, cons, pending>>
    PROVE  IInv'
<1>1. ProbeTypes' /\ QueueInv'
  BY DEF IInv, ProbeTypes, QueueInv
<1>2. CellInv' /\ TaskInv' /\ AloneInv'
  BY DEF IInv, CellInv, TaskInv, AloneInv, Fills, Place
<1>3. QED
  BY <1>1, <1>2 DEF IInv

\* get_stack reserves a record.
LEMMA ReserveInv ==
    ASSUME IInv, NEW t \in Tasks, stage[t] = 0, prod - cons < Slots,
           NEW c \in Captures(fired + 1),
           fired' = fired + 1,
           capture' = [capture EXCEPT ![t] = c],
           pending' = Append(pending, c),
           slot' = [slot EXCEPT ![t] = prod % Slots],
           ring' = [ring EXCEPT ![prod % Slots].busy = TRUE],
           prod' = prod + 1,
           stage' = [stage EXCEPT ![t] = 1],
           UNCHANGED <<main, cons, screen>>
    PROVE  IInv'
<1>0. PICK n \in Nat, k \in 0 .. Slots - 1 : n = Len(pending) /\ k = prod % Slots
  BY Places, NewPlace
<1>1. /\ n = prod - cons /\ k = Place(n + 1)
      /\ \A i \in 1 .. n : Place(i) # k /\ Place(i) \in 0 .. Slots - 1
  BY <1>0, Places, NewPlace DEF IInv, QueueInv
<1>2. c \in Caps
  BY DEF IInv, ProbeTypes, Captures, Caps
<1>3. /\ pending' \in Seq(Caps) /\ Len(pending') = n + 1
      /\ \A i \in 1 .. n : pending'[i] = pending[i]
      /\ pending'[n + 1] = c
  BY <1>0, <1>2, AppendProperties DEF IInv, ProbeTypes
<1>4. \A i : Place(i)' = Place(i)
  BY DEF Place
<1>5. PICK r \in Records : r = [ring[k] EXCEPT !.busy = TRUE] /\ r.busy
  <2>1. ring[k] \in Records
    BY <1>0 DEF IInv, ProbeTypes
  <2>2. [ring[k] EXCEPT !.busy = TRUE] \in Records /\ [ring[k] EXCEPT !.busy = TRUE].busy
    BY <2>1 DEF Records
  <2>3. QED
    BY <2>2
<1>6. /\ ring' = [ring EXCEPT ![k] = r] /\ ring'[k] = r
      /\ \A j \in 0 .. Slots - 1 : j # k => ring'[j] = ring[j]
  BY <1>0, <1>5 DEF IInv, ProbeTypes
<1>7. ProbeTypes'
  BY <1>0, <1>1, <1>2, <1>3, <1>5, <1>6 DEF IInv, ProbeTypes
<1>8. QueueInv'
  BY <1>0, <1>1, <1>3, SlotsPos DEF IInv, ProbeTypes, QueueInv
<1>9. /\ Fills(t, n + 1)'
      /\ \A u \in Tasks \ {t} : stage'[u] = stage[u] /\ slot'[u] = slot[u] /\ capture'[u] = capture[u]
      /\ stage'[t] = 1 /\ slot'[t] = k /\ capture'[t] = c
  <2>1. /\ \A u \in Tasks \ {t} : stage'[u] = stage[u] /\ slot'[u] = slot[u] /\ capture'[u] = capture[u]
        /\ stage'[t] = 1 /\ slot'[t] = k /\ capture'[t] = c
    BY <1>0 DEF IInv, ProbeTypes
  <2>2. QED
    BY <1>1, <1>3, <1>4, <2>1 DEF Fills
<1>10. ASSUME NEW u \in Tasks, stage[u] # 0, NEW i \in 1 .. n, Fills(u, i)
       PROVE  u # t /\ Fills(u, i)'
  BY <1>3, <1>4, <1>9, <1>10 DEF Fills
<1>11. CellInv'
  <2> SUFFICES ASSUME NEW i \in 1 .. n + 1
               PROVE  IF ring'[Place(i)'].busy
                      THEN \E u \in Tasks : Fills(u, i)'
                      ELSE Holds(ring'[Place(i)'], pending'[i])
    BY <1>3 DEF CellInv, Holds, Stack
  <2>1. CASE i = n + 1
    <3>1. Place(i)' = k /\ ring'[k].busy /\ Fills(t, i)'
      BY <1>1, <1>4, <1>5, <1>6, <1>9, <2>1, Zenon
    <3>2. QED
      BY <3>1, Zenon
  <2>2. CASE i \in 1 .. n
    <3>1. ring'[Place(i)'] = ring[Place(i)] /\ pending'[i] = pending[i]
      BY <1>1, <1>3, <1>4, <1>6, <2>2
    <3>2. IF ring[Place(i)].busy THEN \E u \in Tasks : Fills(u, i)
                                ELSE Holds(ring[Place(i)], pending[i])
      BY <1>0, <2>2 DEF IInv, CellInv
    <3>3. QED
      BY <1>10, <2>2, <3>1, <3>2 DEF Fills
  <2>3. i = n + 1 \/ i \in 1 .. n
    BY <1>0
  <2>4. QED
    BY <2>1, <2>2, <2>3, Zenon
<1>12. TaskInv'
  <2> SUFFICES ASSUME NEW u \in Tasks, stage'[u] # 0
               PROVE  /\ \E i \in 1 .. n + 1 : Fills(u, i)'
                      /\ Partly(ring'[slot'[u]], capture'[u], stage'[u])
    BY <1>3 DEF TaskInv, Partly, Stack
  <2>1. CASE u = t
    <3>1. Partly(ring'[slot'[t]], capture'[t], stage'[t])
      <4>1. Partly(r, c, 1)
        BY <1>5 DEF Partly
      <4>2. QED
        BY <1>6, <1>9, <4>1, Zenon
    <3>2. QED
      BY <1>0, <1>9, <2>1, <3>1
  <2>2. CASE u # t
    <3>1. stage[u] # 0 /\ stage'[u] = stage[u] /\ slot'[u] = slot[u] /\ capture'[u] = capture[u]
      BY <1>9, <2>2
    <3>2. PICK i \in 1 .. n : Fills(u, i)
      BY <1>0, <3>1 DEF IInv, TaskInv
    <3>3. ring'[slot[u]] = ring[slot[u]]
      BY <1>1, <1>6, <3>2 DEF Fills
    <3>4. Partly(ring[slot[u]], capture[u], stage[u])
      BY <3>1 DEF IInv, TaskInv
    <3>5. Fills(u, i)' /\ i \in 1 .. n + 1
      BY <1>1, <1>10, <3>1, <3>2
    <3>6. QED
      BY <3>1, <3>3, <3>4, <3>5
  <2>3. QED
    BY <2>1, <2>2
<1>13. AloneInv'
  <2>1. \A u \in Tasks \ {t} : stage[u] # 0 => slot[u] # k
    BY <1>0, <1>1 DEF IInv, TaskInv, Fills
  <2>2. QED
    BY <1>9, <2>1 DEF IInv, AloneInv
<1>14. ScreenInv'
  <2> SUFFICES ASSUME main = "handler" PROVE ScreenInv'
    BY DEF ScreenInv
  <2>1. 1 \in 1 .. n /\ Record = ring[Place(1)]
    BY <1>0, Places DEF IInv, ScreenInv
  <2>2. Record' = ring'[cons % Slots] /\ Record = ring[cons % Slots]
    BY DEF Record
  <2>3. cons % Slots = Place(1)
    <3>1. cons + 1 - 1 = cons
      BY DEF IInv, ProbeTypes
    <3>2. QED
      BY <3>1, Zenon DEF Place
  <2>4. Record' = Record /\ pending'[1] = pending[1] /\ 1 <= Len(pending')
    BY <1>1, <1>3, <1>6, <2>1, <2>2, <2>3
  <2>5. QED
    BY <2>4 DEF IInv, ScreenInv, EventOf, Shows
<1>15. QED
  BY <1>7, <1>8, <1>11, <1>12, <1>13, <1>14 DEF IInv

\* The task that fills a record is the only one whose place it is.
LEMMA OwnPlace ==
    ASSUME IInv, NEW t \in Tasks, stage[t] # 0
    PROVE  /\ slot[t] \in 0 .. Slots - 1 /\ capture[t] \in Caps /\ ring[slot[t]] \in Records
           /\ Partly(ring[slot[t]], capture[t], stage[t])
           /\ \E i \in 1 .. Len(pending) : /\ Fills(t, i)
                                          /\ \A j \in 1 .. Len(pending) : Place(j) = slot[t] => j = i
<1>1. slot[t] \in 0 .. Slots - 1 /\ capture[t] \in Caps
  BY DEF IInv, ProbeTypes
<1>2. ring[slot[t]] \in Records
  BY <1>1 DEF IInv, ProbeTypes
<1>3. Partly(ring[slot[t]], capture[t], stage[t])
  BY DEF IInv, TaskInv
<1>4. PICK i \in 1 .. Len(pending) : Fills(t, i)
  BY DEF IInv, TaskInv
<1>5. \A j \in 1 .. Len(pending) : Place(j) = slot[t] => j = i
  BY <1>4, Places DEF Fills
<1>6. QED
  BY <1>1, <1>2, <1>3, <1>4, <1>5

\* A task does one of get_stack's steps on its record, the last of which
\* submits it.
LEMMA FillInv ==
    ASSUME IInv, NEW t \in Tasks, stage[t] # 0, NEW r \in Records, NEW s \in 0 .. 4,
           IF s = 0 THEN ~r.busy /\ Holds(r, capture[t]) ELSE Partly(r, capture[t], s),
           ring' = [ring EXCEPT ![slot[t]] = r],
           stage' = [stage EXCEPT ![t] = s],
           slot' = [slot EXCEPT ![t] = IF s = 0 THEN 0 ELSE slot[t]],
           capture' = [capture EXCEPT ![t] = IF s = 0 THEN Nothing ELSE capture[t]],
           UNCHANGED <<main, fired, prod, cons, screen, pending>>
    PROVE  IInv'
<1>1. PICK k \in 0 .. Slots - 1, c \in Caps : k = slot[t] /\ c = capture[t]
  BY OwnPlace
<1>2. PICK i \in 1 .. Len(pending) :
         Fills(t, i) /\ (\A j \in 1 .. Len(pending) : Place(j) = slot[t] => j = i)
  BY OwnPlace
<1>3. /\ ring'[k] = r
      /\ \A j \in 0 .. Slots - 1 : j # k => ring'[j] = ring[j]
      /\ ring' \in [0 .. Slots - 1 -> Records]
  BY <1>1 DEF IInv, ProbeTypes
<1>4. \A u \in Tasks \ {t} : stage'[u] = stage[u] /\ slot'[u] = slot[u] /\ capture'[u] = capture[u]
  BY DEF IInv, ProbeTypes
<1>5. /\ stage'[t] = s
      /\ s # 0 => slot'[t] = k /\ capture'[t] = c
  BY <1>1 DEF IInv, ProbeTypes
<1>6. \A j : Place(j)' = Place(j)
  BY DEF Place
<1>7. \A u \in Tasks \ {t} : stage[u] # 0 => slot[u] # k
  BY <1>1 DEF IInv, AloneInv
<1>8. \A j \in 1 .. Len(pending) : Place(j) \in 0 .. Slots - 1 /\ (Place(j) = k => j = i)
  BY <1>1, <1>2, Places
<1>9. Place(i) = k /\ pending[i] = c
  BY <1>1, <1>2 DEF Fills
<1>10. ProbeTypes'
  <2>1. stage' \in [Tasks -> 0 .. 4]
    BY DEF IInv, ProbeTypes
  <2>2. slot' \in [Tasks -> 0 .. Slots - 1]
    BY <1>1, SlotsPos DEF IInv, ProbeTypes
  <2>3. Nothing \in Caps
    BY DEF Nothing, Caps
  <2>4. capture' \in [Tasks -> Caps]
    BY <1>1, <2>3 DEF IInv, ProbeTypes
  <2>5. QED
    BY <1>3, <2>1, <2>2, <2>4 DEF IInv, ProbeTypes
<1>11. QueueInv'
  BY DEF IInv, QueueInv
<1>12. ASSUME NEW u \in Tasks \ {t}, NEW j \in 1 .. Len(pending), Fills(u, j)
       PROVE  Fills(u, j)'
  BY <1>4, <1>6, <1>12 DEF Fills
<1>13. CellInv'
  <2> SUFFICES ASSUME NEW j \in 1 .. Len(pending)
               PROVE  IF ring'[Place(j)'].busy
                      THEN \E u \in Tasks : Fills(u, j)'
                      ELSE Holds(ring'[Place(j)'], pending'[j])
    BY DEF CellInv, Holds, Stack
  <2>1. CASE Place(j) # k
    <3>1. ring'[Place(j)'] = ring[Place(j)] /\ pending'[j] = pending[j]
      BY <1>3, <1>6, <1>8, <2>1
    <3>2. IF ring[Place(j)].busy THEN \E u \in Tasks : Fills(u, j)
                                ELSE Holds(ring[Place(j)], pending[j])
      BY DEF IInv, CellInv
    <3>3. ASSUME NEW u \in Tasks, Fills(u, j) PROVE Fills(u, j)'
      BY <1>1, <1>12, <2>1, <3>3 DEF Fills
    <3>4. QED
      BY <3>1, <3>2, <3>3
  <2>2. CASE Place(j) = k
    <3>1. j = i /\ ring'[Place(j)'] = r /\ pending'[j] = c
      BY <1>3, <1>6, <1>8, <1>9, <2>2
    <3>2. CASE s = 0
      BY <1>1, <3>1, <3>2
    <3>3. CASE s # 0
      <4>1. r.busy
        BY <3>3 DEF Partly
      <4>2. Fills(t, j)'
        BY <1>5, <1>6, <2>2, <3>1, <3>3 DEF Fills
      <4>3. QED
        BY <3>1, <4>1, <4>2, Zenon
    <3>4. QED
      BY <3>2, <3>3
  <2>3. QED
    BY <2>1, <2>2
<1>14. TaskInv'
  <2> SUFFICES ASSUME NEW u \in Tasks, stage'[u] # 0
               PROVE  /\ \E j \in 1 .. Len(pending) : Fills(u, j)'
                      /\ Partly(ring'[slot'[u]], capture'[u], stage'[u])
    BY DEF TaskInv, Partly, Stack
  <2>1. CASE u = t
    <3>1. s # 0
      BY <1>5, <2>1
    <3>2. Fills(t, i)'
      BY <1>5, <1>6, <1>9, <3>1 DEF Fills
    <3>3. Partly(ring'[slot'[t]], capture'[t], stage'[t])
      BY <1>1, <1>3, <1>5, <3>1, Zenon
    <3>4. QED
      BY <2>1, <3>2, <3>3, Zenon
  <2>2. CASE u # t
    <3>1. stage[u] # 0 /\ stage'[u] = stage[u] /\ slot'[u] = slot[u] /\ capture'[u] = capture[u]
      BY <1>4, <2>2
    <3>2. PICK j \in 1 .. Len(pending) : Fills(u, j)
      BY <3>1 DEF IInv, TaskInv
    <3>3. ring'[slot[u]] = ring[slot[u]]
      BY <1>3, <1>7, <2>2, <3>1 DEF IInv, ProbeTypes
    <3>4. Partly(ring[slot[u]], capture[u], stage[u])
      BY <3>1 DEF IInv, TaskInv
    <3>5. Fills(u, j)'
      BY <1>12, <2>2, <3>2
    <3>6. QED
      BY <3>1, <3>3, <3>4, <3>5, Zenon
  <2>3. QED
    BY <2>1, <2>2
<1>15. AloneInv'
  BY <1>1, <1>4, <1>5 DEF IInv, AloneInv
<1>16. ScreenInv'
  <2> SUFFICES ASSUME main = "handler" PROVE ScreenInv'
    BY DEF ScreenInv
  <2>1. 1 \in 1 .. Len(pending) /\ ~Record.busy /\ Record = ring[Place(1)]
    BY Places DEF IInv, ScreenInv
  <2>2. ring[k].busy
    BY <1>1, OwnPlace DEF Partly
  <2>3. Place(1) # k /\ Place(1) \in 0 .. Slots - 1
    BY <1>8, <2>1, <2>2
  <2>4. Record' = ring'[cons % Slots] /\ Record = ring[cons % Slots]
    BY DEF Record
  <2>5. cons % Slots = Place(1)
    <3>1. cons + 1 - 1 = cons
      BY DEF IInv, ProbeTypes
    <3>2. QED
      BY <3>1, Zenon DEF Place
  <2>6. Record' = Record
    BY <1>3, <2>3, <2>4, <2>5
  <2>7. QED
    BY <2>6 DEF IInv, ScreenInv, EventOf, Shows
<1>17. QED
  BY <1>10, <1>11, <1>13, <1>14, <1>15, <1>16 DEF IInv

\* What each of get_stack's steps makes of a record.
LEMMA StoreHead ==
    ASSUME NEW b \in Records, NEW c \in Caps, Partly(b, c, 1), NEW e, e = [b EXCEPT !.id = c.id]
    PROVE  e \in Records /\ Partly(e, c, 2)
<1>1. e \in Records /\ e.id = c.id /\ e.busy = b.busy
  BY CapFields DEF Records
<1>2. QED
  BY <1>1 DEF Partly

LEMMA StoreKernel ==
    ASSUME NEW b \in Records, NEW c \in Caps, Partly(b, c, 2), NEW e,
           e = [b EXCEPT !.kstack = Stack(c.kstack_sz, c.id), !.kstack_sz = c.kstack_sz]
    PROVE  e \in Records /\ Partly(e, c, 3)
<1>1. PICK f \in Frames : f = Stack(c.kstack_sz, c.id)
  BY CapFields
<1>2. e = [b EXCEPT !.kstack = f, !.kstack_sz = c.kstack_sz]
  BY <1>1
<1>3. /\ e \in Records /\ e.id = b.id /\ e.busy = b.busy
      /\ e.kstack = f /\ e.kstack_sz = c.kstack_sz
  BY <1>2, CapFields DEF Records
<1>4. QED
  BY <1>1, <1>3 DEF Partly

LEMMA StoreUser ==
    ASSUME NEW b \in Records, NEW c \in Caps, Partly(b, c, 3), NEW e,
           e = [b EXCEPT !.ustack = Stack(c.ustack_sz, c.id), !.ustack_sz = c.ustack_sz]
    PROVE  e \in Records /\ Partly(e, c, 4)
<1>1. PICK f \in Frames : f = Stack(c.ustack_sz, c.id)
  BY CapFields
<1>2. e = [b EXCEPT !.ustack = f, !.ustack_sz = c.ustack_sz]
  BY <1>1
<1>3. /\ e \in Records /\ e.id = b.id /\ e.busy = b.busy
      /\ e.kstack = b.kstack /\ e.kstack_sz = b.kstack_sz
      /\ e.ustack = f /\ e.ustack_sz = c.ustack_sz
  BY <1>2, CapFields DEF Records
<1>4. QED
  BY <1>1, <1>3 DEF Partly

LEMMA StoreSubmit ==
    ASSUME NEW b \in Records, NEW c \in Caps, Partly(b, c, 4), NEW e, e = [b EXCEPT !.busy = FALSE]
    PROVE  e \in Records /\ ~e.busy /\ Holds(e, c)
<1>1. /\ e \in Records /\ ~e.busy /\ e.id = b.id
      /\ e.kstack = b.kstack /\ e.kstack_sz = b.kstack_sz
      /\ e.ustack = b.ustack /\ e.ustack_sz = b.ustack_sz
  BY DEF Records
<1>2. QED
  BY <1>1 DEF Partly, Holds

LEMMA StoreInv ==
    ASSUME IInv, NEW t \in Tasks, Store(t)
    PROVE  IInv'
<1>1. stage[t] # 0 /\ stage[t] \in 0 .. 4
  BY DEF Store, IInv, ProbeTypes
<1>2. PICK n \in 1 .. 4, c \in Caps, b \in Records :
         n = stage[t] /\ c = capture[t] /\ b = ring[slot[t]] /\ Partly(b, c, n)
  <2>1. stage[t] \in 1 .. 4
    BY <1>1
  <2>2. QED
    BY <1>1, <2>1, OwnPlace, Zenon
<1>3. /\ c.id \in Nat /\ c.kstack_sz \in Int /\ c.ustack_sz \in Int
      /\ Stack(c.kstack_sz, c.id) \in Frames /\ Stack(c.ustack_sz, c.id) \in Frames
  BY CapFields
<1>4. PICK s \in 0 .. 4 : /\ s = IF n = 4 THEN 0 ELSE n + 1
                         /\ stage' = [stage EXCEPT ![t] = s] /\ stage'[t] = s
  <2>1. stage' = [stage EXCEPT ![t] = (n + 1) % 5] /\ stage'[t] = (n + 1) % 5
    BY <1>2, StepsFacts DEF Store, IInv, ProbeTypes
  <2>2. (n + 1) % 5 = (IF n = 4 THEN 0 ELSE n + 1) /\ (n + 1) % 5 \in 0 .. 4
    BY <1>2
  <2>3. QED
    BY <2>1, <2>2
<1>5. /\ slot' = [slot EXCEPT ![t] = IF s = 0 THEN 0 ELSE slot[t]]
      /\ capture' = [capture EXCEPT ![t] = IF s = 0 THEN Nothing ELSE capture[t]]
      /\ UNCHANGED <<main, fired, prod, cons, screen, pending>>
  BY <1>4 DEF Store, IInv, ProbeTypes
<1>6. PICK r \in Records : /\ IF s = 0 THEN ~r.busy /\ Holds(r, c) ELSE Partly(r, c, s)
                          /\ ring' = [ring EXCEPT ![slot[t]] = r]
  <2> DEFINE Good(r) == /\ r \in Records
                        /\ IF s = 0 THEN ~r.busy /\ Holds(r, c) ELSE Partly(r, c, s)
  <2>1. CASE n = 1
    <3>1. Good([b EXCEPT !.id = c.id])
      BY <1>2, <1>3, <1>4, <2>1, StoreHead DEF Partly
    <3>2. ring' = [ring EXCEPT ![slot[t]] = [b EXCEPT !.id = c.id]]
      BY <1>2, <2>1, StepsFacts DEF Store
    <3>3. QED
      BY <3>1, <3>2
  <2>2. CASE n = 2
    <3> DEFINE e == [b EXCEPT !.kstack = Stack(c.kstack_sz, c.id), !.kstack_sz = c.kstack_sz]
    <3>1. Good(e)
      <4>1. Partly(b, c, 2) /\ s = 3 /\ s # 0
        BY <1>2, <1>4, <2>2
      <4>2. e \in Records /\ Partly(e, c, 3)
        BY <4>1, StoreKernel, Zenon
      <4>3. QED
        BY <4>1, <4>2, Zenon
    <3>2. ring' = [ring EXCEPT ![slot[t]] = e]
      <4>1. Steps[stage[t]] = "kstack"
        BY <1>2, <2>2, StepsFacts, Zenon
      <4>2. ring' = [ring EXCEPT ![slot[t]] =
               [ring[slot[t]] EXCEPT !.kstack = Stack(capture[t].kstack_sz, capture[t].id),
                                     !.kstack_sz = capture[t].kstack_sz]]
        BY <4>1 DEF Store
      <4>3. QED
        BY <1>2, <4>2, Zenon
    <3>3. QED
      BY <3>1, <3>2
  <2>3. CASE n = 3
    <3> DEFINE e == [b EXCEPT !.ustack = Stack(c.ustack_sz, c.id), !.ustack_sz = c.ustack_sz]
    <3>1. Good(e)
      <4>1. Partly(b, c, 3) /\ s = 4 /\ s # 0
        BY <1>2, <1>4, <2>3
      <4>2. e \in Records /\ Partly(e, c, 4)
        BY <4>1, StoreUser, Zenon
      <4>3. QED
        BY <4>1, <4>2, Zenon
    <3>2. ring' = [ring EXCEPT ![slot[t]] = e]
      <4>1. Steps[stage[t]] = "ustack"
        BY <1>2, <2>3, StepsFacts, Zenon
      <4>2. ring' = [ring EXCEPT ![slot[t]] =
               [ring[slot[t]] EXCEPT !.ustack = Stack(capture[t].ustack_sz, capture[t].id),
                                     !.ustack_sz = capture[t].ustack_sz]]
        BY <4>1 DEF Store
      <4>3. QED
        BY <1>2, <4>2, Zenon
    <3>3. QED
      BY <3>1, <3>2
  <2>4. CASE n = 4
    <3> DEFINE e == [b EXCEPT !.busy = FALSE]
    <3>1. Good(e)
      BY <1>2, <1>3, <1>4, <2>4, StoreSubmit
    <3>2. ring' = [ring EXCEPT ![slot[t]] = e]
      BY <1>2, <2>4, StepsFacts DEF Store
    <3>3. QED
      BY <3>1, <3>2
  <2>5. QED
    BY <1>2, <2>1, <2>2, <2>3, <2>4
<1>7. QED
  BY <1>1, <1>2, <1>4, <1>5, <1>6, FillInv

\* main goes on to the next record.
LEMMA ReleaseInv ==
    ASSUME IInv, 1 <= Len(pending), ~Record.busy, Release, UNCHANGED <<taskVars, ring, prod>>
    PROVE  IInv'
<1>1. PICK n \in Nat : n = Len(pending) /\ 1 <= n
  BY Places
<1>2. /\ pending' \in Seq(Caps) /\ Len(pending') = n - 1
      /\ \A i \in 1 .. n - 1 : pending'[i] = pending[i + 1]
  BY <1>1, HeadTailProperties, EmptySeq DEF Release, IInv, ProbeTypes
<1>3. main' = "polling"
  BY DEF Release, HandlerResult
<1>4. cons' = cons + 1 /\ cons \in Nat
  BY DEF Release, IInv, ProbeTypes
<1>5. ASSUME NEW i \in Int PROVE Place(i)' = Place(i + 1)
  <2>1. (cons + 1) + i - 1 = cons + (i + 1) - 1
    BY <1>4
  <2>2. QED
    BY <1>4, <2>1, Zenon DEF Place
<1>6. ASSUME NEW u \in Tasks, NEW i \in 1 .. n - 1, Fills(u, i + 1)
      PROVE  Fills(u, i)'
  <2> i \in Int
    BY <1>1
  <2>1. Place(i)' = Place(i + 1) /\ pending'[i] = pending[i + 1]
    BY <1>2, <1>5, Zenon
  <2>2. stage' = stage /\ slot' = slot /\ capture' = capture
    BY DEF taskVars
  <2>3. stage[u] # 0 /\ slot[u] = Place(i + 1) /\ capture[u] = pending[i + 1]
    BY <1>6 DEF Fills
  <2>4. stage'[u] # 0 /\ slot'[u] = Place(i)' /\ capture'[u] = pending'[i]
    BY <2>1, <2>2, <2>3, Zenon
  <2>5. QED
    BY <2>4 DEF Fills
<1>7. ProbeTypes'
  BY <1>2, <1>3, <1>4 DEF IInv, ProbeTypes, taskVars
<1>8. QueueInv'
  BY <1>1, <1>2, <1>4, SlotsPos DEF IInv, ProbeTypes, QueueInv
<1>9. CellInv'
  <2> SUFFICES ASSUME NEW i \in 1 .. n - 1
               PROVE  IF ring[Place(i)'].busy
                      THEN \E u \in Tasks : Fills(u, i)'
                      ELSE Holds(ring[Place(i)'], pending'[i])
    <3>1. ring' = ring
      OBVIOUS
    <3>2. QED
      BY <1>2, <3>1 DEF CellInv, Holds, Stack
  <2> i \in Int /\ i + 1 \in 1 .. n
    BY <1>1
  <2>1. Place(i)' = Place(i + 1) /\ pending'[i] = pending[i + 1]
    BY <1>2, <1>5, Zenon
  <2>2. IF ring[Place(i + 1)].busy THEN \E u \in Tasks : Fills(u, i + 1)
                                  ELSE Holds(ring[Place(i + 1)], pending[i + 1])
    BY <1>1, <2>1 DEF IInv, CellInv
  <2>3. QED
    BY <1>6, <2>1, <2>2, Zenon
<1>10. TaskInv'
  <2> SUFFICES ASSUME NEW u \in Tasks, stage[u] # 0
               PROVE  /\ \E i \in 1 .. n - 1 : Fills(u, i)'
                      /\ Partly(ring[slot[u]], capture[u], stage[u])
    BY <1>2 DEF TaskInv, Partly, Stack, taskVars
  <2>1. Partly(ring[slot[u]], capture[u], stage[u])
    BY DEF IInv, TaskInv
  <2>2. PICK j \in 1 .. n : Fills(u, j)
    BY <1>1 DEF IInv, TaskInv
  <2>3. ring[Place(j)].busy
    BY <2>1, <2>2 DEF Fills, Partly
  <2>4. j # 1
    BY <2>3, Places
  <2>5. PICK i \in 1 .. n - 1 : j = i + 1
    BY <1>1, <2>4
  <2>6. QED
    BY <1>6, <2>1, <2>2, <2>5, Zenon
<1>11. AloneInv'
  BY DEF IInv, AloneInv, taskVars
<1>12. ScreenInv'
  BY <1>3 DEF ScreenInv
<1>13. QED
  BY <1>7, <1>8, <1>9, <1>10, <1>11, <1>12 DEF IInv

\* What main finds in the record at hand is what its firing found.
LEMMA RecordHolds ==
    ASSUME IInv, cons < prod, ~Record.busy
    PROVE  /\ 1 \in 1 .. Len(pending) /\ 1 <= Len(pending) /\ pending[1] \in Caps
           /\ Holds(Record, pending[1])
<1>1. 1 \in 1 .. Len(pending) /\ 1 <= Len(pending)
  BY Places DEF IInv, QueueInv, ProbeTypes
<1>2. QED
  BY <1>1, Places DEF IInv, CellInv

LEMMA ShowKernelInv == IInv /\ ShowKernel => IInv'
<1> SUFFICES ASSUME IInv, ShowKernel PROVE IInv'
  OBVIOUS
<1>1. cons < prod /\ ~Record.busy /\ main' = "handler"
  BY DEF ShowKernel
<1>2. PICK c \in Caps : c = pending[1] /\ Holds(Record, c) /\ 1 <= Len(pending)
  BY <1>1, RecordHolds
<1>3. c.id \in Nat /\ c.kstack_sz \in Sizes \cup {0}
  BY CapFields
<1>4. SubSeq(Record.kstack, 1, FrameCount(Record.kstack_sz)) = EventOf(c).kstack
  <2>1. SubSeq(Stack(c.kstack_sz, c.id), 1, FrameCount(c.kstack_sz))
           = [i \in 1 .. FrameCount(c.kstack_sz) |-> c.id]
    BY <1>3, StackShown
  <2>2. QED
    BY <1>2, <2>1 DEF Holds, EventOf
<1>5. screen' = <<[id |-> c.id, kstack |-> EventOf(c).kstack]>>
  BY <1>2, <1>4 DEF ShowKernel, Holds
<1>6. ScreenInv'
  BY <1>1, <1>2, <1>5 DEF ScreenInv, ShowKernel, Record, EventOf, Shows
<1>7. fired' \in Nat
  BY DEF ShowKernel, taskVars, IInv, ProbeTypes
<1>8. QED
  BY <1>1, <1>6, <1>7, FrameInv DEF ShowKernel, taskVars

LEMMA ShowUserInv == IInv /\ ShowUser => IInv'
<1> SUFFICES ASSUME IInv, ShowUser PROVE IInv'
  OBVIOUS
<1>1. 1 <= Len(pending) /\ ~Record.busy
  BY DEF ShowUser, IInv, ScreenInv
<1>2. QED
  BY <1>1, ReleaseInv DEF ShowUser

LEMMA SkipInv == IInv /\ Skip => IInv'
<1> SUFFICES ASSUME IInv, Skip PROVE IInv'
  OBVIOUS
<1>1. 1 <= Len(pending) /\ ~Record.busy
  BY RecordHolds DEF Skip
<1>2. QED
  BY <1>1, ReleaseInv DEF Skip

\* A firing gets a record or is dropped.
LEMMA GetStackInv ==
    ASSUME IInv, NEW t \in Tasks, stage[t] = 0, get_stack(t), UNCHANGED <<main, cons, screen>>
    PROVE  IInv'
<1>1. CASE prod - cons < Slots
  <2>1. prod - cons # Slots
    BY <1>1, SlotsPos DEF IInv, ProbeTypes
  <2>2. PICK c \in Captures(fired + 1) :
           capture' = [capture EXCEPT ![t] = c] /\ pending' = Append(pending, c)
    BY <2>1 DEF get_stack
  <2>3. /\ fired' = fired + 1 /\ slot' = [slot EXCEPT ![t] = prod % Slots]
        /\ ring' = [ring EXCEPT ![prod % Slots].busy = TRUE]
        /\ prod' = prod + 1 /\ stage' = [stage EXCEPT ![t] = 1]
    BY <2>1 DEF get_stack
  <2>4. QED
    BY <1>1, <2>2, <2>3, ReserveInv
<1>2. CASE ~(prod - cons < Slots)
  <2>1. UNCHANGED <<capture, pending, slot, ring, prod, stage>> /\ fired' = fired + 1
    BY <1>2 DEF get_stack
  <2>2. ScreenInv'
    BY <2>1 DEF IInv, ScreenInv, Record, EventOf, Shows
  <2>3. fired' \in Nat
    BY <2>1 DEF IInv, ProbeTypes
  <2>4. QED
    BY <2>1, <2>2, <2>3, FrameInv DEF IInv, ProbeTypes
<1>3. QED
  BY <1>1, <1>2

LEMMA NextInv == IInv /\ [Next]_vars => IInv'
<1> SUFFICES ASSUME IInv, [Next]_vars PROVE IInv'
  OBVIOUS
<1>1. ASSUME NEW t \in Tasks, Call(t) PROVE IInv'
  BY <1>1, GetStackInv DEF Call
<1>2. ASSUME NEW t \in Tasks, Return(t) PROVE IInv'
  <2>1. stage[t] = 0 /\ UNCHANGED <<main, cons, screen>>
    BY <1>2 DEF Return
  <2>2. CASE get_stack(t)
    BY <2>1, <2>2, GetStackInv
  <2>3. CASE UNCHANGED <<stage, slot, capture, fired, ring, prod, pending>>
    <3>1. ScreenInv'
      BY <2>1, <2>3 DEF IInv, ScreenInv, Record, EventOf, Shows
    <3>2. QED
      BY <2>1, <2>3, <3>1, FrameInv DEF IInv, ProbeTypes
  <2>4. QED
    BY <1>2, <2>2, <2>3 DEF Return
<1>3. ASSUME NEW t \in Tasks, Store(t) PROVE IInv'
  BY <1>3, StoreInv
<1>4. CASE Attach \/ (\E how \in {"failed", "interrupted"} : End(how))
  <2>1. /\ UNCHANGED <<stage, slot, capture, fired, ring, prod, cons, pending>>
        /\ main' \in {"load", "entry", "return", "polling", "handler", "failed", "interrupted"}
        /\ main' # "handler"
    BY <1>4 DEF Attach, End, taskVars
  <2>2. ScreenInv'
    BY <2>1 DEF ScreenInv
  <2>3. QED
    BY <2>1, <2>2, FrameInv DEF IInv, ProbeTypes
<1>5. CASE ShowKernel \/ ShowUser \/ Skip
  BY <1>5, ShowKernelInv, ShowUserInv, SkipInv
<1>6. CASE UNCHANGED vars
  <2>1. UNCHANGED <<stage, slot, capture, fired, ring, prod, cons, pending, main, screen>>
    BY <1>6 DEF vars, taskVars
  <2>2. ScreenInv'
    BY <2>1 DEF IInv, ScreenInv, Record, EventOf, Shows
  <2>3. QED
    BY <2>1, <2>2, FrameInv DEF IInv, ProbeTypes
<1>7. QED
  BY <1>1, <1>2, <1>3, <1>4, <1>5, <1>6 DEF Next

LEMMA InvHolds == Spec => []IInv
<1>1. QED
  BY InitInv, NextInv, PTL DEF Spec

-----------------------------------------------------------------------------
(***************************************************************************)
(* Theorems                                                                *)
(***************************************************************************)
\* Every record between the consumer and the producers is being filled by the
\* task whose firing it is for, or holds all of that firing, in a ring of any
\* size (funcprobe.bpf.c:20-36).
THEOREM RecordsAreWhole == Spec => []RecordsWhole
<1>1. IInv => RecordsWhole
  <2> SUFFICES ASSUME IInv PROVE RecordsWhole
    OBVIOUS
  <2>1. Len(pending) = prod - cons /\ prod - cons <= Slots
    BY DEF IInv, QueueInv
  <2>2. DOMAIN pending = 1 .. Len(pending)
    BY LenProperties DEF IInv, ProbeTypes
  <2>3. QED
    BY <2>1, <2>2 DEF IInv, CellInv, RecordsWhole, Place, Holds, Fills
<1>2. QED
  BY <1>1, InvHolds, PTL

-----------------------------------------------------------------------------
(***************************************************************************)
(* The ring implements EventQueue                                          *)
(***************************************************************************)
EventsOf(p) == [i \in DOMAIN p |-> EventOf(p[i])]

EventSet == {EventOf(c) : c \in Caps}

LEMMA EventsType ==
    ASSUME NEW p \in Seq(Caps)
    PROVE  /\ EventsOf(p) \in Seq(EventSet) /\ Len(EventsOf(p)) = Len(p)
           /\ \A i \in 1 .. Len(p) : EventsOf(p)[i] = EventOf(p[i])
<1>1. DOMAIN p = 1 .. Len(p) /\ Len(p) \in Nat
  BY LenProperties
<1>2. \A i \in 1 .. Len(p) : EventOf(p[i]) \in EventSet
  BY ElementOfSeq DEF EventSet
<1>3. EventsOf(p) \in [1 .. Len(p) -> EventSet]
  BY <1>1, <1>2, Zenon DEF EventsOf
<1>4. \A i \in 1 .. Len(p) : EventsOf(p)[i] = EventOf(p[i])
  BY <1>1 DEF EventsOf
<1> HIDE DEF EventsOf
<1>5. EventsOf(p) \in Seq(EventSet) /\ Len(EventsOf(p)) = Len(p)
  BY <1>1, <1>3
<1>6. QED
  BY <1>4, <1>5

LEMMA EventsAppend ==
    ASSUME NEW p \in Seq(Caps), NEW c \in Caps
    PROVE  EventsOf(Append(p, c)) = Append(EventsOf(p), EventOf(c))
<1> DEFINE q == Append(p, c)
           a == EventsOf(q)
           b == Append(EventsOf(p), EventOf(c))
<1>1. q \in Seq(Caps) /\ Len(q) = Len(p) + 1 /\ Len(p) \in Nat
      /\ (\A i \in 1 .. Len(p) : q[i] = p[i]) /\ q[Len(p) + 1] = c
  BY AppendProperties, LenProperties
<1>2. EventOf(c) \in EventSet
  BY DEF EventSet
<1> HIDE DEF q
<1>3. a \in Seq(EventSet) /\ Len(a) = Len(p) + 1 /\ \A i \in 1 .. Len(p) + 1 : a[i] = EventOf(q[i])
  BY <1>1, EventsType
<1>4. /\ EventsOf(p) \in Seq(EventSet) /\ Len(EventsOf(p)) = Len(p)
      /\ \A i \in 1 .. Len(p) : EventsOf(p)[i] = EventOf(p[i])
  BY EventsType
<1>5. /\ b \in Seq(EventSet) /\ Len(b) = Len(p) + 1
      /\ \A i \in 1 .. Len(p) : b[i] = EventOf(p[i])
      /\ b[Len(p) + 1] = EventOf(c)
  BY <1>2, <1>4, AppendProperties
<1> HIDE DEF a, b
<1>6. \A i \in 1 .. Len(a) : a[i] = b[i]
  BY <1>1, <1>3, <1>5
<1>7. a = b
  BY <1>3, <1>5, <1>6, SeqEqual
<1>8. QED
  BY <1>7 DEF a, b, q

LEMMA EventsTail ==
    ASSUME NEW p \in Seq(Caps), 1 <= Len(p)
    PROVE  /\ EventsOf(p) # <<>> /\ Head(EventsOf(p)) = EventOf(p[1])
           /\ EventsOf(Tail(p)) = Tail(EventsOf(p))
<1> DEFINE q == Tail(p)
           e == EventsOf(p)
           a == EventsOf(q)
           b == Tail(e)
<1>1. /\ q \in Seq(Caps) /\ Len(q) = Len(p) - 1 /\ Len(p) \in Nat
      /\ \A i \in 1 .. Len(p) - 1 : q[i] = p[i + 1]
  BY HeadTailProperties, EmptySeq, LenProperties
<1>2. /\ e \in Seq(EventSet) /\ Len(e) = Len(p) /\ \A i \in 1 .. Len(p) : e[i] = EventOf(p[i])
  BY EventsType
<1> HIDE DEF q, e
<1>3. a \in Seq(EventSet) /\ Len(a) = Len(p) - 1 /\ \A i \in 1 .. Len(p) - 1 : a[i] = EventOf(q[i])
  BY <1>1, EventsType
<1>4. e # <<>> /\ Head(e) = e[1]
  BY <1>1, <1>2, EmptySeq, HeadTailProperties
<1>5. /\ b \in Seq(EventSet) /\ Len(b) = Len(p) - 1
      /\ \A i \in 1 .. Len(p) - 1 : b[i] = e[i + 1]
  BY <1>1, <1>2, <1>4, HeadTailProperties
<1> HIDE DEF a, b
<1>6. \A i \in 1 .. Len(a) : a[i] = b[i]
  <2> SUFFICES ASSUME NEW i \in 1 .. Len(p) - 1 PROVE a[i] = b[i]
    BY <1>3
  <2>1. i + 1 \in 1 .. Len(p)
    BY <1>1
  <2>2. a[i] = EventOf(q[i]) /\ q[i] = p[i + 1] /\ b[i] = e[i + 1] /\ e[i + 1] = EventOf(p[i + 1])
    BY <1>1, <1>2, <1>3, <1>5, <2>1
  <2>3. QED
    BY <2>2, Zenon
<1>7. a = b
  BY <1>3, <1>5, <1>6, SeqEqual
<1>8. e[1] = EventOf(p[1])
  BY <1>1, <1>2
<1>9. QED
  BY <1>4, <1>7, <1>8 DEF a, b, q, e

\* A record is shown when its event has a frame.
LEMMA VisibleShows ==
    ASSUME NEW r, NEW c \in Caps, Holds(r, c)
    PROVE  Abstract!Visible(EventOf(c)) <=> Shows(r)
<1>1. ASSUME NEW m \in Nat PROVE [i \in 1 .. m |-> c.id] # <<>> <=> m > 0
  <2>1. c.id \in Nat
    BY CapFields
  <2>2. [i \in 1 .. m |-> c.id] \in Seq(Nat) /\ Len([i \in 1 .. m |-> c.id]) = m
    BY <2>1
  <2>3. QED
    BY <2>2, EmptySeq
<1>2. /\ FrameCount(c.kstack_sz) \in Nat /\ (c.kstack_sz > 0 <=> FrameCount(c.kstack_sz) > 0)
      /\ FrameCount(c.ustack_sz) \in Nat /\ (c.ustack_sz > 0 <=> FrameCount(c.ustack_sz) > 0)
  BY CapFields, FrameFacts, RingAssumption
<1>3. /\ EventOf(c).kstack # <<>> <=> c.kstack_sz > 0
      /\ EventOf(c).ustack # <<>> <=> c.ustack_sz > 0
  BY <1>1, <1>2 DEF EventOf
<1>4. QED
  BY <1>3 DEF Abstract!Visible, Shows, Holds

LEMMA InitRefines == Init => Abstract!QInit
<1> SUFFICES ASSUME Init PROVE Abstract!QInit
  OBVIOUS
<1>1. pending = <<>> /\ pending \in Seq(Caps) /\ Len(pending) = 0
  BY DEF Init
<1>2. EventsOf(pending) = <<>>
  BY <1>1, EventsType, EmptySeq
<1>3. QED
  BY <1>2 DEF Abstract!QInit, EventsOf, Init

\* A firing that gets a record is accepted.
LEMMA GetStackRefines ==
    ASSUME IInv, NEW t \in Tasks, get_stack(t), UNCHANGED shown
    PROVE  Abstract!QNext \/ UNCHANGED <<EventsOf(pending), shown>>
<1>1. CASE pending' = pending
  BY <1>1 DEF EventsOf, EventOf
<1>2. CASE pending' # pending
  <2>1. PICK c \in Captures(fired + 1) : pending' = Append(pending, c)
    BY <1>2 DEF get_stack
  <2>2. fired + 1 \in 1 .. MaxFirings /\ c \in Caps /\ pending \in Seq(Caps)
    BY RingAssumption DEF get_stack, IInv, ProbeTypes, Captures, Caps
  <2>3. EventOf(c) \in {EventOf(d) : d \in UNION {Captures(i) : i \in 1 .. MaxFirings}}
    BY <2>2
  <2>4. Len(EventsOf(pending)) < Slots
    <3>1. prod - cons < Slots
      BY <1>2 DEF get_stack
    <3>2. QED
      BY <2>2, <3>1, EventsType DEF IInv, QueueInv
  <2>5. EventsOf(pending)' = Append(EventsOf(pending), EventOf(c))
    <3>1. EventsOf(pending)' = EventsOf(pending')
      BY DEF EventsOf, EventOf
    <3>2. QED
      BY <2>1, <2>2, <3>1, EventsAppend, Zenon
  <2>6. Abstract!Accept(EventOf(c))
    BY <2>4, <2>5 DEF Abstract!Accept, EventsOf
  <2>7. QED
    BY <2>3, <2>6 DEF Abstract!QNext
<1>3. QED
  BY <1>1, <1>2

\* main shows the first event, or passes it over.
LEMMA ReleaseRefines ==
    ASSUME IInv, 1 <= Len(pending), Release,
           shown' = IF Abstract!Visible(EventOf(pending[1])) THEN <<EventOf(pending[1])>> ELSE shown
    PROVE  Abstract!Show
<1>1. pending \in Seq(Caps) /\ pending' = Tail(pending)
  BY DEF IInv, ProbeTypes, Release
<1>2. EventsOf(pending)' = EventsOf(pending')
  BY DEF EventsOf, EventOf
<1>3. /\ EventsOf(pending) # <<>> /\ Head(EventsOf(pending)) = EventOf(pending[1])
      /\ EventsOf(pending)' = Tail(EventsOf(pending))
  BY <1>1, <1>2, EventsTail, Zenon
<1>4. shown' = IF Abstract!Visible(Head(EventsOf(pending)))
               THEN <<Head(EventsOf(pending))>> ELSE shown
  BY <1>3, Zenon
<1>5. QED
  BY <1>3, <1>4, Zenon DEF Abstract!Show, EventsOf

LEMMA ShowUserRefines == IInv /\ ShowUser => Abstract!Show
<1> SUFFICES ASSUME IInv, ShowUser PROVE Abstract!Show
  OBVIOUS
<1>1. /\ 1 <= Len(pending) /\ ~Record.busy /\ Shows(Record) /\ cons < prod
      /\ screen = <<[id |-> pending[1].id, kstack |-> EventOf(pending[1]).kstack]>>
  BY DEF ShowUser, IInv, ScreenInv, QueueInv, ProbeTypes
<1>2. PICK c \in Caps : c = pending[1] /\ Holds(Record, c)
  BY <1>1, RecordHolds
<1>3. Abstract!Visible(EventOf(c))
  BY <1>1, <1>2, VisibleShows
<1>4. SubSeq(Record.ustack, 1, FrameCount(Record.ustack_sz)) = EventOf(c).ustack
  <2>1. SubSeq(Stack(c.ustack_sz, c.id), 1, FrameCount(c.ustack_sz))
           = [i \in 1 .. FrameCount(c.ustack_sz) |-> c.id]
    BY CapFields, StackShown
  <2>2. QED
    BY <1>2, <2>1 DEF Holds, EventOf
<1>5. screen[1].id = c.id /\ screen[1].kstack = EventOf(c).kstack
  BY <1>1, <1>2
<1>6. shown' = <<EventOf(c)>>
  <2>1. shown' = <<[id |-> c.id, kstack |-> EventOf(c).kstack, ustack |-> EventOf(c).ustack]>>
    BY <1>4, <1>5, Zenon DEF ShowUser
  <2>2. QED
    BY <2>1 DEF EventOf
<1>7. shown' = IF Abstract!Visible(EventOf(pending[1])) THEN <<EventOf(pending[1])>> ELSE shown
  BY <1>2, <1>3, <1>6, Zenon
<1>8. QED
  BY <1>1, <1>7, ReleaseRefines DEF ShowUser

LEMMA SkipRefines == IInv /\ Skip => Abstract!Show
<1> SUFFICES ASSUME IInv, Skip PROVE Abstract!Show
  OBVIOUS
<1>1. cons < prod /\ ~Record.busy /\ ~Shows(Record) /\ shown' = shown /\ Release
  BY DEF Skip
<1>2. PICK c \in Caps : c = pending[1] /\ Holds(Record, c) /\ 1 <= Len(pending)
  BY <1>1, RecordHolds
<1>3. ~Abstract!Visible(EventOf(c))
  BY <1>1, <1>2, VisibleShows
<1>4. shown' = IF Abstract!Visible(EventOf(pending[1])) THEN <<EventOf(pending[1])>> ELSE shown
  BY <1>1, <1>2, <1>3, Zenon
<1>5. QED
  BY <1>1, <1>2, <1>4, ReleaseRefines

LEMMA NextRefines ==
    IInv /\ [Next]_vars => [Abstract!QNext]_<<EventsOf(pending), shown>>
<1> SUFFICES ASSUME IInv, [Next]_vars
             PROVE  Abstract!QNext \/ UNCHANGED <<EventsOf(pending), shown>>
  OBVIOUS
<1>1. CASE UNCHANGED <<pending, shown>>
  BY <1>1 DEF EventsOf, EventOf
<1>2. ASSUME NEW t \in Tasks, get_stack(t), UNCHANGED shown
      PROVE  Abstract!QNext \/ UNCHANGED <<EventsOf(pending), shown>>
  BY <1>2, GetStackRefines
<1>3. CASE \E t \in Tasks : Call(t) \/ Return(t) \/ Store(t)
  <2>1. PICK t \in Tasks : Call(t) \/ Return(t) \/ Store(t)
    BY <1>3
  <2>2. UNCHANGED shown /\ (get_stack(t) \/ UNCHANGED pending)
    BY <2>1 DEF Call, Return, Store
  <2>3. QED
    BY <1>1, <1>2, <2>2
<1>4. CASE Attach \/ (\E how \in {"failed", "interrupted"} : End(how)) \/ ShowKernel
  <2>1. UNCHANGED <<pending, shown>>
    BY <1>4 DEF Attach, End, ShowKernel
  <2>2. QED
    BY <1>1, <2>1
<1>5. CASE ShowUser \/ Skip
  BY <1>5, ShowUserRefines, SkipRefines DEF Abstract!QNext
<1>6. CASE UNCHANGED vars
  BY <1>1, <1>6 DEF vars
<1>7. QED
  BY <1>3, <1>4, <1>5, <1>6 DEF Next

\* What main prints is what EventQueue promises: each firing that got a
\* record once, whole and in order, for any tasks, ring and sizes of stacks
\* (funcprobe.bpf.c:20-36, main.rs:137-183).
THEOREM ImplementsEventQueue == Spec => Implements
<1>1. IInv /\ [Next]_vars =>
         [Abstract!QNext]_<<[i \in DOMAIN pending |-> EventOf(pending[i])], shown>>
  BY NextRefines DEF EventsOf
<1>2. QED
  BY <1>1, InitRefines, InvHolds, PTL DEF Spec, Implements, Abstract!QSpec

-----------------------------------------------------------------------------
(***************************************************************************)
(* What Handled rests on                                                   *)
(***************************************************************************)
\* While main polls, the record it waits for is submitted or some task is
\* still to submit it.
FirstIsServed ==
    main = "polling" /\ cons < prod =>
        ~Record.busy \/ \E t \in Tasks : stage[t] # 0 /\ slot[t] = cons % Slots

\* No record makes main fail: it fails only before it polls.
FailsEarly == main \in {"load", "entry", "return", "failed"} => cons = 0

\* A task goes through get_stack without a step back, a submitted record stays
\* readable until main has released it, and main releases what it has begun
\* to print.
Onward ==
    /\ \A t \in Tasks : stage[t] # 0 => stage'[t] \in {stage[t], (stage[t] + 1) % 5}
    /\ cons < prod /\ cons' = cons /\ ~Record.busy => ~Record'.busy
    /\ main = "handler" => main' = "handler" \/ cons' = cons + 1

LEMMA InitEarly == Init => FailsEarly
  BY DEF Init, FailsEarly

LEMMA NoHandlerError == ~(HandlerResult(Record) < 0)
<1>1. HandlerResult(Record) \in {0, 1}
  BY DEF HandlerResult
<1>2. QED
  BY <1>1

\* A step of a task does not touch main.
LEMMA TaskStep ==
    ASSUME NEW t \in Tasks, Call(t) \/ Return(t) \/ Store(t)
    PROVE  UNCHANGED <<main, cons>>
  BY DEF Call, Return, Store

LEMMA NextEarly == FailsEarly /\ [Next]_vars => FailsEarly'
<1> SUFFICES ASSUME FailsEarly, [Next]_vars PROVE FailsEarly'
  OBVIOUS
<1>1. CASE UNCHANGED <<main, cons>>
  BY <1>1 DEF FailsEarly
<1>2. CASE Attach \/ (\E how \in {"failed", "interrupted"} : End(how)) \/ ShowKernel
  BY <1>2 DEF Attach, End, ShowKernel, FailsEarly
<1>3. CASE ShowUser \/ Skip
  <2>1. Release
    BY <1>3, Zenon DEF ShowUser, Skip
  <2>2. main' = "polling"
    BY <2>1, NoHandlerError, Zenon DEF Release
  <2>3. QED
    BY <2>2 DEF FailsEarly
<1>4. QED
  BY <1>1, <1>2, <1>3, TaskStep DEF Next, vars

\* The first record is the first of the queue.
LEMMA FirstRecord ==
    ASSUME IInv, cons < prod
    PROVE  1 \in 1 .. Len(pending) /\ Place(1) = cons % Slots
<1>1. Len(pending) \in Nat /\ Len(pending) = prod - cons /\ cons \in Nat /\ prod \in Nat
  BY LenProperties DEF IInv, ProbeTypes, QueueInv
<1>2. cons + 1 - 1 = cons
  BY <1>1
<1>3. Place(1) = cons % Slots
  BY <1>2, Zenon DEF Place
<1>4. QED
  BY <1>1, <1>3

LEMMA FirstServed == IInv => FirstIsServed
<1> SUFFICES ASSUME IInv, cons < prod, Record.busy
             PROVE  \E t \in Tasks : stage[t] # 0 /\ slot[t] = cons % Slots
  BY DEF FirstIsServed
<1>1. Record = ring[Place(1)] /\ 1 \in 1 .. Len(pending) /\ Place(1) = cons % Slots
  BY FirstRecord, Places
<1>2. \E t \in Tasks : Fills(t, 1)
  BY <1>1 DEF IInv, CellInv
<1>3. QED
  BY <1>1, <1>2 DEF Fills

\* get_stack reserves no record that is in use.
LEMMA GetStackOnward ==
    ASSUME IInv, NEW t \in Tasks, stage[t] = 0, get_stack(t), UNCHANGED <<main, cons>>
    PROVE  Onward
<1>1. CASE prod - cons < Slots
  <2>1. prod - cons # Slots
    BY <1>1, SlotsPos DEF IInv, ProbeTypes
  <2>2. /\ ring' = [ring EXCEPT ![prod % Slots].busy = TRUE]
        /\ stage' = [stage EXCEPT ![t] = 1]
    BY <2>1 DEF get_stack
  <2>3. \A u \in Tasks : stage[u] # 0 => stage'[u] = stage[u]
    BY <2>2 DEF IInv, ProbeTypes
  <2>4. ASSUME cons < prod, ~Record.busy PROVE ~Record'.busy
    <3>1. cons % Slots # prod % Slots
      BY <1>1, <2>4, FirstRecord, NewPlace
    <3>2. cons % Slots \in 0 .. Slots - 1
      BY ModRange DEF IInv, ProbeTypes
    <3>3. ring'[cons % Slots] = ring[cons % Slots]
      BY <2>2, <3>1, <3>2, Zenon DEF IInv, ProbeTypes
    <3>4. Record' = Record
      BY <3>3 DEF Record
    <3>5. QED
      BY <2>4, <3>4
  <2>5. QED
    BY <2>3, <2>4 DEF Onward
<1>2. CASE ~(prod - cons < Slots)
  <2>1. UNCHANGED <<ring, stage>>
    BY <1>2 DEF get_stack
  <2>2. Record' = Record
    BY <2>1 DEF Record
  <2>3. QED
    BY <2>1, <2>2 DEF Onward
<1>3. QED
  BY <1>1, <1>2

LEMMA StoreOnward ==
    ASSUME IInv, NEW t \in Tasks, Store(t)
    PROVE  Onward
<1>1. /\ stage[t] # 0 /\ UNCHANGED <<main, cons>>
      /\ stage' = [stage EXCEPT ![t] = (@ + 1) % 5]
  BY StepsFacts DEF Store
<1>2. \A u \in Tasks : stage[u] # 0 => stage'[u] \in {stage[u], (stage[u] + 1) % 5}
  BY <1>1 DEF IInv, ProbeTypes
<1>3. ASSUME cons < prod, ~Record.busy PROVE ~Record'.busy
  <2>1. Partly(ring[slot[t]], capture[t], stage[t])
    BY <1>1, OwnPlace
  <2>2. slot[t] # cons % Slots
    BY <1>3, <2>1 DEF Partly, Record
  <2>3. cons % Slots \in 0 .. Slots - 1
    BY ModRange DEF IInv, ProbeTypes
  <2>4. ring'[cons % Slots] = ring[cons % Slots]
    BY <2>2, <2>3, Zenon DEF Store, IInv, ProbeTypes
  <2>5. QED
    BY <1>1, <1>3, <2>4 DEF Record
<1>4. QED
  BY <1>1, <1>2, <1>3 DEF Onward

LEMMA NextOnward == IInv /\ [Next]_vars => Onward
<1> SUFFICES ASSUME IInv, [Next]_vars PROVE Onward
  OBVIOUS
<1>1. CASE UNCHANGED <<stage, ring>> /\ (main = "handler" => main' = "handler" \/ cons' = cons + 1)
  <2>1. cons' = cons => Record' = Record
    BY <1>1 DEF Record
  <2>2. QED
    BY <1>1, <2>1 DEF Onward
<1>2. ASSUME NEW t \in Tasks, Call(t) PROVE Onward
  BY <1>2, GetStackOnward DEF Call
<1>3. ASSUME NEW t \in Tasks, Return(t) PROVE Onward
  <2>1. stage[t] = 0 /\ UNCHANGED <<main, cons>>
    BY <1>3 DEF Return
  <2>2. CASE get_stack(t)
    BY <2>1, <2>2, GetStackOnward
  <2>3. CASE UNCHANGED <<stage, ring>>
    BY <1>1, <2>1, <2>3
  <2>4. QED
    BY <1>3, <2>2, <2>3 DEF Return
<1>4. ASSUME NEW t \in Tasks, Store(t) PROVE Onward
  BY <1>4, StoreOnward
<1>5. CASE Attach \/ (\E how \in {"failed", "interrupted"} : End(how)) \/ ShowKernel
  BY <1>1, <1>5 DEF Attach, End, ShowKernel, taskVars
<1>6. CASE ShowUser \/ Skip
  BY <1>1, <1>6 DEF ShowUser, Skip, Release, taskVars
<1>7. CASE UNCHANGED vars
  BY <1>1, <1>7 DEF vars, taskVars
<1>8. QED
  BY <1>2, <1>3, <1>4, <1>5, <1>6, <1>7 DEF Next

\* Nothing can hold up main's poll for ever: the record it waits for is being
\* filled by a task that only goes forward, becomes readable and stays so, is
\* released once begun, and no record makes main fail, for any tasks, ring and
\* stacks (funcprobe.bpf.c:20-36, main.rs:137-183, 263).
THEOREM RingMovesOn == Spec => []FirstIsServed /\ []FailsEarly /\ [][Onward]_vars
<1>1. IInv => FirstIsServed
  BY FirstServed
<1>2. IInv /\ [Next]_vars => [Onward]_vars
  BY NextOnward
<1>3. QED
  BY <1>1, <1>2, InitEarly, NextEarly, InvHolds, PTL DEF Spec
=============================================================================
