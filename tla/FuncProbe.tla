----------------------------- MODULE FuncProbe -----------------------------
(***************************************************************************)
(* ebpf/funcprobe: probes at the entry and the return of a function make   *)
(* the tasks that call it store their stacks in a ring buffer, from which  *)
(* main prints them.  Tasks on several CPUs fill records at once; a record *)
(* is reserved, filled field by field in memory that held older records,   *)
(* and submitted, and main may read it only then.                          *)
(*                                                                         *)
(* A firing captures an event: its id (which stands for pid, CPU and     *)
(* command name) and two stacks, whose frames are all written id so that a *)
(* frame tells whose it is.  Sizes are in bytes, eight to a frame;         *)
(* bpf_get_stack answers an error with a negative size, which the C side   *)
(* keeps in 32 bits unsigned and the Rust side reads back signed.          *)
(***************************************************************************)
EXTENDS Integers, Sequences, FiniteSets

CONSTANTS
    Tasks,       \* the tasks that call the function
    Slots,       \* how many records the ring holds
    Depth,       \* MAX_STACK_DEPTH
    Sizes,       \* what bpf_get_stack may return
    MaxFirings   \* bound: how many firings are stored or dropped

ASSUME RingAssumption ==
    /\ Slots \in Nat \ {0} /\ Depth \in Nat /\ MaxFirings \in Nat
    /\ \A n \in Sizes : n \in Int /\ (n > 0 => n % 8 = 0 /\ n \div 8 <= Depth)

VARIABLES
    uprobe,   \* opts.uprobe is given
    main,     \* where main is
    probes,   \* the probes that are attached
    task,     \* whether a task is in the function, and its return will fire
    stage,    \* the step of get_stack a task is at, or 0
    slot,     \* the record a task fills
    capture,  \* what its firing finds
    fired,    \* firings so far
    ring,     \* the records' memory
    prod,     \* records reserved so far
    cons,     \* records consumed so far
    screen,   \* main: what it has printed of the record at hand
    shown,    \* the event printed last, or nothing yet
    pending   \* history: what the records hold or will, in their order

taskVars == <<task, stage, slot, capture, fired>>
vars == <<uprobe, main, probes, taskVars, ring, prod, cons, screen, shown, pending>>

FrameCount(size) == IF size > 0 THEN size \div 8 ELSE 0

\* What a firing finds
Captures(id) == [id : {id}, kstack_sz : Sizes, ustack_sz : Sizes]

Nothing == [id |-> 0, kstack_sz |-> 0, ustack_sz |-> 0]

\* bpf_get_stack zeroes what it does not fill
Stack(size, id) == [i \in 1 .. Depth |-> IF i <= FrameCount(size) THEN id ELSE 0]

\* Memory that no record has been in yet
stacktrace_event == [busy |-> FALSE, id |-> 0,
                     kstack_sz |-> 0, ustack_sz |-> 0,
                     kstack |-> Stack(0, 0), ustack |-> Stack(0, 0)]

Init ==
    /\ uprobe \in BOOLEAN
    /\ main = "load" /\ probes = {}
    /\ task = [t \in Tasks |-> "out"]
    /\ stage = [t \in Tasks |-> 0]
    /\ slot = [t \in Tasks |-> 0]
    /\ capture = [t \in Tasks |-> Nothing]
    /\ fired = 0
    /\ ring = [i \in 0 .. Slots - 1 |-> stacktrace_event]
    /\ prod = 0 /\ cons = 0
    /\ screen = <<>> /\ shown = <<>> /\ pending = <<>>

-----------------------------------------------------------------------------
(* The tasks                                                               *)

\* Fault: one record more than the ring holds
FaultGetStack(t) ==
    /\ fired < MaxFirings
    /\ fired' = fired + 1
    /\ \/ /\ prod - cons <= Slots
          /\ \E c \in Captures(fired + 1) :
                /\ capture' = [capture EXCEPT ![t] = c]
                /\ pending' = Append(pending, c)
          /\ slot' = [slot EXCEPT ![t] = prod % Slots]
          /\ ring' = [ring EXCEPT ![prod % Slots].busy = TRUE]
          /\ prod' = prod + 1
          /\ stage' = [stage EXCEPT ![t] = 1]
       \/ /\ prod - cons > Slots
          /\ UNCHANGED <<capture, pending, slot, ring, prod, stage>>
\* get_stack up to the reservation; a full ring drops the event
get_stack(t) ==
    /\ fired < MaxFirings
    /\ fired' = fired + 1
    /\ \/ /\ prod - cons < Slots
          /\ \E c \in Captures(fired + 1) :
                /\ capture' = [capture EXCEPT ![t] = c]
                /\ pending' = Append(pending, c)
          /\ slot' = [slot EXCEPT ![t] = prod % Slots]
          /\ ring' = [ring EXCEPT ![prod % Slots].busy = TRUE]
          /\ prod' = prod + 1
          /\ stage' = [stage EXCEPT ![t] = 1]
       \/ /\ prod - cons = Slots
          /\ UNCHANGED <<capture, pending, slot, ring, prod, stage>>

\* The function is called with its entry probed; earlier calls change nothing
Call(t) ==
    /\ task[t] = "out" /\ stage[t] = 0
    /\ "entry" \in probes
    /\ task' = [task EXCEPT ![t] = IF "return" \in probes THEN "armed" ELSE "in"]
    /\ get_stack(t)
    /\ UNCHANGED <<uprobe, main, probes, cons, screen, shown>>

\* The function returns: the kernel's return probe runs kfunc_enter as well
\* (main.rs:250), the user one ufunc_exit, which does nothing
Return(t) ==
    /\ task[t] \in {"in", "armed"} /\ stage[t] = 0
    /\ task' = [task EXCEPT ![t] = "out"]
    /\ \/ /\ task[t] = "armed" /\ "return" \in probes /\ ~uprobe
          /\ get_stack(t)
       \/ /\ ~(task[t] = "armed" /\ "return" \in probes /\ ~uprobe)
          /\ UNCHANGED <<stage, slot, capture, fired, ring, prod, pending>>
    /\ UNCHANGED <<uprobe, main, probes, cons, screen, shown>>

\* Fault: the record is submitted before the user stack is in it
FaultSteps == <<"head", "kstack", "submit", "ustack">>
\* What get_stack does with its record, in order
Steps == <<"head", "kstack", "ustack", "submit">>

Store(t) ==
    LET c == capture[t]
        r == ring[slot[t]]
    IN  /\ stage[t] # 0
        /\ ring' = [ring EXCEPT ![slot[t]] =
              CASE Steps[stage[t]] = "head" ->
                     [r EXCEPT !.id = c.id]
                [] Steps[stage[t]] = "kstack" ->
                     [r EXCEPT !.kstack = Stack(c.kstack_sz, c.id), !.kstack_sz = c.kstack_sz]
                [] Steps[stage[t]] = "ustack" ->
                     [r EXCEPT !.ustack = Stack(c.ustack_sz, c.id), !.ustack_sz = c.ustack_sz]
                [] Steps[stage[t]] = "submit" ->
                     [r EXCEPT !.busy = FALSE]]
        /\ stage' = [stage EXCEPT ![t] = (@ + 1) % (Len(Steps) + 1)]
        /\ slot' = [slot EXCEPT ![t] = IF stage'[t] = 0 THEN 0 ELSE @]
        /\ capture' = [capture EXCEPT ![t] = IF stage'[t] = 0 THEN Nothing ELSE @]
        /\ UNCHANGED <<uprobe, main, probes, task, fired,
                       prod, cons, screen, shown, pending>>

-----------------------------------------------------------------------------
(* main                                                                    *)

\* The entry is probed first, then the return, then the ring is opened
Attach ==
    /\ \/ main = "load" /\ main' = "entry" /\ probes' = {"entry"}
       \/ main = "entry" /\ main' = "return" /\ probes' = {"entry", "return"}
       \/ main = "return" /\ main' = "polling" /\ UNCHANGED probes
    /\ UNCHANGED <<uprobe, taskVars, ring, prod, cons, screen, shown, pending>>

\* A `?` or an unwrap on the way there, or a poll interrupted by a signal:
\* main returns and its links are dropped
End(how) ==
    /\ \/ how = "failed" /\ main \in {"load", "entry", "return"}
       \/ how = "interrupted" /\ main = "polling"
    /\ main' = how /\ probes' = {}
    /\ UNCHANGED <<uprobe, taskVars, ring, prod, cons, screen, shown, pending>>

Record == ring[cons % Slots]

Shows(r) == r.kstack_sz > 0 \/ r.ustack_sz > 0

\* Fault: the answer for a record without stacks is an error to libbpf
FaultHandlerResult(r) == IF Shows(r) THEN 0 ELSE -1
\* What event_handler answers; libbpf stops polling when it is negative
HandlerResult(r) == IF Shows(r) THEN 0 ELSE 1

\* The poll goes on with the next record, or ends with an error
Release ==
    /\ cons' = cons + 1
    /\ pending' = Tail(pending)
    /\ main' = IF HandlerResult(Record) < 0 THEN "failed" ELSE "polling"
    /\ probes' = IF main' = "failed" THEN {} ELSE probes

\* event_handler up to the kernel stack; libbpf stops at a busy record
ShowKernel ==
    /\ main = "polling" /\ cons < prod /\ ~Record.busy
    /\ Shows(Record)
    /\ screen' = <<[id |-> Record.id,
                    kstack |-> SubSeq(Record.kstack, 1, FrameCount(Record.kstack_sz))]>>
    /\ main' = "handler"
    /\ UNCHANGED <<uprobe, probes, taskVars, ring, prod, cons, shown, pending>>

ShowUser ==
    /\ main = "handler"
    /\ shown' = <<[id |-> screen[1].id, kstack |-> screen[1].kstack,
                   ustack |-> SubSeq(Record.ustack, 1, FrameCount(Record.ustack_sz))]>>
    /\ screen' = <<>>
    /\ Release
    /\ UNCHANGED <<uprobe, taskVars, ring, prod>>

\* Neither stack could be captured
Skip ==
    /\ main = "polling" /\ cons < prod /\ ~Record.busy
    /\ ~Shows(Record)
    /\ Release
    /\ UNCHANGED <<uprobe, taskVars, ring, prod, screen, shown>>

Consume == ShowKernel \/ ShowUser \/ Skip

Next ==
    \/ \E t \in Tasks : Call(t) \/ Return(t) \/ Store(t)
    \/ Attach
    \/ \E how \in {"failed", "interrupted"} : End(how)
    \/ ShowKernel
    \/ ShowUser
    \/ Skip

\* Probes run to their end with preemption disabled, main is scheduled and
\* epoll reports a ring that is not empty; that the function is called, and
\* that main is interrupted, is up to others
Fairness ==
    /\ \A t \in Tasks : WF_vars(Store(t))
    /\ WF_vars(Attach) /\ WF_vars(Consume)

Spec == Init /\ [][Next]_vars /\ Fairness

-----------------------------------------------------------------------------
(* Properties                                                              *)

\* The event a capture should be shown as
EventOf(c) ==
    [id |-> c.id,
     kstack |-> [i \in 1 .. FrameCount(c.kstack_sz) |-> c.id],
     ustack |-> [i \in 1 .. FrameCount(c.ustack_sz) |-> c.id]]

Abstract == INSTANCE EventQueue WITH
    Events   <- {EventOf(c) : c \in UNION {Captures(i) : i \in 1 .. MaxFirings}},
    Capacity <- Slots,
    queue    <- [i \in DOMAIN pending |-> EventOf(pending[i])],
    out      <- shown

\* However tasks fill, submit out of order and reuse records while main
\* prints: what is on the screen is the firings that got a record, each
\* once, whole, and in order (funcprobe.bpf.c:20-36, main.rs:137-183).
Implements == Abstract!QSpec

\* Between the consumer's position and the producers' every record belongs to
\* one firing: it is busy and that firing's task is filling it, or it holds
\* all of what the firing found, whatever was in its memory before
\* (funcprobe.bpf.c:20-36).
RecordsWhole ==
    LET Place(i) == (cons + i - 1) % Slots
        Holds(r, c) == /\ r.id = c.id
                       /\ r.kstack_sz = c.kstack_sz /\ r.kstack = Stack(c.kstack_sz, c.id)
                       /\ r.ustack_sz = c.ustack_sz /\ r.ustack = Stack(c.ustack_sz, c.id)
    IN  /\ Len(pending) = prod - cons /\ prod - cons <= Slots
        /\ \A i \in DOMAIN pending :
              IF ring[Place(i)].busy
              THEN \E t \in Tasks : /\ stage[t] # 0 /\ slot[t] = Place(i)
                                   /\ capture[t] = pending[i]
              ELSE Holds(ring[Place(i)], pending[i])

\* A record that was reserved is consumed, also behind records that are
\* submitted late or have no stacks, unless main is interrupted or did not
\* get as far as polling (main.rs:150, 263).
Handled ==
    \A n \in 1 .. MaxFirings :
        (prod >= n) ~> (cons >= n \/ main = "interrupted" \/ (main = "failed" /\ cons = 0))
=============================================================================
