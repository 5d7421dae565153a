----------------------------- MODULE EventQueue -----------------------------
(***************************************************************************)
(* What funcprobe promises between the probed tasks and the terminal: a    *)
(* firing is either dropped at once, when the queue is full, or shown      *)
(* once, whole and in order; one without any stack is passed over.         *)
(***************************************************************************)
EXTENDS Naturals, Sequences

CONSTANTS Events, Capacity

VARIABLES
    queue,  \* accepted and not yet shown
    out     \* the event shown last, or nothing yet

\* An event says what it is of (id) and holds a kernel and a user stack
Visible(e) == e.kstack # <<>> \/ e.ustack # <<>>

QInit == queue = <<>> /\ out = <<>>

Accept(e) ==
    /\ Len(queue) < Capacity
    /\ queue' = Append(queue, e)
    /\ UNCHANGED out

Show ==
    /\ queue # <<>>
    /\ queue' = Tail(queue)
    /\ out' = IF Visible(Head(queue)) THEN <<Head(queue)>> ELSE out

QNext == Show \/ \E e \in Events : Accept(e)

QSpec == QInit /\ [][QNext]_<<queue, out>>
=============================================================================
