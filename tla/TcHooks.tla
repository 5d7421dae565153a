------------------------------ MODULE TcHooks ------------------------------
(***************************************************************************)
(* What portmirror and erspan share: both attach to the same three tc      *)
(* filters of an interface, made from the same handle 1 and priority 1     *)
(* with replace(true), and a program decides a packet's fate.              *)
(***************************************************************************)
EXTENDS Naturals, Sequences

Slots      == {"ingress", "egress", "custom"}
Directions == {"ingress", "egress"}

\* custom is a second filter, of handle 2, under the ingress parent
At(d) == IF d = "ingress" THEN {"ingress", "custom"} ELSE {"egress"}

\* What a program does with a packet: its clones, and whether it is dropped
CloneTo(interfaces) == [to |-> interfaces, drop |-> FALSE]
Pass == CloneTo({})
Shot == [to |-> {}, drop |-> TRUE]

\* The same system call for several slots, in order
Calls(name, slots) == [i \in DOMAIN slots |-> <<name, slots[i]>>]

DetachCalls(o) ==
    IF o.detach THEN Calls("detach", <<"ingress", "egress", "custom">>) ELSE <<>>
=============================================================================
