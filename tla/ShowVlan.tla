------------------------------ MODULE ShowVlan ------------------------------
(***************************************************************************)
(* show_vlan of network/topology: the loop that prints a sorted vector of  *)
(* VLAN ids as ranges ("1,3-5,9").  Printed text is the sequence of pairs  *)
(* <<first, last>>; a pair of equal ids is printed as one number.          *)
(*                                                                         *)
(* start, a reference to an element in the code, is the element's index.   *)
(* Indices count from 1.                                                   *)
(***************************************************************************)
EXTENDS Integers, Sequences

CONSTANTS MaxVlan,  \* u16::MAX
          Lists     \* the vectors show_vlan is called with

Vlan == 0 .. MaxVlan

ASSUME MaxAssumption == MaxVlan \in Nat
\* show_topo sorts and deduplicates after every push
ASSUME ListsAssumption ==
    \A s \in Lists : /\ s \in Seq(Vlan)
                     /\ \A i, j \in 1 .. Len(s) : i < j => s[i] < s[j]

VARIABLES vlans, i, start, text, pc
vars == <<vlans, i, start, text, pc>>

Init ==
    /\ vlans \in Lists
    /\ i = 1
    /\ start = 1
    /\ text = <<>>
    /\ pc = IF vlans = <<>> THEN "done" ELSE "loop"

\* end + 1 in u16
Succ(v) == (v + 1) % (MaxVlan + 1)

\* Fault: every element ends a range.
EndsAlways == TRUE

\* The range ends at i: there is no next element or it is not end + 1.
Ends == i < Len(vlans) => vlans[i + 1] # Succ(vlans[i])

Extend ==
    /\ pc = "loop" /\ i <= Len(vlans) /\ ~Ends
    /\ i' = i + 1
    /\ UNCHANGED <<vlans, start, text, pc>>

\* Fault: the range loses its end.
FlushStartOnly ==
    /\ pc = "loop" /\ i <= Len(vlans) /\ Ends
    /\ text' = Append(text, <<vlans[start], vlans[start]>>)
    /\ start' = i + 1
    /\ i' = i + 1
    /\ UNCHANGED <<vlans, pc>>

Flush ==
    /\ pc = "loop" /\ i <= Len(vlans) /\ Ends
    /\ text' = Append(text, <<vlans[start], vlans[i]>>)
    /\ start' = i + 1
    /\ i' = i + 1
    /\ UNCHANGED <<vlans, pc>>

Return ==
    /\ pc = "loop" /\ i > Len(vlans)
    /\ pc' = "done"
    /\ UNCHANGED <<vlans, i, start, text>>

Next == Extend \/ Flush \/ Return

Spec == Init /\ [][Next]_vars

-----------------------------------------------------------------------------
\* The loop's variables stay in range.
TypeOK ==
    /\ vlans \in Lists
    /\ i \in 1 .. Len(vlans) + 1
    /\ start \in 1 .. i
    /\ text \in Seq(Vlan \X Vlan)
    /\ pc \in {"loop", "done"}

\* v lies in one of the printed ranges; v is one of the first n ids.
Printed(v) == \E k \in 1 .. Len(text) : text[k][1] <= v /\ v <= text[k][2]
Among(v, n) == \E k \in 1 .. n : vlans[k] = v

\* The loop's invariant: the ids printed so far are exactly those before start,
\* and from start up to i the ids are consecutive.
LoopInv ==
    /\ \A v \in Vlan : Printed(v) <=> Among(v, start - 1)
    /\ start < i => /\ i <= Len(vlans)
                    /\ \A k \in start .. i : vlans[k] = vlans[start] + (k - start)
    /\ pc = "done" => i = Len(vlans) + 1

\* No two printed ranges touch: each is as long as it can be.
Maximal ==
    /\ \A k \in 1 .. Len(text) - 1 : text[k][2] + 1 < text[k + 1][1]
    /\ \A k \in 1 .. Len(text) : text[k][1] <= text[k][2]
    /\ (Len(text) > 0 /\ start <= Len(vlans)) => text[Len(text)][2] + 1 < vlans[start]

\* show_vlan prints every VLAN of the vector and no other (lib.rs:133).
PrintsAll == pc = "done" => \A v \in Vlan : Printed(v) <=> Among(v, Len(vlans))

\* The addition end + 1 never overflows: it is only evaluated when a larger
\* element follows (lib.rs:147).
NoOverflow == pc = "loop" /\ i < Len(vlans) => vlans[i] < MaxVlan
=============================================================================
