--------------------------- MODULE LinkKnowledge ----------------------------
(***************************************************************************)
(* What network/topology promises, without tasks, channels or frames: each *)
(* host's table of connections only ever gains entries, one at a time,     *)
(* every one of them true, and what is on its screen is the whole table as *)
(* it was at some moment, never older than the one shown before.           *)
(***************************************************************************)
CONSTANTS Hosts,
          Fact(_, _)   \* Fact(h, e): entry e is true of the network around h

VARIABLES knows, shown

vars == <<knows, shown>>

Init == /\ knows = [h \in Hosts |-> {}]
        /\ shown = [h \in Hosts |-> {}]

Learn(h) ==
    /\ \E e \in knows'[h] : Fact(h, e) /\ knows' = [knows EXCEPT ![h] = @ \cup {e}]
    /\ UNCHANGED shown

Show(h) ==
    /\ shown' = [shown EXCEPT ![h] = knows[h]]
    /\ UNCHANGED knows

Next == \E h \in Hosts : Learn(h) \/ Show(h)

Spec == Init /\ [][Next]_vars
=============================================================================
