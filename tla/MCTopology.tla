----------------------------- MODULE MCTopology -----------------------------
(***************************************************************************)
(* Hosts ha and hb on one switch, connected by a1 and b1.  Where they take *)
(* part, a2 is a second interface of ha that is not used and c1, the only  *)
(* interface of hc, is down.                                               *)
(***************************************************************************)
EXTENDS Topology

CONSTANTS ha, hb, hc, a1, a2, b1, c1, ma1, ma2, mb1, mc1

MCHostOf      == [n \in Nics |-> CASE n \in {a1, a2} -> ha [] n = b1 -> hb [] n = c1 -> hc]
MCNameOf      == [n \in Nics |-> IF n = a2 THEN <<101, 50>> ELSE <<101>>]
MCMacOf       == [n \in Nics |-> CASE n = a1 -> ma1 [] n = a2 -> ma2
                                   [] n = b1 -> mb1 [] n = c1 -> mc1]
MCHostName    == [h \in Hosts |-> IF h = ha THEN <<97>> ELSE <<98, 98>>]
MCAllUp       == [n \in Nics |-> "up"]

\* a1 and b1 on trunks that carry VLAN 2 and untagged frames
MCReach(n, t) == {m \in Nics : (n = b1) # (m = b1) /\ t \in {0, 2}}

\* a1 on a trunk that carries only VLAN 2, a2 and b1 on ones that carry both
MCTrunk(n, t) == {m \in Nics : /\ c1 \notin {n, m} /\ (n = b1) # (m = b1)
                               /\ t \in (IF a1 \in {n, m} THEN {2} ELSE {0, 2})}

MCOneDown == [n \in Nics |-> IF n = c1 THEN "down" ELSE "up"]

\* VLAN 2 is one the switch carries, 3 is not
MCVlanA2 == [h \in Hosts |-> IF h = ha THEN <<<<2, 2>>>> ELSE <<<<3, 3>>>>]
=============================================================================
