----------------------------- MODULE MCShowVlan -----------------------------
(***************************************************************************)
(* show_vlan on every vector of VLAN ids out of 0 .. MaxVlan that          *)
(* show_topo can leave behind: a first id, or one more id pushed, sorted   *)
(* and deduplicated into a vector it left before.                          *)
(***************************************************************************)
EXTENDS ShowVlan, FiniteSets, Functions

\* The elements of a set of ids in ascending order.
Ascending(S) ==
    [k \in 1 .. Cardinality(S) |-> CHOOSE x \in S : Cardinality({y \in S : y < x}) = k - 1]

\* v.push(peer.vlan); v.sort(); v.dedup()
push(s, v) == Ascending(Range(Append(s, v)))

MCLists == {push(Ascending(S), v) : S \in SUBSET Vlan, v \in Vlan}
=============================================================================
