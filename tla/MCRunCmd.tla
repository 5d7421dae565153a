------------------------------ MODULE MCRunCmd ------------------------------
(***************************************************************************)
(* Every command of up to four operations that forks at most once, pipes   *)
(* of one unit.                                                            *)
(***************************************************************************)
EXTENDS RunCmd, FiniteSets

MCScripts ==
    {s \in UNION {[1 .. n -> {"in", "out", "err", "fork"}] : n \in 0 .. 4} :
        Cardinality({k \in DOMAIN s : s[k] = "fork"}) <= 1}
=============================================================================
