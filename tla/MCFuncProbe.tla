----------------------------- MODULE MCFuncProbe -----------------------------
(***************************************************************************)
(* Two tasks, a ring of two records and enough firings to use each record  *)
(* again; captures with a stack that fails and one that is shorter than    *)
(* the buffer.                                                             *)
(***************************************************************************)
EXTENDS FuncProbe

EFAULT  == -14
MCSizes == {EFAULT, 8}
=============================================================================
