----------------------------- MODULE MCBookFiles -----------------------------
(***************************************************************************)
(* An instance of BookFiles for TLC: two executions and a fee, amounts     *)
(* whose sums are all different, days of two instants.                     *)
(***************************************************************************)
EXTENDS BookFiles

CONSTANTS f1, f2, c1

MCAmount == (f1 :> -1) @@ (f2 :> -2) @@ (c1 :> -4)
=============================================================================
