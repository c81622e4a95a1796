--------------------------- MODULE MCCheckWorker ---------------------------
(***************************************************************************)
(* A small instance of the check worker for TLC: two changes that share a  *)
(* tree or hold one each, two checks of which the policy first asks one,   *)
(* two slots, and memory for two small evaluations or one large one.       *)
(***************************************************************************)
EXTENDS CheckWorker, TLC

CONSTANTS c1, c2, t1, t2, k1, k2

FirstTrees == {(c1 :> t1) @@ (c2 :> t1), (c1 :> t1) @@ (c2 :> t2)}
=============================================================================
