----------------------------- MODULE MCWakeLoop -----------------------------
(* Small instances of the wake loop for TLC. *)
EXTENDS WakeLoop, TLC

CONSTANTS w1, w2

=============================================================================
