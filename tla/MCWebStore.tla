----------------------------- MODULE MCWebStore -----------------------------
(* Small instances of the web store for TLC. *)
EXTENDS WebStore

CONSTANTS p1, p2, r1

\* The second export moves one project and carries the other.
MCExports == <<[p \in Project |-> 1], [p \in Project |-> IF p = p1 THEN 1 ELSE 2]>>

\* One project stays named, the other is withdrawn and named again.
MCNaming == {{p1}, {p1, p2}}
=============================================================================
