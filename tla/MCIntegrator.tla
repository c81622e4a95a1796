---------------------------- MODULE MCIntegrator ----------------------------
(* Small instances of the integrator for TLC. *)
EXTENDS Integrator, TLC

CONSTANTS h1, h2, c1, s1, strict, watch, hand

MCName == {1, 2}
MCHeads == {h1, h2}
MCSignerSet == {{}, {s1}}

\* Request 1 is named for the change c1, request 2 for a branch.
MCNamedFor == [n \in Name |-> IF n = 1 THEN c1 ELSE None]

\* h2 is stacked on h1.
MCStacked == [h \in Heads |-> IF h = h2 THEN {h1, h2} ELSE {h}]

MCConflicts == {<<h1, None>>}
MCDisturbs == {<<h2, None>>}
MCDisturbsAll == {<<h1, None>>, <<h2, None>>}

\* The signer is accepted once, and nothing is taken back.
MCAccept == [i \in Inputs |-> {j \in Inputs : j.floor = i.floor /\ i.signers \subseteq j.signers /\ j # i}]
\* Any content may replace any other.
MCAny == [i \in Inputs |-> Inputs \ {i}]

\* A repository nothing has landed in, with request 1 filed for h1, its change
\* ready and the evidence stored, and the signer accepted already or not yet.
MCInit ==
    /\ request = [n \in Name |-> IF n = 1 THEN h1 ELSE None]
    /\ record = [c \in Change |-> [state |-> "ready", heads |-> {h1}]]
    /\ attested = [t \in Tree |-> IF t = {h1} THEN Signer ELSE {}]
    /\ Init
MCSpec == MCInit /\ [][Next]_vars
MCFairSpec == MCSpec /\ Fairness
=============================================================================
