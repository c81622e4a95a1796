--------------------------- MODULE RestackPromise ---------------------------
(***************************************************************************)
(* What the restacker promises the authors of the changes it moves: it     *)
(* adds a version only once it has moved the branches of the whole family  *)
(* the change is in, adds one version of a change in one operation, and    *)
(* tells only of versions it added.                                        *)
(***************************************************************************)
CONSTANTS Change, Op

VARIABLES
    families,   \* <<op, layers>>: the families whose branches it moved
    versions,   \* <<op, c>>: the versions it added
    told        \* <<c, op, S>>: the report about c that op added the versions S

vars == <<families, versions, told>>

Init == families = {} /\ versions = {} /\ told = {}

Branches(o, L) == families' = families \cup {<<o, L>>} /\ UNCHANGED <<versions, told>>

AddVersion(o, c) ==
    /\ <<o, c>> \notin versions
    /\ \E L \in SUBSET Change : c \in L /\ <<o, L>> \in families
    /\ versions' = versions \cup {<<o, c>>}
    /\ UNCHANGED <<families, told>>

Tell(o, c, S) ==
    /\ \A d \in S : <<o, d>> \in versions
    /\ told' = told \cup {<<c, o, S>>}
    /\ UNCHANGED <<families, versions>>

Next == \E o \in Op, S \in SUBSET Change :
            \/ Branches(o, S)
            \/ \E c \in Change : AddVersion(o, c) \/ Tell(o, c, S)

Spec == Init /\ [][Next]_vars
=============================================================================
