---------------------------- MODULE MCRestacker ----------------------------
\* A stack of two changes: c2 on c1, and c2's author pushes it to either
\* branch.  c2 conflicts on main at 2 and c1 is empty on main at 3.
EXTENDS Restacker

CONSTANTS c1, c2

MCChange == {c1, c2}
MCUnder == [c \in MCChange |-> IF c = c2 THEN {c1} ELSE {}]
MCUses == [c \in MCChange |-> IF c = c2 THEN {c1, c2} ELSE {c1}]
MCConflicts == {<<c2, 2>>}
MCEmpties == {<<c1, 3>>}

FairSpec == Spec /\ Fairness
=============================================================================
