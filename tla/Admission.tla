----------------------------- MODULE Admission -----------------------------
(***************************************************************************)
(* The evaluations of attest runs are admitted by a memory budget          *)
(* (attest/admit.go).  Each run makes a reservation in a directory the     *)
(* runs share: a file named by its pid, with its place in line and the     *)
(* memory it expects to need.  The run and the processes of its evaluation *)
(* hold a lock on the file, and a file nobody holds does not count.        *)
(***************************************************************************)
EXTENDS Integers, FiniteSets, FiniteSetsExt

CONSTANTS Pid, Estimate, Budget, None

VARIABLES
    reserved,   \* reserved[p]: the file named p, or None for no file
    held,       \* the files whose lock a process holds
    evaluating, \* the pids whose evaluation was admitted and has not ended
    orphaned    \* of those, the ones whose attest is dead

vars == <<reserved, held, evaluating, orphaned>>

Reservation == [order : Nat \ {0}, estimate : Estimate]

\* The files a scan finds held, and what the directory holds after it.
Live == {p \in Pid : reserved[p] # None /\ p \in held}
Swept == [p \in Pid |-> IF p \in Live THEN reserved[p] ELSE None]

\* The live reservations made before p's.
Ahead(p) == {q \in Live : reserved[q].order < reserved[p].order}
Memory(S) == MapThenSumSet(LAMBDA p : reserved[p].estimate, S)

\* fits: what was reserved before it fits the budget beside it, or nothing
\* was.
Fits(p) == Ahead(p) = {} \/ Memory(Ahead(p) \cup {p}) <= Budget

Init ==
    /\ reserved = [p \in Pid |-> None]
    /\ held = {} /\ evaluating = {} /\ orphaned = {}

\* A run makes its reservation, last in line.  A file under its own pid that
\* an evaluation still holds is left alone, and the run fails.
Reserve(p, e) ==
    /\ p \notin held
    /\ LET o == Max({0} \cup {reserved[q].order : q \in Live}) + 1
       IN  reserved' = [Swept EXCEPT ![p] = [order |-> o, estimate |-> e]]
    /\ held' = held \cup {p}
    /\ UNCHANGED <<evaluating, orphaned>>

Admit(p) ==
    /\ p \in Live \ evaluating /\ Fits(p)
    /\ reserved' = Swept
    /\ evaluating' = evaluating \cup {p}
    /\ UNCHANGED <<held, orphaned>>

\* The evaluation ended, or the line could not be read.
Release(p) ==
    /\ p \in held \ orphaned
    /\ reserved' = [reserved EXCEPT ![p] = None]
    /\ held' = held \ {p} /\ evaluating' = evaluating \ {p}
    /\ UNCHANGED orphaned

\* Mutant: the processes of the evaluation do not inherit the locked file.
Die_NotInherited(p) ==
    /\ p \in held \ orphaned
    /\ held' = held \ {p}
    /\ \/ evaluating' = evaluating \ {p} /\ UNCHANGED orphaned
       \/ p \in evaluating /\ orphaned' = orphaned \cup {p} /\ UNCHANGED evaluating
    /\ UNCHANGED reserved

\* The run is killed.  The processes of its evaluation are killed with it,
\* at once or a moment later, and the file stays until a scan removes it.
Die(p) ==
    /\ p \in held \ orphaned
    /\ \/ held' = held \ {p} /\ evaluating' = evaluating \ {p} /\ UNCHANGED orphaned
       \/ p \in evaluating /\ orphaned' = orphaned \cup {p} /\ UNCHANGED <<held, evaluating>>
    /\ UNCHANGED reserved

Drop(p) ==
    /\ p \in orphaned
    /\ held' = held \ {p} /\ evaluating' = evaluating \ {p} /\ orphaned' = orphaned \ {p}
    /\ UNCHANGED reserved

Next == \E p \in Pid : \/ \E e \in Estimate : Reserve(p, e)
                       \/ Admit(p) \/ Release(p) \/ Die(p) \/ Drop(p)

\* fits, over the evaluations that run and not only those ahead of one: each
\* has its reservation, and what they reserved together is within the budget,
\* or one runs alone.
MemoryHeld ==
    /\ \A p \in evaluating : reserved[p] # None
    /\ Cardinality(evaluating) <= 1 \/ Memory(evaluating) <= Budget
=============================================================================
