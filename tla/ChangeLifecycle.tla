--------------------------- MODULE ChangeLifecycle ---------------------------
(***************************************************************************)
(* What a change record promises to whoever reads it: a change is created  *)
(* ready by its owner, is paused, given up and readied again, and takes    *)
(* versions, one at a time and only by whoever may; its versions are never *)
(* rewritten; and a record disappears only by an approver's hand.          *)
(***************************************************************************)
EXTENDS Naturals, Sequences

CONSTANTS Principal, Approver, Restacker, Change, Heads, Branch, None

VARIABLE change     \* change[c]: who owns c, its state and its versions, or None

Version == [head : Heads, branch : Branch, uploader : Principal]
State == {"ready", "draft", "withdrawn"}

Newest(c) == change[c].versions[Len(change[c].versions)]

Init == change = [c \in Change |-> None]

Create(p, c) ==
    /\ change[c] = None
    /\ \E v \in Version :
        /\ v.uploader = p
        /\ change' = [change EXCEPT ![c] =
                         [owner |-> p, state |-> "ready", versions |-> <<v>>]]

MayUpdate(p, c) == p = change[c].owner \/ p \in Approver

\* Paused, given up or readied again; what was given up is never paused.
SetState(p, c, s) ==
    /\ change[c] # None /\ MayUpdate(p, c)
    /\ s # change[c].state
    /\ change[c].state = "withdrawn" => s # "draft"
    /\ change' = [change EXCEPT ![c].state = s]

\* A new head makes the change ready.  Whoever may only restack adds it to
\* a change that is ready, and keeps the branch.
AddVersion(p, c) ==
    /\ change[c] # None
    /\ \E v \in Version :
        /\ v.uploader = p /\ v.head # Newest(c).head
        /\ \/ MayUpdate(p, c)
           \/ p \in Restacker /\ change[c].state = "ready" /\ v.branch = Newest(c).branch
        /\ change' = [change EXCEPT ![c] = [owner |-> @.owner, state |-> "ready",
                                            versions |-> Append(@.versions, v)]]

Delete(p, c) ==
    /\ change[c] # None /\ p \in Approver
    /\ change' = [change EXCEPT ![c] = None]

Next == \E p \in Principal, c \in Change :
    \/ Create(p, c) \/ AddVersion(p, c) \/ Delete(p, c)
    \/ \E s \in State : SetState(p, c, s)

Spec == Init /\ [][Next]_change
=============================================================================
