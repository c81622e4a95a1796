------------------------------ MODULE PushHook ------------------------------
(***************************************************************************)
(* Pushes to the change records and restack reports of a hosted repository *)
(* (valleyhook/main.go, record.go, report.go).                             *)
(*                                                                         *)
(* git runs the pre-receive hook over the updates of one push and, once it *)
(* accepts them, moves the refs one by one, each only if it still has the  *)
(* value the push named.  Nothing serializes two pushes: between a hook's  *)
(* reads and the moves of its push, other pushes read and move refs.       *)
(*                                                                         *)
(* A record ref holds the whole history of its change, since each record   *)
(* commit has the one it replaces as its first parent: its value is the    *)
(* sequence of its record commits, and a ref that does not exist is <<>>.  *)
(* Objects never change, so it does not matter when a hook reads one: a    *)
(* hook's reads of refs are steps, its reads of objects are not.           *)
(***************************************************************************)
EXTENDS Integers, Sequences, FiniteSets

CONSTANTS
    Principal,      \* the named principals, one push of each at a time
    Approver,       \* who holds the approve grant
    Restacker,      \* who holds the restack grant
    Change,         \* change IDs
    Heads,          \* the commits a version may name
    Branch,         \* the branches a version may name
    None,           \* no second parent, or no record
    MaxSeq,         \* MaxSeq: record updates in a change's life
    MaxUpdates,     \* maxRecordUpdates: record updates in one push
    MaxRecords,     \* maxRecords: records a repository may hold
    MaxReports      \* bound: restack reports of one change

State == {"ready", "draft", "withdrawn"}
Version == [head : Heads, branch : Branch, uploader : Principal]

ASSUME ConstantsAssumption ==
    /\ Principal # {} /\ IsFiniteSet(Principal)
    /\ Approver \subseteq Principal /\ Restacker \subseteq Principal
    /\ None \notin Heads \cup [owner : Principal, state : State, versions : Seq(Version)]
    /\ MaxSeq \in Nat \ {0} /\ MaxUpdates \in Nat \ {0} /\ MaxRecords \in Nat
    /\ MaxReports \in Nat

\* record.json as change.Parse admits it.  Versions are numbered by place.
Record == {r \in [owner : Principal, state : State, seq : 1..MaxSeq,
                  versions : Seq(Version), active : Nat] : r.active \in 1..Len(r.versions)}

\* A record commit: its record, and its parent beside the one it replaces.
Commit == [record : Record, head : Heads \cup {None}]

VARIABLES
    record,     \* record[c]: the history of c's record, or <<>>
    report,     \* report[c]: how many restack reports c's report ref holds
    push        \* push[p]: the push of p that git is working on

\* History variable: nothing reads it but the properties.
VARIABLE
    recorded    \* the changes that have had a record

vars == <<record, report, push, recorded>>

RecordUpdate == [change : Change, old : Seq(Commit), new : Seq(Commit)]
ReportUpdate == [change : Change, old : Nat, new : Nat]

Push == [stage : {"none", "counted", "accepted"},
         records : SUBSET RecordUpdate, reports : SUBSET ReportUpdate]
NoPush == [stage |-> "none", records |-> {}, reports |-> {}]

Init ==
    /\ record = [c \in Change |-> <<>>]
    /\ report = [c \in Change |-> 0]
    /\ push = [p \in Principal |-> NoPush]
    /\ recorded = {}

-----------------------------------------------------------------------------
(***************************************************************************)
(* What the hook decides from the objects a push names.                    *)
(***************************************************************************)

Newest(s) == s[Len(s)]
Onto(s) == SubSeq(s, 1, Len(s) - 1)
ActiveVersion(r) == r.versions[r.active]

MayUpdate(p, r) == p = r.owner \/ p \in Approver

\* The create row: new is one commit, whose parent is its version's head.
CheckCreate(p, new) ==
    LET r == new[1].record IN
    /\ Len(new) = 1
    /\ Len(r.versions) = 1
    /\ r.versions[1].head = new[1].head
    /\ r.versions[1].uploader = p /\ r.owner = p
    /\ r.seq = 1 /\ r.active = 1 /\ r.state = "ready"

\* The unready, re-ready and withdraw rows.
CheckStateChange(before, after) ==
    /\ after.state # before.state
    /\ ~(before.state = "withdrawn" /\ after.state = "draft")
    /\ after.seq = before.seq + 1
    /\ after.owner = before.owner
    /\ after.active = before.active
    /\ after.versions = before.versions

\* Mutant: the new version's head is not held to the commit's parent.
CheckNewVersion_AnyHead(p, before, after, h) ==
    LET v == Newest(after.versions) IN
    /\ Len(after.versions) = Len(before.versions) + 1
    /\ SubSeq(after.versions, 1, Len(before.versions)) = before.versions
    /\ v.head # ActiveVersion(before).head
    /\ v.uploader = p
    /\ after.active = Len(after.versions)
    /\ after.state = "ready"
    /\ after.seq = before.seq + 1
    /\ after.owner = before.owner

\* Mutant: the new version may be the active one again.
CheckNewVersion_SameHead(p, before, after, h) ==
    LET v == Newest(after.versions) IN
    /\ Len(after.versions) = Len(before.versions) + 1
    /\ SubSeq(after.versions, 1, Len(before.versions)) = before.versions
    /\ v.head = h
    /\ v.uploader = p
    /\ after.active = Len(after.versions)
    /\ after.state = "ready"
    /\ after.seq = before.seq + 1
    /\ after.owner = before.owner

\* The new version row.
CheckNewVersion(p, before, after, h) ==
    LET v == Newest(after.versions) IN
    /\ Len(after.versions) = Len(before.versions) + 1
    /\ SubSeq(after.versions, 1, Len(before.versions)) = before.versions
    /\ v.head = h /\ v.head # ActiveVersion(before).head
    /\ v.uploader = p
    /\ after.active = Len(after.versions)
    /\ after.state = "ready"
    /\ after.seq = before.seq + 1
    /\ after.owner = before.owner

\* The restack row, past the new version row.
CheckRestack(before, after) == Newest(after.versions).branch = ActiveVersion(before).branch

\* Mutant: the new commit need not have the one it replaces as its parent.
CheckUpdate_AnyParent(p, old, new) ==
    LET before == Newest(old).record
        after == Newest(new).record
        restack == ~MayUpdate(p, before)
    IN  /\ restack => p \in Restacker /\ before.state = "ready"
        /\ IF Newest(new).head = None THEN ~restack /\ CheckStateChange(before, after)
           ELSE /\ CheckNewVersion(p, before, after, Newest(new).head)
                /\ restack => CheckRestack(before, after)

\* The rows after create.  The row is read from the parents of the new
\* commit; a principal that may only restack is held to the restack row.
CheckUpdate(p, old, new) ==
    LET before == Newest(old).record
        after == Newest(new).record
        restack == ~MayUpdate(p, before)
    IN  /\ restack => p \in Restacker /\ before.state = "ready"
        /\ Onto(new) = old
        /\ IF Newest(new).head = None THEN ~restack /\ CheckStateChange(before, after)
           ELSE /\ CheckNewVersion(p, before, after, Newest(new).head)
                /\ restack => CheckRestack(before, after)

Creates(u) == u.old = <<>> /\ u.new # <<>>

\* Who may write a record, and what.
CheckRecord(p, u) ==
    \/ u.old # <<>> /\ u.new = <<>> /\ p \in Approver
    \/ Creates(u) /\ CheckCreate(p, u.new)
    \/ u.old # <<>> /\ u.new # <<>> /\ CheckUpdate(p, u.old, u.new)

\* A report has the one it replaces as its one parent.
CheckReport(p, u) == p \in Restacker /\ u.new = u.old + 1

-----------------------------------------------------------------------------
(***************************************************************************)
(* A push.                                                                 *)
(***************************************************************************)

\* The records a client may write over old: any near it, right or wrong.
Near(p, old) ==
    LET owners == {p} \cup {old[i].record.owner : i \in 1..Len(old)}
        versions == IF old = <<>> THEN <<>> ELSE Newest(old).record.versions
        longer == {Append(versions, v) : v \in [head : Heads, branch : Branch, uploader : owners]}
        seq == IF old = <<>> THEN 0 ELSE Newest(old).record.seq
    IN  {r \in [owner : owners, state : State, seq : {seq, seq + 1} \cap 1..MaxSeq,
                versions : longer \cup {versions}, active : {Len(versions), Len(versions) + 1}] :
            r.active \in 1..Len(r.versions)}

\* The record updates p may push to c, by the value c has when p reads it: a
\* deletion, or a commit of any of those records on any parents.
Offers(p, c) == {record[c], <<>>} \X Near(p, record[c]) \X (Heads \cup {None})
Update(c, onto, r, h) ==
    [change |-> c, old |-> record[c], new |-> Append(onto, [record |-> r, head |-> h])]
Removal(c) == [change |-> c, old |-> record[c], new |-> <<>>]

\* Those the hook takes.
AdmittedTo(p, c) ==
    {Update(c, o[1], o[2], o[3]) :
        o \in {w \in Offers(p, c) : CheckRecord(p, Update(c, w[1], w[2], w[3]))}}
    \cup {u \in {Removal(c)} : CheckRecord(p, u)}
Admitted(p) == UNION {AdmittedTo(p, c) : c \in Change}

ReportOffers == {[change |-> c, old |-> report[c], new |-> n] : c \in Change, n \in 1..MaxReports}

\* The sets of at most MaxUpdates of S, one update of each change.
Batches(S) ==
    {R \in {{}} \cup {{f[i] : i \in 1..MaxUpdates} : f \in [1..MaxUpdates -> S]} :
        \A u, v \in R : u.change = v.change => u = v}

Held == {c \in Change : record[c] # <<>>}
New(records) == {u \in records : Creates(u)}

\* Mutant: only the records already held are counted.
WithinBound_HeldOnly(records) == New(records) = {} \/ Cardinality(Held) <= MaxRecords

\* The bound on the records a repository holds, by the count read now.
WithinBound(records) ==
    New(records) = {} \/ Cardinality(Held) + Cardinality(New(records)) <= MaxRecords

\* p pushes, and the hook counts the records and judges the record updates.
\* A refused push changes nothing.
Receive(p) ==
    /\ push[p].stage = "none"
    /\ \E records \in Batches(Admitted(p)),
         reports \in {{}} \cup {{u} : u \in ReportOffers} :
        /\ records # {} \/ reports # {}
        /\ WithinBound(records)
        /\ \A u \in reports : CheckReport(p, u)
        /\ push' = [push EXCEPT ![p] =
                       [stage |-> "counted", records |-> records, reports |-> reports]]
    /\ UNCHANGED <<record, report, recorded>>

\* Mutant: a report of any change is taken.
HasRecord_Any(c) == TRUE

\* hasRecord(): the repository holds a record of the report's change.
HasRecord(c) == record[c] # <<>>

\* The hook comes to the restack reports, and then git takes over.
Accept(p) ==
    /\ push[p].stage = "counted"
    /\ push' = [push EXCEPT ![p] = IF \A u \in @.reports : HasRecord(u.change)
                                   THEN [@ EXCEPT !.stage = "accepted"] ELSE NoPush]
    /\ UNCHANGED <<record, report, recorded>>

Rest(p, rest) == push' = [push EXCEPT ![p] = IF rest.records = {} /\ rest.reports = {}
                                             THEN NoPush ELSE rest]

\* git moves one ref of the push, or fails to where it was moved since.
InstallRecord(p) ==
    /\ push[p].stage = "accepted"
    /\ \E u \in push[p].records :
        /\ IF record[u.change] = u.old
           THEN /\ record' = [record EXCEPT ![u.change] = u.new]
                /\ recorded' = recorded \cup {u.change}
           ELSE UNCHANGED <<record, recorded>>
        /\ Rest(p, [push[p] EXCEPT !.records = @ \ {u}])
    /\ UNCHANGED report

InstallReport(p) ==
    /\ push[p].stage = "accepted"
    /\ \E u \in push[p].reports :
        /\ report' = IF report[u.change] = u.old THEN [report EXCEPT ![u.change] = u.new] ELSE report
        /\ Rest(p, [push[p] EXCEPT !.reports = @ \ {u}])
    /\ UNCHANGED <<record, recorded>>

\* The connection or the host dies: what was not moved stays where it was.
Abort(p) ==
    /\ push[p].stage # "none"
    /\ push' = [push EXCEPT ![p] = NoPush]
    /\ UNCHANGED <<record, report, recorded>>

Next == \E p \in Principal :
    Receive(p) \/ Accept(p) \/ InstallRecord(p) \/ InstallReport(p) \/ Abort(p)

Spec == Init /\ [][Next]_vars
-----------------------------------------------------------------------------
(***************************************************************************)
(* Properties.                                                             *)
(***************************************************************************)

TypeOK ==
    /\ record \in [Change -> Seq(Commit)] /\ report \in [Change -> Nat]
    /\ push \in [Principal -> Push] /\ recorded \subseteq Change

\* A record's seq is its place in the history of its change, whichever
\* pushes raced for it: none is lost, repeated or built beside another.
SeqIsPlace ==
    \A c \in Change : \A i \in 1..Len(record[c]) : record[c][i].record.seq = i

\* A record ref holds on to every head its change was ever ready at, and the
\* active version is the newest.
HeadsHeld ==
    \A c \in Change : record[c] # <<>> =>
        LET r == Newest(record[c]).record IN
        /\ {v.head : v \in {r.versions[i] : i \in 1..Len(r.versions)}}
                \subseteq {record[c][i].head : i \in 1..Len(record[c])}
        /\ r.active = Len(r.versions)

\* No change that never had a record has a restack report.
ReportsOfRecorded == \A c \in Change : report[c] > 0 => c \in recorded

\* The records are more than the bound by no more than what the pushes
\* beside one another had in flight.
RecordsBounded == Cardinality(Held) <= MaxRecords + (Cardinality(Principal) - 1) * MaxUpdates

\* Each record moves as the lifecycle of its change allows, by a principal
\* that may, though its push was judged before others moved refs.
change == [c \in Change |->
    IF record[c] = <<>> THEN None
    ELSE LET r == Newest(record[c]).record
         IN  [owner |-> r.owner, state |-> r.state, versions |-> r.versions]]
Lifecycle == INSTANCE ChangeLifecycle WITH
    Principal <- Principal, Approver <- Approver, Restacker <- Restacker,
    Change <- Change, Heads <- Heads, Branch <- Branch, None <- None, change <- change
RecordsFollowLifecycle == Lifecycle!Spec
=============================================================================
