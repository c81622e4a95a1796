----------------------------- MODULE Restacker -----------------------------
(***************************************************************************)
(* The restacker: a pass that rebases each family of stacked changes onto  *)
(* main, moves its branches, adds a version to each change and files a     *)
(* report about each (restack/*.go, rebase/*.go).                          *)
(*                                                                         *)
(* What a pass intends is in a journal on disk before the first push.      *)
(* Every later step, in this pass or after a crash in the next, decides    *)
(* each write again from one read of origin.  Every push is leased on what *)
(* was read, and its answer may be lost.                                   *)
(*                                                                         *)
(* Main's tip is a number, given in order; `line' holds the tips main      *)
(* descends from.  A record ref and a report ref only grow, so a lease on  *)
(* one is its length.  Plain branches, the limits on a report's size and   *)
(* the evidence a request is judged on are left out, and so is the order   *)
(* the families of a journal have in its file: writes of different         *)
(* families are pushed in any order.                                       *)
(***************************************************************************)
EXTENDS Integers, Sequences, FiniteSets, SequencesExt

CONSTANTS
    Change,         \* change IDs; a branch is named for the change it began as
    Under,          \* Under[c]: the changes the change c was stacked on
    Uses,           \* Uses[c]: the branches c's author pushes it to
    Conflicts,      \* <<c, t>>: c conflicts when it is rebased onto main at t
    Empties,        \* <<c, t>>: c adds nothing once rebased onto main at t
    None,
    Cap,            \* restack.maxAutomaticVersions
    MaxSteps,       \* maxSteps: reads of origin in one settling
    MaxTip, MaxWork, MaxOps,    \* bounds: main's moves, reworkings, operations
    MaxMoves,       \* bound: moves of authors, the integrator and the host
    MaxFaults       \* bound: crashes, lost pushes and scratch repositories

ASSUME RestackerAssumption ==
    /\ None \notin Change /\ None \notin Nat \X SUBSET Change
    /\ None \notin [of : Change, tip : Nat, by : {None} \cup (Nat \X SUBSET Change),
                    work : UNION {[D -> Nat] : D \in SUBSET Change}, more : BOOLEAN]
    /\ Under \in [Change -> SUBSET Change]
    /\ \A c \in Change : c \notin Under[c] /\ \A d \in Under[c] : Under[d] \subseteq Under[c]
    /\ Uses \in [Change -> SUBSET Change] /\ \A c \in Change : c \in Uses[c]
    /\ Conflicts \subseteq Change \X Nat /\ Empties \subseteq Change \X Nat
    /\ Cap \in Nat \ {0} /\ MaxSteps \in Nat \ {0}
    /\ {MaxTip, MaxWork} \subseteq Nat \ {0} /\ {MaxOps, MaxMoves, MaxFaults} \subseteq Nat

VARIABLES
    tip, line,      \* main: its tip, and the tips it descends from
    branch,         \* branch[b]: the head origin's branch is at, or None
    record,         \* record[c]: the record ref's commits, <<>> for no ref
    report,         \* report[c]: the report ref's commits
    request,        \* request[c]: the head the request c-<ID> names, or None
    outcome,        \* outcome[c]: the head and tip it was judged stale at
    landed,         \* heads that have landed
    journal,        \* the journal file: the families still to be seen through
    retained,       \* the objects the scratch repository keeps refs to for it
    gone,           \* the journal's objects it no longer holds
    pass,           \* the memory of the running pass
    ops, moves, faults

\* History variables: nothing reads them but the properties.
VARIABLES
    pushed,         \* <<op, layers>>: families whose branch push origin took
    added,          \* <<op, c>>: versions of the restacker origin added
    touched,        \* <<op, c>>: changes others moved since op was named
    lost            \* whether a scratch repository was lost

origin == <<tip, line, branch, record, report, request, outcome, landed>>
local == <<journal, retained, gone, pass, ops>>
ghosts == <<pushed, added, touched, lost>>
vars == <<origin, local, moves, faults, ghosts>>

-----------------------------------------------------------------------------
(***************************************************************************)
(* Heads, records and families.                                            *)
(***************************************************************************)

\* A head of the change `of': it descends from main at `tip' through the
\* work of each change in the domain of `work', `more' says that commits
\* follow on top of it, and `by' is the rebase that put it on that tip: the
\* commits of each have their own committer times.
IsHead(h) ==
    /\ h \in [of : Change, tip : 0..MaxTip, by : {None} \cup ((1..MaxOps) \X SUBSET Change),
              work : UNION {[D -> 1..MaxWork] : D \in SUBSET Change}, more : BOOLEAN]
    /\ h.of \in DOMAIN h.work /\ DOMAIN h.work \subseteq Under[h.of] \cup {h.of}

\* Whether g is in the history of h.
Reaches(g, h) ==
    \/ g = h
    \/ /\ ~g.more /\ g.tip = h.tip /\ g.by = h.by
       /\ g.of \in Under[h.of] \cup {h.of}
       /\ g.work = Restrict(h.work, DOMAIN h.work \cap (Under[g.of] \cup {g.of}))

\* A record commit: the active version `n', its head and branch, the
\* change's state, and the restacker's operation that wrote it, or 0.
Commit(n, h, b, s, o) == [n |-> n, head |-> h, branch |-> b, state |-> s, op |-> o]
Recorded == {c \in Change : record[c] # <<>>}
Active(c) == Last(record[c])
VersionHeads(c) == {e.head : e \in Range(record[c])}

\* LandedAs: a change counts as landed once a version of it has landed.
Unlanded == {c \in Recorded : VersionHeads(c) \cap landed = {}}

\* Capture, Nest: the layers under c are the unlanded changes whose heads its
\* head strictly contains, and a family is every layer on one bottom.
Beneath(c) == {d \in Unlanded \ {c} : Reaches(Active(d).head, Active(c).head)}
Bottom(c) == IF Beneath(c) = {} THEN c
             ELSE CHOOSE d \in Beneath(c) : Beneath(d) = {}
FamilyOf(c) == {d \in Unlanded : Bottom(d) = Bottom(c)}
Families == {FamilyOf(c) : c \in Unlanded}

\* LandedUnder: what a landing took onto main is no longer the family's.
CutUnder(h) == UNION {DOMAIN g.work : g \in {k \in landed : Reaches(k, h)}}

\* Prepare: the head a layer is rebased to.
Prepared(h, by) == [of |-> h.of, tip |-> tip, by |-> by, more |-> h.more,
                    work |-> Restrict(h.work, DOMAIN h.work \ CutUnder(h))]

\* Family.Check: what the engine refuses before anything is rebased.
ForeignHead(L) ==
    \E c \in L, d \in Recorded : \E h \in VersionHeads(d) :
        /\ Reaches(h, Active(c).head)
        /\ ~ \E g \in landed : Reaches(g, Active(c).head) /\ Reaches(h, g)
        /\ d \notin Beneath(c) \cup {c} \/ Active(d).state # "ready"
Refused(L) ==
    \/ \E c \in L : Active(c).state # "ready" \/ branch[Active(c).branch] # Active(c).head
    \/ \E c, d \in L : c # d /\ Active(c).branch = Active(d).branch
    \/ ForeignHead(L)

\* CapacityOf: the versions the restacker may add to one change.
Full(c) == Cardinality({e.n : e \in {x \in Range(record[c]) : x.op # 0}}) >= Cap

\* Relate, Currency: the requests that might still land one of the heads, by
\* name, by head or by a range that holds one.  A current stale outcome
\* releases.  Each is given with the head it names.
Holding(L, heads) ==
    LET related == {n \in Change : request[n] # None
                        /\ (n \in L \/ \E h \in heads : Reaches(h, request[n]))}
    IN  [n \in {m \in related : outcome[m] # [head |-> request[m], tip |-> tip]} |-> request[n]]

-----------------------------------------------------------------------------
(***************************************************************************)
(* The journal.                                                            *)
(***************************************************************************)

\* A report: what the attempt observed, its result, and what became of each
\* change.  The operation is not part of what it says (sameReport).
Says(r) == [tip |-> r.tip, saw |-> r.saw, result |-> r.result,
            said |-> r.said, held |-> r.held]
SaysAlready(c, r) == report[c] # <<>> /\ Says(Last(report[c])) = Says(r)

\* A family: each layer as observed, the heads prepared for the layers (none
\* for a family that is not restacked), its report and the changes that are
\* to have it, each with the report ref's lease, and the replacements.
Layers(f) == DOMAIN f.saw
Name(f) == <<f.op, Layers(f)>>
Restacks(f) == DOMAIN f.new # {}
Keys(f) == {<<"change", c>> : c \in Layers(f)} \cup {<<"branch", f.saw[c].branch>> : c \in Layers(f)}

\* The objects its writes would push, by the refs that keep them.
Objects(f) ==
    {<<f.op, "head", c>> : c \in DOMAIN f.new} \cup {<<f.op, "version", c>> : c \in DOMAIN f.new}
    \cup {<<f.op, "report", c>> : c \in DOMAIN f.reports}
    \cup {<<f.op, "happened", c, f.happened[c].report.said>> : c \in DOMAIN f.happened}
ObjectsOf(j) == UNION {Objects(f) : f \in j}

\* Journal.check: no two families share a change or a branch.
Agrees(j) == \A f, g \in j : f # g => Keys(f) \cap Keys(g) = {}

-----------------------------------------------------------------------------
(***************************************************************************)
(* Recovery: what one read of origin decides about each write of a family. *)
(* A stop is for good; a write that waits is for a later pass.             *)
(***************************************************************************)

\* What origin shows it took, now or by its history.
TookBranch(f, c) == LET at == branch[f.saw[c].branch] IN at # None /\ Reaches(f.new[c], at)
TookVersion(f, c) ==
    LET k == f.saw[c].old + 1 IN Len(record[c]) >= k /\ record[c][k].op = f.op
TookReport(c, p) == LET k == p.old + 1 IN Len(report[c]) >= k /\ report[c][k] = p.report

Has(f, kind, c) == <<f.op, kind, c>> \notin gone
RecordMoved(f, c) == Len(record[c]) # f.saw[c].old

\* A captured version that landed, which is stopped for good.
Submitted(f) == \E c \in DOMAIN f.new : f.saw[c].head \in landed
HeadsOf(f) == UNION {f.saw[c].heads \cup {f.new[c]} : c \in DOMAIN f.new}
Held(f) == Holding(DOMAIN f.new, HeadsOf(f)) # <<>>

\* `known' is whether git told if main descends from the captured tip.
BranchPush(f, known) ==
    CASE ~Restacks(f) -> "none"
      [] Restacks(f) /\ (f.moved \/ \E c \in Layers(f) : TookBranch(f, c)) -> "done"
      [] OTHER ->
           IF \E c \in Layers(f) : branch[f.saw[c].branch] # f.saw[c].head \/ ~Has(f, "head", c) THEN "stop"
           ELSE IF ~known THEN "wait"
           ELSE IF f.tip # tip \/ Submitted(f) \/ \E c \in Layers(f) : RecordMoved(f, c) THEN "stop"
           ELSE IF Held(f) THEN "wait" ELSE "finish"

\* Mutant: a record that moved is left to the lease of its push.
Version_RecordUnread(f, c, known) ==
    LET branches == BranchPush(f, known) IN
    IF TookVersion(f, c) \/ c \in f.added THEN "done"
    ELSE IF ~Has(f, "version", c) THEN "stop"
    ELSE IF branches \in {"stop", "wait"} THEN branches
    ELSE IF ~known THEN "wait"
    ELSE IF f.tip \notin line \/ Submitted(f) THEN "stop"
    ELSE IF branches = "finish" THEN "finish"
    ELSE IF branch[f.saw[c].branch] # f.new[c] THEN "stop"
    ELSE IF Held(f) THEN "wait" ELSE "finish"
Version(f, c, known) ==
    LET branches == BranchPush(f, known) IN
    IF TookVersion(f, c) \/ c \in f.added THEN "done"
    ELSE IF RecordMoved(f, c) \/ ~Has(f, "version", c) THEN "stop"
    ELSE IF branches \in {"stop", "wait"} THEN branches
    ELSE IF ~known THEN "wait"
    ELSE IF f.tip \notin line \/ Submitted(f) THEN "stop"
    ELSE IF branches = "finish" THEN "finish"
    ELSE IF branch[f.saw[c].branch] # f.new[c] THEN "stop"
    ELSE IF Held(f) THEN "wait" ELSE "finish"

\* whatHappened: the report of a family whose branches moved.
Happened(f, known) ==
    LET became(c) == CASE Version(f, c, known) = "done" -> "added"
                       [] Version(f, c, known) = "stop" -> "stopped"
                       [] OTHER -> "paused"
        said == [c \in Layers(f) |-> became(c)]
    IN  [f.report EXCEPT !.said = said,
            !.result = IF \A c \in Layers(f) : said[c] = "added" THEN "complete" ELSE "partial"]

\* Mutant: a report is pushed whatever becomes of the versions it claims.
Report_Unconditional(f, c, known) ==
    LET p == [old |-> f.reports[c], report |-> f.report] IN
    IF TookReport(c, p) \/ (record[c] # <<>> /\ SaysAlready(c, f.report)) THEN "done"
    ELSE IF record[c] = <<>> \/ Len(report[c]) # p.old \/ ~Has(f, "report", c) THEN "stop"
    ELSE "finish"
\* A report is pushed while what it claims was published can still be.
Report(f, c, known) ==
    LET p == [old |-> f.reports[c], report |-> f.report]
        halted(d) == BranchPush(f, known) \in {"stop", "wait"} \/ Version(f, d, known) \in {"stop", "wait"}
    IN  IF TookReport(c, p) \/ (record[c] # <<>> /\ SaysAlready(c, f.report)) THEN "done"
        ELSE IF \/ record[c] = <<>> \/ Len(report[c]) # p.old \/ ~Has(f, "report", c)
                \/ \E d \in DOMAIN f.new : halted(d) THEN "stop"
        ELSE "finish"

\* A replacement is pushed while it still says what happened.
Replacement(f, c, known) ==
    LET p == f.happened[c] IN
    IF TookReport(c, p) \/ (record[c] # <<>> /\ SaysAlready(c, p.report)) THEN "done"
    ELSE IF \/ record[c] = <<>> \/ Len(report[c]) # p.old
            \/ <<f.op, "happened", c, p.report.said>> \in gone
            \/ Happened(f, known) # p.report THEN "stop"
    ELSE "finish"

\* Mutant: a version that waits does not keep its family in the journal.
IsOpen_Paused(f, known) ==
    \/ BranchPush(f, known) = "finish"
    \/ \E c \in DOMAIN f.reports : Report(f, c, known) = "finish"
    \/ \E c \in DOMAIN f.happened : Replacement(f, c, known) = "finish"
    \/ \E c \in DOMAIN f.new : Version(f, c, known) = "finish"
\* isOpen: a write still to finish, or a version neither added nor stopped
\* once the branches moved.
IsOpen(f, known) ==
    \/ BranchPush(f, known) = "finish"
    \/ \E c \in DOMAIN f.reports : Report(f, c, known) = "finish"
    \/ \E c \in DOMAIN f.happened : Replacement(f, c, known) = "finish"
    \/ \E c \in DOMAIN f.new : \/ Version(f, c, known) = "finish"
                               \/ BranchPush(f, known) = "done" /\ Version(f, c, known) = "wait"

\* Mutant: the versions origin took are kept as accepted, its branches not.
Confirmed_VersionsOnly(f, known) ==
    [f EXCEPT !.added = {c \in DOMAIN f.new : Version(f, c, known) = "done"}]
\* confirm: what the read showed origin took is kept as accepted.
Confirmed(f, known) ==
    IF BranchPush(f, known) # "done" THEN f
    ELSE [f EXCEPT !.moved = TRUE, !.added = {c \in DOMAIN f.new : Version(f, c, known) = "done"}]

\* pushed: the writes of the first phase with one still to finish.
Phase(f, known) ==
    LET versions == {c \in DOMAIN f.new : Version(f, c, known) = "finish"}
        reports == {c \in DOMAIN f.reports : Report(f, c, known) = "finish"}
        replaced == {c \in DOMAIN f.happened : Replacement(f, c, known) = "finish"}
    IN  IF BranchPush(f, known) = "finish" THEN {<<"branches", None>>}
        ELSE IF versions # {} THEN {"version"} \X versions
        ELSE ({"report"} \X reports) \cup ({"happened"} \X replaced)

\* Mutant: a family all of whose versions were added has no report replaced.
Replaced_Partial(f, known) ==
    LET now == Happened(f, known)
        needed == {c \in Layers(f) : record[c] # <<>> /\ ~SaysAlready(c, now)}
    IN  IF BranchPush(f, known) # "done" \/ now.result = "complete" THEN f
        ELSE [f EXCEPT !.happened = [c \in needed \cup DOMAIN @ |->
                 IF c \in needed THEN [old |-> Len(report[c]), report |-> now] ELSE @[c]]]
\* replace: a report of what did happen for each change whose report on
\* origin says otherwise.
Replaced(f, known) ==
    LET now == Happened(f, known)
        needed == {c \in Layers(f) : record[c] # <<>> /\ ~SaysAlready(c, now)}
    IN  IF BranchPush(f, known) # "done" THEN f
        ELSE [f EXCEPT !.happened = [c \in needed \cup DOMAIN @ |->
                 IF c \in needed THEN [old |-> Len(report[c]), report |-> now] ELSE @[c]]]

-----------------------------------------------------------------------------
(***************************************************************************)
(* The plan.                                                               *)
(***************************************************************************)

Observed(c) == [old |-> Len(record[c]), head |-> Active(c).head,
                branch |-> Active(c).branch, heads |-> VersionHeads(c)]

\* judge: whether a family is left, current, restacked or held.
Judge(L) ==
    LET heads == UNION {VersionHeads(c) : c \in L}
        bottom == CHOOSE c \in L : Beneath(c) = {}
    IN  IF \A c \in L : Active(c).state # "ready" THEN "leave"
        ELSE IF Active(bottom).head.tip = tip THEN "current"
        ELSE IF Refused(L) \/ Holding(L, heads) # <<>> \/ \E c \in L : Full(c) THEN "hold"
        ELSE "restack"

\* reportedConflict, Current: every change has a report of a conflict, and
\* main, the records, the branches and the requests are where it saw them.
ReportedConflict(L) ==
    \A c \in L :
        /\ report[c] # <<>>
        /\ LET r == Last(report[c]) IN
           /\ r.result = "conflict" /\ r.tip = tip
           /\ \A d \in DOMAIN r.saw : record[d] # <<>> /\ Observed(d) = r.saw[d]
                                      /\ branch[r.saw[d].branch] = r.saw[d].head
           /\ \A n \in DOMAIN r.held : request[n] = r.held[n]

\* A family's writes, prepared and built but not pushed.
Built(L, o) ==
    LET held == Judge(L) = "hold"
        result == IF held \/ \E c \in L : <<c, tip>> \in Empties \ Conflicts THEN "blocked"
                  ELSE IF \E c \in L : <<c, tip>> \in Conflicts THEN "conflict" ELSE "complete"
        new == [c \in IF result = "complete" THEN L ELSE {} |-> Prepared(Active(c).head, <<o, L>>)]
        saw == [c \in L |-> Observed(c)]
        r == [op |-> o, tip |-> tip, result |-> result, saw |-> saw,
              said |-> [c \in L |-> IF result = "complete" THEN "added" ELSE "none"],
              held |-> IF held THEN Holding(L, UNION {saw[c].heads : c \in L}) ELSE <<>>]
    IN  [op |-> o, tip |-> tip, saw |-> saw, new |-> new, report |-> r,
         reports |-> [c \in {d \in L : ~SaysAlready(d, r)} |-> Len(report[c])],
         happened |-> <<>>, moved |-> FALSE, added |-> {}]

\* The families a pass writes for: those it would restack or holds, less the
\* ones that share a change or a branch with a family of the journal (waits)
\* or with each other (overlapping).
LayerKeys(L) == {<<"change", c>> : c \in L} \cup {<<"branch", Active(c).branch>> : c \in L}
\* Mutant: a family of the journal does not keep a new one waiting.
Planned_Beside(j) ==
    LET ours == {L \in Families : Judge(L) \in {"restack", "hold"}}
        alone == {L \in ours : \A M \in ours \ {L} : LayerKeys(L) \cap LayerKeys(M) = {}}
    IN  {L \in alone : ~(Judge(L) = "restack" /\ ReportedConflict(L))}
Planned(j) ==
    LET ours == {L \in Families : /\ Judge(L) \in {"restack", "hold"}
                                  /\ \A f \in j : Keys(f) \cap LayerKeys(L) = {}}
        alone == {L \in ours : \A M \in ours \ {L} : LayerKeys(L) \cap LayerKeys(M) = {}}
    IN  {L \in alone : ~(Judge(L) = "restack" /\ ReportedConflict(L))}

NewFamilies(j, o) ==
    {f \in {Built(L, o) : L \in Planned(j)} : Restacks(f) \/ DOMAIN f.reports # {}}

-----------------------------------------------------------------------------
(***************************************************************************)
(* A write pass.                                                           *)
(***************************************************************************)

IdlePass == [pc |-> "idle", then |-> "idle", step |-> 0, mem |-> {}, todo |-> {},
             next |-> {}, busy |-> {}, open |-> {}, planned |-> FALSE]

\* A pass that is over keeps nothing.
Goto(at, p) == IF at = "idle" THEN IdlePass ELSE [p EXCEPT !.pc = at]

\* The pass takes the lock and loads the journal (writeOnce).
Start ==
    /\ pass.pc = "idle"
    /\ pass' = [IdlePass EXCEPT !.mem = journal, !.pc = IF journal = {} THEN "plan" ELSE "read"]
    /\ UNCHANGED <<origin, journal, retained, gone, ops, moves, faults, ghosts>>

\* Mutant: what the new journal does not name is let go before it is written.
KeepObjects_LettingGo ==
    /\ pass.pc = "retain" /\ Agrees(pass.mem) /\ ObjectsOf(pass.mem) \cap gone = {}
    /\ retained' = ObjectsOf(pass.mem)
    /\ pass' = [pass EXCEPT !.pc = "write"]
    /\ UNCHANGED <<origin, journal, gone, ops, moves, faults, ghosts>>
\* keep: the objects are kept before the journal names them, and let go only
\* once it no longer does.  git refuses a ref to an object that is gone.
KeepObjects ==
    /\ pass.pc = "retain" /\ Agrees(pass.mem) /\ ObjectsOf(pass.mem) \cap gone = {}
    /\ retained' = retained \cup ObjectsOf(pass.mem)
    /\ pass' = [pass EXCEPT !.pc = "write"]
    /\ UNCHANGED <<origin, journal, gone, ops, moves, faults, ghosts>>
KeepFails ==
    /\ pass.pc = "retain" /\ ObjectsOf(pass.mem) \cap gone # {}
    /\ pass' = IdlePass
    /\ UNCHANGED <<origin, journal, retained, gone, ops, moves, faults, ghosts>>
WriteJournal ==
    /\ pass.pc = "write"
    /\ journal' = pass.mem
    /\ pass' = [pass EXCEPT !.pc = "letgo"]
    /\ UNCHANGED <<origin, retained, gone, ops, moves, faults, ghosts>>
LetGo ==
    /\ pass.pc = "letgo"
    /\ retained' = retained \cap ObjectsOf(pass.mem)
    /\ pass' = Goto(pass.then, pass)
    /\ UNCHANGED <<origin, journal, gone, ops, moves, faults, ghosts>>

\* One step of settle: a read of origin decides every write of the journal.
\* Of what the step does after, it fixes the pushes and the replacements.
Read(known) ==
    LET j == pass.mem
        sure(f) == Confirmed(f, known)
        tried == {f \in j : Phase(f, known) # {}}
        next(f) == IF f \in tried THEN sure(f) ELSE Replaced(sure(f), known)
    IN  /\ pass.pc = "read"
        /\ ~known => faults > 0
        /\ faults' = IF known THEN faults ELSE faults - 1
        /\ pass' = [pass EXCEPT !.mem = {sure(f) : f \in j}, !.next = {next(f) : f \in j},
                        !.todo = UNION {{[f |-> sure(f), kind |-> w[1], c |-> w[2]] :
                                            w \in Phase(f, known)} : f \in j},
                        !.busy = {Name(f) : f \in {g \in j : g \in tried \/ next(g) # sure(g)}},
                        !.open = {Name(f) : f \in {g \in j : IsOpen(g, known)}},
                        !.pc = IF {sure(f) : f \in j} = j THEN "push" ELSE "retain", !.then = "push"]
        \* The read fetches what origin holds of the journal's objects.
        /\ gone' = gone \ UNION {{<<f.op, "head", c>> : c \in {d \in DOMAIN f.new : TookBranch(f, d)}}
                                 \cup {<<f.op, "version", c>> : c \in {d \in DOMAIN f.new : TookVersion(f, d)}}
                                 : f \in j}
        /\ UNCHANGED <<origin, journal, retained, ops, moves, ghosts>>

\* The pushes of a step, each leased, the versions of lower layers first.
\* Origin may not take one whose lease holds, and the pass does not act on
\* the answer.
Turns(kind) == {w \in pass.todo :
    /\ pass.pc = "push" /\ w.kind = kind
    /\ kind # "checked" => \A v \in pass.todo : v.kind # "checked"
    /\ kind = "version" => \A v \in pass.todo : v.f = w.f => v.c \notin Under[w.c]}
Answered(w) == pass' = [pass EXCEPT !.todo = @ \ {w}]

\* Mutant: the branches are pushed without a lease.
PushBranches_Forced(w) ==
    LET f == w.f IN
    /\ branch' = [b \in Change |->
          IF \E c \in Layers(f) : f.saw[c].branch = b
          THEN f.new[CHOOSE c \in Layers(f) : f.saw[c].branch = b] ELSE branch[b]]
    /\ pushed' = pushed \cup {Name(f)}
    /\ Answered(w)
    /\ UNCHANGED <<tip, line, record, report, request, outcome, landed, journal,
                   retained, gone, ops, moves, faults, added, touched, lost>>
PushBranches(w) ==
    LET f == w.f IN
    /\ \A c \in Layers(f) : branch[f.saw[c].branch] = f.saw[c].head
    /\ branch' = [b \in Change |->
          IF \E c \in Layers(f) : f.saw[c].branch = b
          THEN f.new[CHOOSE c \in Layers(f) : f.saw[c].branch = b] ELSE branch[b]]
    /\ pushed' = pushed \cup {Name(f)}
    /\ Answered(w)
    /\ UNCHANGED <<tip, line, record, report, request, outcome, landed, journal,
                   retained, gone, ops, moves, faults, added, touched, lost>>

\* A restack's version reads the branch once more before its push.
CheckHead(w) ==
    /\ branch[w.f.saw[w.c].branch] = w.f.new[w.c]
    /\ pass' = [pass EXCEPT !.todo = (@ \ {w}) \cup {[w EXCEPT !.kind = "checked"]}]
    /\ UNCHANGED <<origin, journal, retained, gone, ops, moves, faults, ghosts>>
PushVersion(w) ==
    LET f == w.f  c == w.c IN
    /\ Len(record[c]) = f.saw[c].old
    /\ record' = [record EXCEPT ![c] =
          Append(@, Commit(Last(@).n + 1, f.new[c], f.saw[c].branch, "ready", f.op))]
    /\ added' = added \cup {<<f.op, c>>}
    /\ Answered(w)
    /\ UNCHANGED <<tip, line, branch, report, request, outcome, landed, journal,
                   retained, gone, ops, moves, faults, pushed, touched, lost>>

\* What a report's push writes, and where.
Filed(w) == IF w.kind = "report" THEN [old |-> w.f.reports[w.c], report |-> w.f.report]
            ELSE w.f.happened[w.c]
\* The hook takes no report about a change it does not record.
PushReport(w) ==
    /\ Len(report[w.c]) = Filed(w).old /\ record[w.c] # <<>>
    /\ report' = [report EXCEPT ![w.c] = Append(@, Filed(w).report)]
    /\ Answered(w)
    /\ UNCHANGED <<tip, line, branch, record, request, outcome, landed, journal,
                   retained, gone, ops, moves, faults, ghosts>>

\* A push whose lease is gone is refused; one whose lease holds may be.
Leased(w) ==
    LET f == w.f  c == w.c IN
    CASE w.kind = "branches" -> \A d \in Layers(f) : branch[f.saw[d].branch] = f.saw[d].head
      [] w.kind = "version" -> Len(record[c]) = f.saw[c].old /\ branch[f.saw[c].branch] = f.new[c]
      [] w.kind = "checked" -> Len(record[c]) = f.saw[c].old
      [] OTHER -> record[c] # <<>> /\ Len(report[c]) = Filed(w).old
NotTaken(w) ==
    /\ IF Leased(w) THEN faults > 0 /\ faults' = faults - 1 ELSE UNCHANGED faults
    /\ Answered(w)
    /\ UNCHANGED <<origin, journal, retained, gone, ops, moves, ghosts>>

\* replace: the replacements are kept before any is pushed.
Replace ==
    /\ pass.pc = "push" /\ pass.todo = {}
    /\ pass' = [pass EXCEPT !.mem = pass.next, !.then = "decide",
                    !.pc = IF pass.next = pass.mem THEN "decide" ELSE "retain"]
    /\ gone' = IF pass.next = pass.mem THEN gone ELSE {o \in gone : o[2] # "happened"}
    /\ UNCHANGED <<origin, journal, retained, ops, moves, faults, ghosts>>

After == IF pass.planned THEN "idle" ELSE "plan"
Again ==
    /\ pass.pc = "decide" /\ pass.busy # {} /\ pass.step < MaxSteps - 1
    /\ pass' = [pass EXCEPT !.pc = "read", !.step = @ + 1]
    /\ UNCHANGED <<origin, journal, retained, gone, ops, moves, faults, ghosts>>

\* retire: each family that is neither busy nor open is let go, and the
\* journal with the last of them (forget).
Retire ==
    LET mem == {f \in pass.mem : Name(f) \in pass.busy \cup pass.open}
    IN  /\ pass.pc = "decide" /\ (pass.busy = {} \/ pass.step = MaxSteps - 1)
        /\ pass' = Goto(IF mem = {} THEN "letgo" ELSE IF mem = pass.mem THEN After ELSE "retain",
                        [pass EXCEPT !.mem = mem, !.then = After])
        /\ journal' = IF mem = {} THEN {} ELSE journal
        /\ UNCHANGED <<origin, retained, gone, ops, moves, faults, ghosts>>

\* The second half of a pass: plan, build, keep, and settle again.
Plan ==
    LET new == NewFamilies(pass.mem, ops + 1) IN
    /\ pass.pc = "plan"
    /\ IF new = {} \/ ops = MaxOps
       THEN pass' = IdlePass /\ UNCHANGED ops
       ELSE /\ ops' = ops + 1
            /\ pass' = [pass EXCEPT !.mem = @ \cup new, !.pc = "retain", !.then = "read",
                            !.step = 0, !.planned = TRUE]
    /\ UNCHANGED <<origin, journal, retained, gone, moves, faults, ghosts>>

\* A crash, a read that fails or a context that is done: what the pass held
\* in memory is gone, and the lock with it.
Fail ==
    /\ pass.pc # "idle" /\ faults > 0
    /\ faults' = faults - 1 /\ pass' = IdlePass
    /\ UNCHANGED <<origin, journal, retained, gone, ops, moves, ghosts>>

\* scratchRepo makes the scratch repository again when it is missing.
LoseScratch ==
    /\ pass.pc = "idle" /\ faults > 0 /\ retained # {}
    /\ faults' = faults - 1 /\ retained' = {} /\ lost' = TRUE
    /\ gone' = ObjectsOf(journal)
    /\ UNCHANGED <<origin, journal, pass, ops, moves, pushed, added, touched>>

-----------------------------------------------------------------------------
(***************************************************************************)
(* Everyone else: authors, the integrator and the host.                    *)
(***************************************************************************)

Move == moves > 0 /\ moves' = moves - 1
Touch(S) == touched' = touched \cup {<<o, c>> : o \in 1..ops, c \in S}
Owners(b) == {c \in Change : b \in Uses[c]}

\* An author amends the change, builds it on another head of a change under
\* it, goes back to a version, or adds commits on the branch.
Reworked(c) ==
    LET w == Active(c).head.work[c] + 1
        under == {g.head : g \in UNION {Range(record[d]) : d \in Under[c]}}
    IN  IF w > MaxWork THEN {}
        ELSE {[Active(c).head EXCEPT !.work[c] = w]}
             \cup {[of |-> c, tip |-> g.tip, by |-> g.by, more |-> g.more,
                    work |-> [d \in DOMAIN g.work \cup {c} |-> IF d = c THEN w ELSE g.work[d]]] :
                      g \in under}
MoveBranch(c, b) ==
    /\ Move /\ record[c] # <<>>
    /\ \E h \in Reworked(c) \cup VersionHeads(c) \cup {[Active(c).head EXCEPT !.more = TRUE], None} :
          h # branch[b] /\ branch' = [branch EXCEPT ![b] = h]
    /\ Touch(Owners(b))
    /\ UNCHANGED <<tip, line, record, report, request, outcome, landed, local, faults, pushed, added, lost>>
Upload(c, b) ==
    /\ Move /\ record[c] # <<>> /\ branch[b] # None /\ branch[b].of = c
    /\ branch[b] # Active(c).head
    /\ record' = [record EXCEPT ![c] = Append(@, Commit(Last(@).n + 1, branch[b], b, "ready", 0))]
    /\ Touch({c})
    /\ UNCHANGED <<tip, line, branch, report, request, outcome, landed, local, faults, pushed, added, lost>>
Unready(c) ==
    /\ Move /\ record[c] # <<>> /\ Active(c).state = "ready"
    /\ record' = [record EXCEPT ![c] = Append(@, [Last(@) EXCEPT !.state = "draft", !.op = 0])]
    /\ Touch({c})
    /\ UNCHANGED <<tip, line, branch, report, request, outcome, landed, local, faults, pushed, added, lost>>
DeleteRecord(c) ==
    /\ Move /\ record[c] # <<>>
    /\ record' = [record EXCEPT ![c] = <<>>]
    /\ Touch({c})
    /\ UNCHANGED <<tip, line, branch, report, request, outcome, landed, local, faults, pushed, added, lost>>
File(c) ==
    /\ Move /\ record[c] # <<>>
    /\ request' = [request EXCEPT ![c] = IF @ = Active(c).head THEN None ELSE Active(c).head]
    /\ UNCHANGED <<tip, line, branch, record, report, outcome, landed, local, faults, ghosts>>
JudgeStale(c) ==
    /\ Move /\ request[c] # None /\ outcome[c] # [head |-> request[c], tip |-> tip]
    /\ outcome' = [outcome EXCEPT ![c] = [head |-> request[c], tip |-> tip]]
    /\ UNCHANGED <<tip, line, branch, record, report, request, landed, local, faults, ghosts>>
Land(c) ==
    /\ Move /\ tip < MaxTip /\ request[c] # None
    /\ record[c] # <<>> /\ Active(c).state = "ready" /\ request[c] \in VersionHeads(c)
    /\ landed' = landed \cup {request[c]}
    /\ request' = [request EXCEPT ![c] = None]
    /\ tip' = tip + 1 /\ line' = line \cup {tip + 1}
    /\ Touch({c})
    /\ UNCHANGED <<branch, record, report, outcome, local, faults, pushed, added, lost>>
MoveMain(kept) ==
    /\ Move /\ tip < MaxTip
    /\ tip' = tip + 1 /\ line' = {tip + 1} \cup IF kept THEN line ELSE {}
    /\ IF kept THEN UNCHANGED touched ELSE Touch(Change)
    /\ UNCHANGED <<branch, record, report, request, outcome, landed, local, faults, pushed, added, lost>>
\* Another restacker, or a person, files a report.
ReportElse(c) ==
    /\ Move /\ record[c] # <<>>
    /\ report' = [report EXCEPT ![c] = Append(@, [op |-> 0, tip |-> tip, result |-> "blocked",
          saw |-> [d \in {c} |-> Observed(d)], said |-> [d \in {c} |-> "none"], held |-> <<>>])]
    /\ UNCHANGED <<tip, line, branch, record, request, outcome, landed, local, faults, ghosts>>

-----------------------------------------------------------------------------
\* Stacks on main at 0, some of them approved, and main moved once since.
Init ==
    LET first(c) == [of |-> c, tip |-> 0, by |-> None, work |-> [d \in Under[c] \cup {c} |-> 1], more |-> FALSE]
    IN  /\ tip = 1 /\ line = {0, 1}
        /\ branch = [c \in Change |-> first(c)]
        /\ record = [c \in Change |-> <<Commit(1, first(c), c, "ready", 0)>>]
        /\ report = [c \in Change |-> <<>>]
        /\ \E S \in SUBSET Change : request = [c \in Change |-> IF c \in S THEN first(c) ELSE None]
        /\ outcome = [c \in Change |-> None]
        /\ landed = {} /\ journal = {} /\ retained = {} /\ gone = {}
        /\ pass = IdlePass /\ ops = 0 /\ moves = MaxMoves /\ faults = MaxFaults
        /\ pushed = {} /\ added = {} /\ touched = {} /\ lost = FALSE

Push ==
    \/ \E w \in Turns("branches") : PushBranches(w)
    \/ \E w \in Turns("version") : CheckHead(w)
    \/ \E w \in Turns("checked") : PushVersion(w)
    \/ \E w \in Turns("report") \cup Turns("happened") : PushReport(w)
Refuse == \E kind \in {"branches", "version", "checked", "report", "happened"} :
             \E w \in Turns(kind) : NotTaken(w)
Restack ==
    \/ Start \/ KeepObjects \/ KeepFails \/ WriteJournal \/ LetGo
    \/ Read(TRUE) \/ Push \/ Replace \/ Again \/ Retire \/ Plan
Else ==
    \/ \E c \in Change : \/ \E b \in Uses[c] : MoveBranch(c, b) \/ Upload(c, b)
                         \/ Unready(c) \/ DeleteRecord(c) \/ ReportElse(c)
                         \/ File(c) \/ JudgeStale(c) \/ Land(c)
    \/ \E kept \in BOOLEAN : MoveMain(kept)
Next == Restack \/ Read(FALSE) \/ Refuse \/ Fail \/ LoseScratch \/ Else
Spec == Init /\ [][Next]_vars

\* The loop runs a pass again for ever, and a pass goes on; a push either
\* reaches origin or is given up.
Fairness == WF_vars(Restack \/ Refuse)

-----------------------------------------------------------------------------
(***************************************************************************)
(* Properties.                                                             *)
(***************************************************************************)

\* The values the state takes: heads are of the right shape, a version names
\* a head of its change, and the journal's families agree with themselves
\* (JournalFamily.check): versions only with a branch push, and replacements
\* and accepted versions only once the branches moved.
TypeOK ==
    /\ tip \in 0..MaxTip /\ tip \in line /\ line \subseteq 0..tip
    /\ \A b \in Change : branch[b] # None => IsHead(branch[b])
    /\ \A c \in Change : \A e \in Range(record[c]) : IsHead(e.head) /\ e.head.of = c
    /\ \A f \in journal \cup pass.mem :
          /\ DOMAIN f.new \in {{}, Layers(f)} /\ f.added \subseteq DOMAIN f.new
          /\ f.moved \/ (f.added = {} /\ DOMAIN f.happened = {})
          /\ f.moved => Restacks(f)
          /\ (f.report.result = "complete") = Restacks(f)
    /\ ops \in 0..MaxOps /\ moves \in 0..MaxMoves /\ faults \in 0..MaxFaults

\* Crash recovery (keep, letGo): what the journal on disk names stays
\* reachable in the scratch repository, whatever step a crash comes at,
\* unless the repository itself was lost.
JournalKept == lost \/ ObjectsOf(journal) \subseteq retained

\* waits and overlapping: the journal a pass would keep always reads back, so
\* no two of its families write one change or one branch.
JournalAgrees == Agrees(pass.mem) /\ Agrees(journal)

\* settle and retire: once origin took a family's branches, the journal on
\* disk names the family until every version of it is added, through crashes,
\* lost answers, requests that hold it and passes that add families, unless
\* another moved the family first.
MovedIsSeenThrough ==
    \A m \in pushed :
        LET o == m[1]  L == m[2] IN
        \/ lost \/ \E c \in L : <<o, c>> \in touched
        \/ \A c \in L : <<o, c>> \in added
        \/ \E f \in journal : Name(f) = m

\* The branch push is leased on heads some version records: a step of the
\* restacker never moves a branch off work that no record holds.
OnlyRecordedWorkMoves ==
    [][(\E w \in Turns("branches") : PushBranches(w)) => \A b \in Change : branch'[b] # branch[b] =>
          LET c == branch[b].of IN record[c] = <<>> \/ branch[b] \in VersionHeads(c)]_vars

\* retire: a family whose branches moved is let go only when origin holds a
\* report for each change it still records, and that says of each version
\* added to a record it still holds that it was added.
LetGoReported ==
    [][\A f \in journal :
          f.moved /\ ~lost /\ ~(\E g \in journal' : Name(g) = Name(f))
          => \A c \in Layers(f) : record[c] = <<>> \/
                \E r \in Range(report[c]) : \A d \in Layers(f) :
                    <<f.op, d>> \in added /\ record[d] # <<>>
                        => d \in DOMAIN r.said /\ r.said[d] = "added"]_vars

\* The journal is seen through: once others are still, every family is let
\* go, or waits for a request that might still land.  A scratch repository
\* that was lost is left out.
Waiting == \E f \in journal : Restacks(f) /\ Held(f)
Settles == <>[](journal = {} \/ Waiting \/ lost)

\* The same with a scratch repository lost.
SettlesAnyway == <>[](journal = {} \/ Waiting)

\* What the restacker promises the authors (RestackPromise).
Told == UNION {{<<c, r.op, {d \in DOMAIN r.said : r.said[d] = "added"}>> :
                   r \in Range(report[c])} : c \in Change}
Promise == INSTANCE RestackPromise WITH
    Op <- 1..MaxOps, families <- pushed, versions <- added,
    told <- {t \in Told : t[2] # 0}
KeepsPromise == Promise!Spec
=============================================================================
