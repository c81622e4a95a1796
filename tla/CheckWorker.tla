---------------------------- MODULE CheckWorker ----------------------------
(***************************************************************************)
(* The check worker: a pass that reads a project's ready changes, builds   *)
(* the checks origin holds no evidence for, one attest run per tree, and   *)
(* publishes what the runs store (status/worker.go, wake.go, evalbudget.go,*)
(* attest/run.go).                                                         *)
(*                                                                         *)
(* One loop scans, starts runs and handles their ends; the runs go on      *)
(* beside it, and when the pass is killed, after it.  The memory they      *)
(* evaluate in is shared through Admission.  The project is one, the queue *)
(* is in any order, and how long a wait is is left out: a failure's wait   *)
(* ends at any later time.                                                 *)
(***************************************************************************)
EXTENDS Integers, FiniteSets

CONSTANTS
    Change, Tree, Check,
    Pid,            \* attest's process IDs
    Estimate,       \* the memory an evaluation may be expected to need
    Budget,         \* --eval-budget
    Batches,        \* --batches
    Heads,          \* the trees the changes' first versions may have
    None,
    MaxEvents       \* bound: kills, failed checks, reads, pushes and writes, and
                    \* moves of authors, other signers and the policy

\* An attest run: the version and the checks it was started for, how far it
\* is, whether it belongs to the running pass, whether it was told to stop, and
\* whether it was handed the wake directory's lock.
Run == [c : Change, n : Nat, tree : Tree, checks : SUBSET Check,
        phase : {"new", "line", "eval", "build", "passed", "failed", "kept"},
        mine : BOOLEAN, stopped : BOOLEAN, locked : BOOLEAN]

\* The ref of a tree, by the checks it covers.
Ref == [tree : Tree, checks : (SUBSET Check) \ {{}}]

ASSUME CheckWorkerAssumption ==
    /\ None \notin [order : Nat, estimate : Nat] /\ None \notin Run
    /\ Estimate \subseteq Nat \ {0} /\ Budget \in Nat \ {0}
    /\ Batches \in Nat \ {0} /\ MaxEvents \in Nat
    /\ Heads \subseteq [Change -> Tree] /\ Change # {} /\ Check # {}

VARIABLES
    change,     \* change[c]: its active version's number and tree, and if it is ready
    asked,      \* the checks the policy requires of a head
    others,     \* others[t]: checks other signers' evidence on origin covers
    own,        \* own[t]: checks the worker's ref for t on origin covers, {} for no ref
    moved,      \* a move of another's that the post-receive hook has not marked
    due, claimed,   \* the files of the wake directory
    stored,     \* stored[t]: checks the ref in the local repository covers
    storing,    \* the refs that git is storing for an attest that was killed
    record,     \* the failure record on disk: the keys it holds
    over,       \* keys whose wait is over
    runs,       \* runs[p]: the attest run p, or None
    reserved, held, evaluating, orphaned,   \* see Admission
    barring,    \* of the orphaned, those that hold the wake directory's lock
    pass,       \* the memory of the running pass
    events

\* History variables: nothing reads them but the properties.
VARIABLES
    unread,     \* whether a mark was made no handled pass has read the refs after
    cover,      \* "view" once the scan under way read the refs after every mark,
                \* "whole" once it read the rest, else "no"
    owed        \* failures to wait out, while what failed is still asked for

origin == <<change, asked, others, own>>
wake == <<due, claimed>>
disk == <<stored, storing, record>>
line == <<reserved, held, evaluating, orphaned>>
vars == <<origin, moved, wake, disk, over, runs, line, barring, pass, events, unread, cover, owed>>

Adm == INSTANCE Admission WITH
    Pid <- Pid, Estimate <- Estimate, Budget <- Budget, None <- None,
    reserved <- reserved, held <- held, evaluating <- evaluating, orphaned <- orphaned

-----------------------------------------------------------------------------
(***************************************************************************)
(* What a job needs.                                                       *)
(***************************************************************************)

Missing(t, checks) == checks \ (own[t] \cup others[t])
BuildKey(t, checks) == <<"build", t, checks>>
PushKey(t, object) == <<"push", t, object>>

\* The runs of this pass, whose destinations it holds until their push was
\* tried; a run of a pass that was killed goes on without one.
Mine == {p \in Pid : runs[p] # None /\ runs[p].mine}
Running == {runs[p].tree : p \in Mine}
\* Mutant: a wait has no end.
Waits_ForEver(k) == k \in pass.failed
Waits(k) == k \in pass.failed \ over

\* Mutant: a ref an earlier run stored is not looked for.
Assessed_NotStored(t, checks) ==
    IF Missing(t, checks) = {} THEN "covered"
    ELSE IF t \in Running THEN "running"
    ELSE IF own[t] # {} THEN "spent"
    ELSE IF Waits(BuildKey(t, Missing(t, checks))) THEN "waits"
    ELSE "build"

\* assess: what is to be done for a tree whose head requires these checks.
Assessed(t, checks) ==
    IF Missing(t, checks) = {} THEN "covered"
    ELSE IF t \in Running THEN "running"
    ELSE IF own[t] # {} THEN "spent"
    ELSE IF stored[t] # {} THEN "publish"
    ELSE IF Waits(BuildKey(t, Missing(t, checks))) THEN "waits"
    ELSE "build"

-----------------------------------------------------------------------------
(***************************************************************************)
(* The pass.                                                               *)
(***************************************************************************)

NoPass == [pc |-> "idle", claims |-> TRUE, view |-> <<>>, asked |-> {}, todo |-> {},
           met |-> {}, fresh |-> {}, wanted |-> {}, whole |-> TRUE, found |-> {},
           queue |-> {}, turn |-> {}, then |-> "idle", tree |-> None, object |-> {},
           back |-> "idle", failed |-> {}, trouble |-> FALSE, stop |-> FALSE,
           locked |-> TRUE]

Full == Cardinality(Mine) >= Batches
Event == events > 0 /\ events' = events - 1
Costs(fine) == IF fine THEN UNCHANGED events ELSE Event
At(pc) == pass.pc = pc

\* Mutant: the runs are not handed the locks.
Start_NotHanded(locks) ==
    /\ At("idle") /\ storing = {} /\ (locks => barring = {})
    /\ pass' = [NoPass EXCEPT !.pc = "scan", !.failed = record, !.claims = locks, !.locked = locks]
    /\ Costs(locks \/ barring # {})
    /\ UNCHANGED <<origin, moved, wake, disk, over, runs, line, unread, cover>>

\* A pass takes the state directory's lock, which every run of an earlier pass
\* and the git that stores for it hold too.  A pass without --wake, or one that
\* cannot lock the wake directory, goes on without a claim.  The processes of
\* an evaluation hold that lock alone: their reservation takes the other's
\* place among their files.  Beside those a pass without is no event: nothing
\* but it can start.
Start(locks) ==
    /\ At("idle") /\ storing = {} /\ \A p \in Pid : runs[p] = None
    /\ locks => barring = {}
    /\ pass' = [NoPass EXCEPT !.pc = "scan", !.failed = record, !.claims = locks, !.locked = locks]
    /\ Costs(locks \/ barring # {})
    /\ UNCHANGED <<origin, moved, wake, disk, over, runs, line, unread, cover>>

\* Mutant: due is copied and not renamed.
Claim_Copied(claims) ==
    /\ At("scan")
    /\ due' = due /\ claimed' = (claimed \/ (claims /\ due))
    /\ (claims => pass.claims) /\ Costs(claims = pass.claims)
    /\ pass' = [pass EXCEPT !.pc = "view", !.claims = claims]
    /\ UNCHANGED <<origin, moved, disk, over, runs, line, unread, cover>>

\* claimWake and again: the mark made since the last claim is claimed before
\* a scan reads.  A pass that cannot claim it claims nothing more.
Claim(claims) ==
    /\ At("scan")
    /\ IF claims THEN due' = FALSE /\ claimed' = (claimed \/ due) ELSE UNCHANGED wake
    /\ (claims => pass.claims) /\ Costs(claims = pass.claims)
    /\ pass' = [pass EXCEPT !.pc = "view", !.claims = claims]
    /\ UNCHANGED <<origin, moved, disk, over, runs, line, unread, cover>>

\* A scan reads the project's ready changes and its policy.
View ==
    LET ready == {c \in Change : change[c].ready} IN
    /\ At("view")
    /\ pass' = [pass EXCEPT !.pc = "read", !.view = [c \in ready |-> change[c]],
                    !.asked = asked, !.todo = ready, !.fresh = {}]
    /\ cover' = "view"
    /\ UNCHANGED <<origin, moved, wake, disk, over, runs, line, events, unread>>

\* A read of origin that fails stops the pass.
ReadFails ==
    /\ Event
    /\ At("view") \/ (At("read") /\ pass.todo # {}) \/ (At("admit") /\ pass.turn # {} /\ ~Full)
    /\ pass' = [NoPass EXCEPT !.pc = "admit", !.then = "settle", !.stop = TRUE,
                    !.claims = pass.claims, !.locked = pass.locked, !.failed = pass.failed,
                    !.trouble = pass.trouble]
    /\ cover' = "no"
    /\ UNCHANGED <<origin, moved, wake, disk, over, runs, line, unread>>

\* change and assess, for one of the ready changes.
ReadChange(c) ==
    LET v == pass.view[c]
        verdict == Assessed(v.tree, pass.asked)
        key == BuildKey(v.tree, Missing(v.tree, pass.asked))
        job == [c |-> c, n |-> v.n, tree |-> v.tree, asked |-> pass.asked]
        seen == [pass EXCEPT !.todo = @ \ {c}, !.wanted = @ \cup {v.tree}]
    IN  /\ At("read") /\ c \in pass.todo
        /\ \/ verdict \in {"covered", "running", "spent"} /\ pass' = seen
           \/ /\ verdict = "publish"
              /\ pass' = [seen EXCEPT !.met = @ \cup {PushKey(v.tree, stored[v.tree])},
                             !.pc = "publish", !.tree = v.tree, !.object = stored[v.tree],
                             !.back = "read"]
           \/ verdict = "waits" /\ pass' = [seen EXCEPT !.met = @ \cup {key}]
           \/ /\ verdict = "build"
              /\ pass' = [seen EXCEPT !.met = @ \cup {key}, !.found = @ \cup {job}]
        /\ UNCHANGED <<origin, moved, wake, disk, over, runs, line, events, unread, cover>>

\* Its checks do not derive: the project is not read whole.
NotDerived(c) ==
    /\ At("read") /\ c \in pass.todo /\ Event
    /\ pass' = [pass EXCEPT !.todo = @ \ {c}, !.whole = FALSE, !.trouble = TRUE]
    /\ UNCHANGED <<origin, moved, wake, disk, over, runs, line, unread, cover>>

\* Mutant: the failures recorded since the scan began are forgotten too.
Pruned_Fresh == pass.failed \cap (pass.met \cup {BuildKey(runs[p].tree, runs[p].checks) : p \in Mine})

\* prune: forget the failures a whole scan did not meet, but those of runs
\* under way and those recorded since it began.
Pruned == pass.failed \cap
    (pass.met \cup pass.fresh \cup {BuildKey(runs[p].tree, runs[p].checks) : p \in Mine})

\* stopSuperseded: the runs whose version is no longer active, when no ready
\* version holds their tree.
Superseded == {p \in Mine : /\ runs[p].c \in DOMAIN pass.view
                            /\ pass.view[runs[p].c].n # runs[p].n
                            /\ runs[p].tree \notin pass.wanted}

\* order: of the jobs found, one for each tree.
EndScan ==
    /\ At("read") /\ pass.todo = {}
    /\ \E Q \in SUBSET pass.found :
          /\ \A j \in pass.found : Cardinality({k \in Q : k.tree = j.tree}) = 1
          /\ pass' = [NoPass EXCEPT !.pc = "admit", !.then = "settle", !.queue = Q, !.turn = Q,
                          !.failed = IF pass.whole THEN Pruned ELSE pass.failed,
                          !.claims = pass.claims, !.locked = pass.locked,
                          !.trouble = pass.trouble]
    /\ runs' = [p \in Pid |-> IF pass.whole /\ p \in Superseded
                              THEN [runs[p] EXCEPT !.stopped = TRUE] ELSE runs[p]]
    /\ cover' = IF pass.whole /\ cover = "view" THEN "whole" ELSE "no"
    /\ UNCHANGED <<origin, moved, wake, disk, over, line, events, unread>>

\* admit: each job of the queue, while there are slots, is assessed again and
\* started.  One whose destination is held stays queued.
RunOf(j) == [c |-> j.c, n |-> j.n, tree |-> j.tree, checks |-> Missing(j.tree, j.asked),
             phase |-> "new", mine |-> TRUE, stopped |-> FALSE, locked |-> pass.locked]
\* The pid of a new run: any that is free is as good as another, but one
\* that a file still held is named by.
Spawned == LET free == {p \in Pid : runs[p] = None}
           IN  {p \in free : p \in held \/ \A q \in free : q < p => q \in held}
AdmitJob(j) ==
    LET verdict == Assessed(j.tree, j.asked)
        rest == [pass EXCEPT !.queue = @ \ {j}, !.turn = @ \ {j}]
    IN  /\ At("admit") /\ j \in pass.turn /\ ~Full
        /\ pass' = IF j.tree \in Running THEN [pass EXCEPT !.turn = @ \ {j}]
                   ELSE IF verdict = "publish"
                   THEN [rest EXCEPT !.pc = "publish", !.tree = j.tree,
                             !.object = stored[j.tree], !.back = "admit"]
                   ELSE rest
        /\ IF verdict = "build" THEN \E p \in Spawned : runs' = [runs EXCEPT ![p] = RunOf(j)]
           ELSE UNCHANGED runs
        /\ UNCHANGED <<origin, moved, wake, disk, over, line, events, unread, cover>>
\* The loop ends when nothing runs and no mark is left, and otherwise waits
\* for a run to end, a mark or the interval.
Settled == IF Mine # {} THEN "wait"
           ELSE IF ~pass.stop /\ pass.claims /\ due THEN "scan" ELSE "end"
Admitted ==
    /\ At("admit") /\ (pass.turn = {} \/ Full)
    /\ pass' = [pass EXCEPT !.turn = {}, !.pc = IF pass.then = "settle" THEN Settled ELSE pass.then]
    /\ UNCHANGED <<origin, moved, wake, disk, over, runs, line, events, unread, cover>>

\* complete: a run that ended is handled, between two changes of a scan or
\* while the loop waits, and so is any other that ended.  A run that was
\* stopped and did not pass leaves nothing; another failure is recorded at
\* once, and what a run that passed stored is published, as its ref was read
\* when it ended.  If not fine, the record is not written or the ref not found.
Saved(failed, saves) ==
    /\ record' = IF saves THEN failed ELSE record
    /\ UNCHANGED <<stored, storing>>
Complete(p, fine) ==
    LET r == runs[p]
        key == BuildKey(r.tree, r.checks)
        cancelled == r.stopped /\ r.phase = "failed"
        failed == IF cancelled THEN pass.failed
                  ELSE IF r.phase = "failed" THEN pass.failed \cup {key} ELSE pass.failed \ {key}
        next == IF At("read") THEN "read" ELSE IF At("reap") THEN pass.then
                ELSE IF pass.stop THEN "settle" ELSE "scan"
        handled == [pass EXCEPT !.failed = failed, !.pc = "reap", !.then = next,
                       !.trouble = @ \/ ~fine]
    IN  /\ p \in Mine /\ r.phase \in {"passed", "failed"}
        /\ At("wait") \/ At("reap") \/ (At("read") /\ pass.todo # {})
        /\ Costs(fine)
        /\ \/ /\ cancelled /\ fine
              /\ runs' = [runs EXCEPT ![p] = None] /\ pass' = handled
              /\ UNCHANGED <<disk, over>>
           \/ /\ r.phase = "failed" /\ ~cancelled /\ Saved(failed, fine)
              /\ runs' = [runs EXCEPT ![p] = None] /\ over' = over \ {key}
              /\ pass' = [handled EXCEPT !.fresh = @ \cup {key}]
           \/ /\ r.phase = "passed" /\ Saved(failed, fine) /\ UNCHANGED over
              /\ runs' = [runs EXCEPT ![p].phase = "kept"]
              /\ \E o \in {r.checks, stored[r.tree]} :
                    pass' = [handled EXCEPT !.pc = "publish", !.tree = r.tree, !.object = o,
                                !.back = "reap"]
           \/ /\ r.phase = "passed" /\ ~fine /\ UNCHANGED over
              /\ \E saves \in BOOLEAN : Saved(failed, saves)
              /\ runs' = [runs EXCEPT ![p] = None] /\ pass' = handled
        /\ UNCHANGED <<origin, moved, wake, line, unread, cover>>
Reaped ==
    /\ At("reap")
    /\ pass' = [pass EXCEPT !.pc = "admit", !.turn = pass.queue]
    /\ UNCHANGED <<origin, moved, wake, disk, over, runs, line, events, unread, cover>>

\* publish: the ref of a tree is pushed, unless its push waits.  The push
\* can fail whether or not origin took it, and one it took marks due.  A
\* run's destination is held until then.
Marks == due' = TRUE /\ unread' = TRUE /\ cover' = "no"
Published == [p \in Pid |-> IF p \in Mine /\ runs[p].tree = pass.tree /\ runs[p].phase = "kept"
                            THEN None ELSE runs[p]]
Pushes(fails, taken) ==
    LET t == pass.tree  k == PushKey(t, pass.object)
        failed == IF fails THEN pass.failed \cup {k} ELSE pass.failed \ {k}
        pushed == [pass EXCEPT !.pc = pass.back, !.tree = None, !.object = {}, !.failed = failed]
    IN  /\ At("publish") /\ ~Waits(k) /\ (fails \/ taken)
        /\ own' = IF taken THEN [own EXCEPT ![t] = pass.object] ELSE own
        /\ IF taken THEN Marks ELSE UNCHANGED <<due, unread, cover>>
        /\ IF fails
           THEN /\ Event /\ over' = over \ {k}
                /\ \E saves \in BOOLEAN :
                      /\ Saved(failed, saves)
                      /\ pass' = [pushed EXCEPT !.fresh = @ \cup {k}, !.trouble = @ \/ ~saves]
           ELSE UNCHANGED <<events, disk, over>> /\ pass' = pushed
        /\ runs' = Published
        /\ UNCHANGED <<change, asked, others, moved, claimed, line>>
PushWaits ==
    /\ At("publish") /\ Waits(PushKey(pass.tree, pass.object))
    /\ pass' = [pass EXCEPT !.pc = pass.back, !.tree = None, !.object = {}]
    /\ runs' = Published
    /\ UNCHANGED <<origin, moved, wake, disk, over, line, events, unread, cover>>

Tick ==
    /\ At("wait") /\ ~pass.stop
    /\ pass' = [pass EXCEPT !.pc = "scan"]
    /\ UNCHANGED <<origin, moved, wake, disk, over, runs, line, events, unread, cover>>

\* Mutant: what went wrong beside a recorded wait is not counted.
Handled_Trouble(saves) == ~pass.stop /\ saves

\* The pass writes the record, and acknowledges its claim when it handled
\* what it read.
Handled(saves) == ~pass.stop /\ ~pass.trouble /\ saves
End(saves) ==
    /\ At("end") /\ Saved(pass.failed, saves) /\ Costs(saves)
    /\ claimed' = (claimed /\ ~(pass.claims /\ Handled(saves)))
    /\ unread' = (unread /\ ~(Handled(saves) /\ cover = "whole"))
    /\ cover' = "no" /\ pass' = NoPass
    /\ UNCHANGED <<origin, moved, due, over, runs, line>>

\* The pass is killed.  Its runs go on.
Kill ==
    /\ ~At("idle") /\ Event
    /\ pass' = NoPass /\ cover' = "no"
    /\ runs' = [p \in Pid |-> IF p \notin Mine \/ runs[p].phase \in {"passed", "failed", "kept"}
                              THEN None ELSE [runs[p] EXCEPT !.mine = FALSE]]
    /\ UNCHANGED <<origin, moved, wake, disk, over, line, unread>>

-----------------------------------------------------------------------------
(***************************************************************************)
(* The attest runs.                                                        *)
(***************************************************************************)

\* A run that ends stays for its pass to handle.
Ends(p, phase) ==
    runs' = [runs EXCEPT ![p] = IF runs[p].mine THEN [runs[p] EXCEPT !.phase = phase] ELSE None]
Goes(p, from, to) ==
    /\ runs[p] # None /\ runs[p].phase = from
    /\ runs' = [runs EXCEPT ![p].phase = to]
    /\ UNCHANGED <<origin, moved, wake, disk, over, pass, events, unread, cover>>

\* Mutant: a run's reservation is not removed.
Evaluated_Kept(p) == Goes(p, "eval", "build") /\ UNCHANGED line

Reserves(p) == Goes(p, "new", "line") /\ \E e \in Estimate : Adm!Reserve(p, e)
Admits(p) == Goes(p, "line", "eval") /\ Adm!Admit(p)
Evaluated(p) == Goes(p, "eval", "build") /\ Adm!Release(p)

\* Every check passed, and the notes are stored at the tree's ref.  The run
\* may still be killed before it exits.
Stores(p, dies) ==
    /\ runs[p] # None /\ runs[p].phase = "build"
    /\ stored' = [stored EXCEPT ![runs[p].tree] = runs[p].checks]
    /\ Costs(dies => runs[p].stopped)
    /\ Ends(p, IF dies THEN "failed" ELSE "passed")
    /\ UNCHANGED <<origin, moved, wake, storing, record, over, line, pass, unread, cover>>
\* Or it is killed while git stores the ref, which goes on.
DiesStoring(p) ==
    /\ runs[p] # None /\ runs[p].phase = "build"
    /\ storing' = storing \cup {[tree |-> runs[p].tree, checks |-> runs[p].checks]}
    /\ Costs(runs[p].stopped) /\ Ends(p, "failed")
    /\ UNCHANGED <<origin, moved, wake, stored, record, over, line, pass, unread, cover>>
GitStores(s) ==
    /\ s \in storing /\ storing' = storing \ {s}
    /\ stored' = [stored EXCEPT ![s.tree] = s.checks]
    /\ UNCHANGED <<origin, moved, wake, record, over, runs, line, pass, events, unread, cover>>
NotReserved(p) ==
    /\ runs[p] # None /\ runs[p].phase = "new" /\ p \in held /\ Ends(p, "failed")
    /\ UNCHANGED <<origin, moved, wake, disk, over, line, pass, events, unread, cover>>
\* A check fails, or the line cannot be read.
CheckFails(p) ==
    /\ runs[p] # None /\ runs[p].phase \in {"line", "build"} /\ Event /\ Ends(p, "failed")
    /\ IF runs[p].phase = "line" THEN Adm!Release(p) ELSE UNCHANGED line
    /\ UNCHANGED <<origin, moved, wake, disk, over, pass, unread, cover>>
\* It is killed, by the loop's stop or otherwise.
Dies(p) ==
    /\ runs[p] # None /\ runs[p].phase \in {"new", "line", "eval", "build"}
    /\ Costs(runs[p].stopped)
    /\ IF runs[p].phase \in {"line", "eval"} THEN Adm!Die(p) ELSE UNCHANGED line
    /\ Ends(p, "failed")
    /\ UNCHANGED <<origin, moved, wake, disk, over, pass, unread, cover>>
Drops(p) ==
    /\ Adm!Drop(p)
    /\ UNCHANGED <<origin, moved, wake, disk, over, runs, pass, events, unread, cover>>

-----------------------------------------------------------------------------
(***************************************************************************)
(* Everyone else.                                                          *)
(***************************************************************************)

Move ==
    /\ Event /\ moved' = TRUE
    /\ UNCHANGED <<own, wake, disk, over, runs, line, pass, unread, cover>>
Amend(c, t) ==
    /\ Move /\ t # change[c].tree
    /\ change' = [change EXCEPT ![c] = [n |-> @.n + 1, tree |-> t, ready |-> TRUE]]
    /\ UNCHANGED <<asked, others>>
Toggle(c) ==
    /\ Move /\ change' = [change EXCEPT ![c].ready = ~@]
    /\ UNCHANGED <<asked, others>>
Attested(t, k) ==
    /\ Move /\ k \notin others[t] /\ others' = [others EXCEPT ![t] = @ \cup {k}]
    /\ UNCHANGED <<change, asked>>
Policy ==
    /\ Move /\ asked # Check /\ asked' = Check
    /\ UNCHANGED <<change, others>>

\* The host's post-receive hook marks due after the refs moved.
Mark ==
    /\ moved /\ moved' = FALSE /\ Marks
    /\ UNCHANGED <<origin, claimed, disk, over, runs, line, pass, events>>
Expire(k) ==
    /\ k \in (record \cup pass.failed) \ over
    /\ over' = over \cup {k}
    /\ UNCHANGED <<origin, moved, wake, disk, runs, line, pass, events, unread, cover>>

-----------------------------------------------------------------------------
\* What is asked for: what the ready changes lack by the policy, and by the
\* one the scan under way has read, by the keys its failures have.
Lacking == {t \in {change[c].tree : c \in {d \in Change : change[d].ready}} :
               /\ Missing(t, asked) # {} /\ own[t] = {}
               /\ pass.asked # {} => Missing(t, pass.asked) # {}}
KeyOf(t) == IF stored[t] = {} THEN BuildKey(t, Missing(t, asked)) ELSE PushKey(t, stored[t])
Asked == {KeyOf(t) : t \in Lacking}

\* The worker starts with what an earlier pass may have left of one tree: a
\* claim, a failed build that waits, a ref it stored, or a push that waits.
Init ==
    /\ \E f \in Heads : change = [c \in Change |-> [n |-> 1, tree |-> f[c], ready |-> TRUE]]
    /\ asked = {CHOOSE k \in Check : TRUE}
    /\ others = [t \in Tree |-> {}] /\ own = [t \in Tree |-> {}]
    /\ moved = FALSE /\ due \in BOOLEAN /\ claimed = ~due
    /\ \E stores, failed \in BOOLEAN :
          LET t == change[CHOOSE c \in Change : TRUE].tree IN
          /\ stored = [u \in Tree |-> IF u = t /\ stores THEN asked ELSE {}]
          /\ record = IF ~failed THEN {} ELSE {IF stores THEN <<"push", t, asked>> ELSE BuildKey(t, asked)}
    /\ storing = {} /\ barring = {}
    /\ over = {} /\ runs = [p \in Pid |-> None] /\ Adm!Init
    /\ pass = NoPass /\ events = MaxEvents
    /\ unread = TRUE /\ cover = "no" /\ owed = record

\* What fails is owed its wait while it is asked for, unless a pass that was
\* killed, or could not write the record, forgets it.
Fails == IF At("idle") THEN {} ELSE pass'.failed \ (pass.failed \ over)
Forgotten == IF At("idle")' /\ Event THEN owed \ record ELSE {}
Owes == owed' = (Asked' \cap (owed \cup Fails)) \ (over' \cup Forgotten)

\* The processes of an evaluation hold the wake directory's lock if its attest
\* was handed it.
Bars == barring' = {p \in orphaned' : p \in barring \/ (p \notin orphaned /\ runs[p].locked)}

PassStep ==
    \/ Start(TRUE) \/ Claim(pass.claims) \/ View \/ EndScan \/ Admitted \/ Reaped
    \/ (pass.todo # {} /\ ReadChange(CHOOSE c \in pass.todo : TRUE))
    \/ \E j \in pass.turn : AdmitJob(j)
    \/ Pushes(FALSE, TRUE) \/ PushWaits \/ End(TRUE)
RunStep(p) ==
    \/ Reserves(p) \/ Admits(p) \/ Evaluated(p) \/ Stores(p, FALSE)
    \/ NotReserved(p) \/ (runs[p] # None /\ runs[p].stopped /\ Dies(p))
Failures ==
    \/ Claim(FALSE) \/ ReadFails \/ End(FALSE) \/ Kill
    \/ (pass.todo # {} /\ NotDerived(CHOOSE c \in pass.todo : TRUE))
    \/ \E taken \in BOOLEAN : Pushes(TRUE, taken)
    \/ \E p \in Pid : \/ Complete(p, FALSE) \/ CheckFails(p) \/ Dies(p)
                      \/ Stores(p, TRUE) \/ DiesStoring(p)
Else ==
    \/ Start(FALSE) \/ Policy \/ Mark
    \/ \E c \in Change : Toggle(c) \/ \E t \in Tree : Amend(c, t)
    \/ \E t \in Tree, k \in Check : Attested(t, k)
    \/ \E k \in record \cup pass.failed : Expire(k)
Next ==
    /\ \/ PassStep \/ Tick \/ Failures \/ Else
       \/ \E p \in Pid : RunStep(p) \/ Drops(p) \/ Complete(p, TRUE)
       \/ \E s \in storing : GitStores(s)
    /\ Bars /\ Owes
Spec == Init /\ [][Next]_vars

\* The timer starts passes with --wake for ever, a pass goes on, and so does
\* each run, and what a dead one left ends.  The loop's select takes any of
\* the cases that are ready, so that a run's end is handled though the
\* interval keeps starting scans.  Waits end, and a hook that moved a ref marks.
LeftEnds == (\E p \in Pid : Drops(p)) \/ (\E s \in storing : GitStores(s))
Fairness ==
    /\ WF_vars(PassStep /\ Bars /\ Owes)
    /\ SF_vars((\E p \in Pid : Complete(p, TRUE)) /\ Bars /\ Owes)
    /\ \A p \in Pid : WF_vars(RunStep(p) /\ Bars /\ Owes)
    /\ WF_vars(LeftEnds /\ Bars /\ Owes)
    /\ WF_vars((\E k \in record \cup pass.failed : Expire(k)) /\ Bars /\ Owes)
    /\ WF_vars(Mark /\ Bars /\ Owes)
FairSpec == Spec /\ Fairness

-----------------------------------------------------------------------------
(***************************************************************************)
(* Properties.                                                             *)
(***************************************************************************)

\* The values the state takes; a run reserves memory while it is in line or
\* evaluates, and the job of a pass is about what its scan read.
TypeOK ==
    /\ \A c \in Change : change[c].n \in 1..(MaxEvents + 1) /\ change[c].tree \in Tree
    /\ own \in [Tree -> SUBSET Check] /\ others \in [Tree -> SUBSET Check]
    /\ stored \in [Tree -> SUBSET Check] /\ storing \subseteq Ref /\ barring \subseteq orphaned
    /\ \A p \in Pid : runs[p] # None =>
          /\ runs[p].tree \in Tree /\ runs[p].checks \in (SUBSET Check) \ {{}}
          /\ runs[p].phase \in {"line", "eval"} => p \in held /\ reserved[p] # None
          /\ (runs[p].phase = "eval") = (p \in evaluating \ orphaned)
    /\ Cardinality(Mine) <= Batches
    /\ events \in 0..MaxEvents

\* wake.go: a mark is never lost.  One that no handled pass read the refs
\* after is still there, as due or as claimed, whenever passes are killed,
\* fail to read or to write, or scan again because of it.
MarksKept == unread => due \/ claimed

\* attest stores with a plain update-ref: no two runs that are about one tree
\* live at once, the runs of a killed pass included.
OneBuilder ==
    \A p, q \in Pid : runs[p] # None /\ runs[q] # None /\ runs[p].tree = runs[q].tree => p = q

\* A worker builds a tree's evidence once: no run starts for a tree that has
\* the worker's ref on origin, or here with its push lost.
BuiltOnce ==
    [][\A p \in Pid : runs[p] = None /\ runs'[p] # None
          => own[runs'[p].tree] = {} /\ stored[runs'[p].tree] = {}]_vars

\* The failure record: nothing that failed is tried again before its wait is
\* over while it stays asked for, whatever the scans under way forget, and in
\* passes after a kill too.
RetriesWait ==
    [][/\ \A p \in Pid : runs[p] = None /\ runs'[p] # None
             => BuildKey(runs'[p].tree, runs'[p].checks) \notin owed
       /\ (\E fails, taken \in BOOLEAN : Pushes(fails, taken))
             => PushKey(pass.tree, pass.object) \notin owed]_vars

\* attest/admit.go: the evaluations under way reserved no more than the
\* budget together, or one runs alone, those of killed runs included.
MemoryHeld == Adm!MemoryHeld

\* Every check that a ready change needs is built and published, once others
\* are still and nothing fails: whatever failed, was killed or lost before.
EventuallyPublished ==
    <>[](\A c \in Change : change[c].ready =>
            Missing(change[c].tree, asked) = {} \/ own[change[c].tree] # {})

\* Every mark is handled in the end: no file is left that starts passes.
MarksHandled == <>[](~due /\ ~claimed)
=============================================================================
