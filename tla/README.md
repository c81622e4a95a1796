# A verification development for The Valley

The Valley is a software forge built on plain git. Changes, approvals, attestations, restack
reports and plans are refs and commits of an ordinary repository. A handful of programs act on
those refs: a pre-receive hook judges every push, a controller (the *integrator*) judges and lands
approved changes, a *restacker* rebases stacks, a *check worker* runs checks and publishes signed
notes, and a publisher and an edge server show projects on the web. Nothing serializes these
programs but git's per-ref comparison, a few file locks, and the order in which each program reads
and writes. This directory holds TLA+ models of them, TLC configurations that check the models on
small instances, and proofs checked by TLAPS.

Paths below are relative to the repository; `integrator/refs.go:601` is a line of it.

## 1. Inventory

For each part: the state it keeps, what it does, what it shares with the others, what is hard about
it, and what makes it correct.

| Part | State | Operations | What is hard | Correct when |
|---|---|---|---|---|
| Integrator passes (`integrator/refs.go`, `records.go`, `inputs.go`, `transfer.go`, `evidence.go`) | the target, request refs, evidence refs, landing records, outcome and inputs records | list, void, refuse, judge, land in one ref transaction, answer | every ref may move between any two steps; failures and crashes anywhere; inputs that change under a verdict; two controllers at once | what lands was judged at its tip, is recorded, was approved and not paused; nothing landable is skipped for good; nothing published is lost |
| Integrator verdict (`integrator/verdict`) | none | weigh evidence per required check | time windows, checks that cite themselves | lands only what its evidence covers |
| Wake loop (`integrator/wake.go`, `wake_linux.go`, `bus.go`) | wake directory with one `due`, inotify watch, deadlines | mark, claim, pass, wait, re-arm | marks racing claims; directory replaced; events dropped; passes that fail | no mark is slept through; no mark starts pass after pass; the interval recovers the rest |
| Repository lock (`integrator/own_unix.go`) | flock on a directory | take, check before each pass | the path may come to name another directory | one `watch` serves a repository |
| Signers publication (`integrator/signers.go`) | one ref | locked read, compose, move | runs beside one another | the newest inputs end up published |
| Push hook (`valleyhook`) | none of its own; refs of the repository | judge each update of a push | pushes judged against refs that move before they are installed; pushes installed in part | records follow their lifecycle, keep their history, stay within bounds |
| Change records (`change`) | `record.json` in a commit chain | parse, check | bounds | one format for every reader |
| Knots (`knot`, `valleyhook/knots.go`) | plan branches | derive, validate, admit one commit | races for a branch tip | a plan only ever grows from its tip |
| Restacker (`restack`) and rebase engine (`rebase`) | a durable journal, scratch refs | plan, build, keep, push in phases, recover | crashes and unknown push results | a version is appended once; a report says what happened |
| Check worker (`status/worker.go`, `wake.go`) | wake directory, failure record, running batches | claim, scan, start, publish, acknowledge | claims of killed passes, backoff, memory | every check that is needed is eventually run, none in a tight loop |
| Attestation runner (`attest`) | reservations in a directory | admit, run, sign, publish | dead reservations | the memory budget holds |
| Web store, publisher, receiver, server (`web`) | generations, an authorization, sequences, locks | stage, activate, prune, authorize, serve | crash between swap and sweep; a page rendered under withdrawn access | readers see one whole generation they may see |
| Reader state (`web/readerstate`) | a state file | redeem, log out | crash-safe commit, single use | a link is redeemed once |
| Telemetry (`telemetry`) | numbered segments | append, read, prune | crash in an append | numbers are never reused |
| Client and pure parts (`bin/valley`, `status` rendering, `derive`, `composed`, `delta`, `note`, `identity`, `sigverify`, `review`, `readaccess`, `selfupdate`, `exactjson`) | none, or a local checkout | build refs, compute, render | - | functions of their inputs |

How they interact: clients and the worker push refs through the hook. The host's post-receive hook
marks wake directories. The integrator reads requests, records and notes, moves the target and its
own records in one transaction, and marks the worker and the controllers that read the floor. The
restacker reads the target and pushes new versions and reports through the hook. The worker reads
records and publishes notes through the hook. The web publisher reads everything and writes
nothing back.

## 2. Modules

| Module | Models | Depends on |
|---|---|---|
| `Integrator` | a pass of a controller, step by step, with every other writer of the refs between steps | `LandingPromise` |
| `LandingPromise` | what the integrator promises to whoever approves (abstract) | |
| `PushHook` | pushes to change records and restack reports: the hook's judgement and git's installation | `ChangeLifecycle` |
| `ChangeLifecycle` | what a record promises to its readers (abstract) | |
| `WakeLoop` | when passes start: marks, claims, the watch, deadlines | |
| `Restacker` | passes of the restacker: the journal, the plan, phased publication, recovery, retirement | `RestackPromise` |
| `RestackPromise` | what the restacker promises to authors (abstract) | |
| `CheckWorker` | passes of the check worker, its attest runs, its failure record and its wake directory | `Admission` |
| `Admission` | how attest runs share the memory they evaluate in | |
| `WebStore` | the store of the web receiver and server: uploads, authorizations, prunes, requests | |
| `IntegratorProofs`, `IntegratorLandingProofs`, `PushHookProofs`, `WakeLoopProofs`, `RestackerProofs`, `RestackPromiseProofs`, `CheckWorkerProofs`, `WebStoreProofs` | the theorems | the module they are named for (`RestackPromiseProofs`: `RestackerProofs`), `TLAPS` |
| `MCIntegrator`, `MCPushHook`, `MCWakeLoop`, `MCRestacker`, `MCCheckWorker`, `MCWebStore` | small instances | the above |

Three detailed modules implement an abstract one, each through `INSTANCE ... WITH`: `Integrator`
implements `LandingPromise`, `PushHook` implements `ChangeLifecycle` and `Restacker` implements
`RestackPromise`. `CheckWorker` composes with `Admission`: it takes that module's actions for the
steps of its runs, so that a run's line for memory is `Admission`'s by definition and no run checks that.

### Integrator

`history` is the target: a commit is its position and a tip is a length, since the target only
gains commits. `request`, `record`, `attested`, `transfer`, `landing`, `memo` and `bound` are the
refs: the integration requests, the change records (by their state and their versions' heads), the
notes stored by workers, the integrator's own attestation refs, the landing records, the outcome
records and the inputs records. `inputs` is the floor and the known-signers file as they are.
`pass[p]` is what the pass of controller `p` has read: its program counter and the local variables
of `reconcile`, `handle`, `act` and `land`.

A tree is the set of deltas applied to the base. `Brings[h]` gives the version heads among the
ancestors of `h`, so a stacked head brings what is below it; `Conflicts` says where a delta does not
apply; `Disturbs` says where a landed delta changes the closures a change's checks name, so that
evidence for its own tree no longer transfers. A landing's tree is the union of both.

The steps of a pass are the code's reads and writes, in its order:

| Action | Code |
|---|---|
| `List`, `ReadIndex` | `requests`, `readRecords` |
| `VoidRead`, `VoidDelete`, `VoidRecord` | `void`: the record, tip and evidence are read, the request is deleted with a lease, the outcome is recorded |
| `ReadInputs` | `inputState` |
| `Take`, `Fingerprint` | `handle`: the tip, the evidence, and whether the recorded answer stands (`Answered`) |
| `Refuse` | `refuse`; then, under inputs that did not read, no verdict |
| `Judge` | `act` up to the verdict; the statement composed and signed |
| `Final` | `finalRefusal` |
| `Prepare` | `prepareLanding`, `evidenceUpdates`, `hookReadable` |
| `Land`, `Contended` | the ref transaction applied, or not and tried again |
| `Answer` | `writeAnswer` |
| `Fail`, `Crash` | any command or file of the step failing; the process dying |

A failure does not always end in the outcome `failed`, which is tried again. Where the record a request is named for does
not read, the request is refused as not ready (`records.go:297`); an outcome record that does not read is no
answer. And three failures under a verdict read as facts about the change (`Misjudge`): a `git merge-tree` that fails as a
conflict and an `attest inputs` that fails as evidence that does not transfer (`closures`, `evidence.go:267`, and
`weigh`, `verdict.go:458`), which make it stale, and an `attest verify` that fails as a note that is not what it says, which
rejects it. The history field `misread` marks a verdict reached so, since nothing the code stores does. Which note
a rejection is about depends on the order of the refs, which the model does not keep: any one that alone might have
counted can be it (`Unverified`).

Two reads are merged with a neighbour: `void` reads the record, tip and fingerprint in one step, and
`Judge` reads what the verdict stands on in one step. Both are followed by a step of their own
before anything is written, so whatever moves afterwards still moves under them.

Everything else (`Elsewhere`) is what the hook admits from pushers and what the host does: filing
and removing requests, record updates (`NextRecords`, the hook's rows), notes, pushes to the target,
new inputs, and a recorded failure growing old.

Two more history variables serve the properties: `filed` counts how often each head was requested, and
`quiet[p]` holds the changes that have not been ready since `p` began its judgement.

### PushHook

A record ref's value is the sequence of record commits behind it (each has the one it replaces as
first parent), so reachability is part of the value. `Receive` is the hook up to the judgement of
the record updates, with the count of records it read; `Accept` is the judgement of the reports, whose
`hasRecord` reads a ref; `InstallRecord` and `InstallReport` are git moving one ref of the push, if it
still has the value the push named; `Abort` ends a push in the middle. A client may push any record
near the one it saw, right or wrong (`Near`); the checks are those of `record.go`.

### WakeLoop

Refs are a counter `tip`; a directory is the number of its making, so that a replaced one is a
different one; a deadline is a flag that says it has passed (`hold`: `earliest` lies ahead; `rung`:
`next` has passed; `retry`: `retryAt` has passed; `claimed`: no `holdDue`). The loop's steps are
`run` (`Claim`, `ReadRefs`, `PassFails`, `PassLands`, `PassEnds`) and `wait` (`TimerPass`, `Rearm`,
`WatcherPass`, `DuePass`, `Sleep`, and what ends the select). `ReadEvent`, `Overflow` and
`WatchBreaks` are the goroutine that reads inotify. `Mark` is `markDue`, which creates `due` only
where there is none, so that a second mark raises no event. `watchDir` is one step: it ends with the
check that the path still names what it opened, after both watches are in place.

### Restacker

Main's tip is a number, given in order; `line` holds the tips it descends from, so that main may also
be reset. A head is the tip it descends from and the work of each change it carries, which is what the
code compares of two heads. A record ref and a report ref only grow, so a lease on one is its
length. `journal` is the file, a set of families, each with the operation and the changes that name it;
`retained` is the refs the scratch repository keeps to what it names, and `pass` the memory of the
running pass. A head says which family rebased it (`by`), so that two rebases of one version differ as their
commits do. The writes of one `Read` are pushed family by family in the code; here they wait together
in `todo` and go in any order that keeps each family's own (`Turns`).

| Action | Code |
|---|---|
| `Start` | `pass`: the journal loaded, or a plan where it is empty |
| `KeepObjects`, `WriteJournal`, `LetGo`, `KeepFails` | `journal.save`: refs to every object first, then the file, then the refs it no longer needs |
| `Read` | one read of origin in `settle`; `known = FALSE` is a history that could not be read, whose writes stop |
| `Push`: `PushBranches`, `CheckHead`, `PushVersion`, `PushReport` | the phases of a family (`publish.go`): branches, each version while its branch is still at its head, the reports (`Filed`); each push leased, and refused as a whole where the lease does not hold |
| `Refuse`: `NotTaken` | a push origin did not take: its lease is gone, or it failed. The pass acts on no answer, so one taken whose answer is lost is a push like any other |
| `Replace` | `replace`: the reports of what happened, built from what origin holds now, kept before they are pushed |
| `Again`, `Retire` | settling again, at most `MaxSteps` times; a family that is done leaves the journal |
| `Plan` | the families, judged from one read; conflicts and empty layers become reports |
| `Fail`, `LoseScratch` | a crash at any step; the scratch repository removed |

`Else` is everyone else: authors who rework, push, pause and delete, requests, verdicts, landings, main moving.
The commits themselves are the constants `Conflicts` and `Empties`: which change conflicts, or adds
nothing, on which tip.

### CheckWorker and Admission

A tree is a value; `own` and `others` are the evidence origin holds, `stored` what the worker's own
repository holds. `record` is the failure record on disk, by the keys of what failed (a build of a tree's
checks, or a push of a tree's ref), and `over` the ones whose wait has ended. `runs[p]` is an attest
process: it may outlive the pass that started it (`mine`).

| Action | Code |
|---|---|
| `Start`, `Claim` | the locks; `due` renamed to `claimed`, or the timer |
| `View`, `ReadChange`, `NotDerived`, `ReadFails` | a scan: the refs, then each ready change and its missing checks |
| `EndScan` | the failure record pruned, runs of superseded versions stopped |
| `AdmitJob`, `Admitted` | a job takes a slot |
| `Reaped`, `Complete` | the loop's select handles a run's end: what it stored, or a failure recorded |
| `Pushes`, `PushWaits` | publication of what a run stored; a failure recorded, or not written |
| `Tick`, `End` | a scan started beside the runs; the acknowledgement of `claimed` |
| `Reserves`, `Admits`, `Evaluated`, `Stores`, `CheckFails`, `NotReserved`, `Dies` | a run: the line for memory, the evaluation, the builds, the ref it stores |
| `DiesStoring`, `GitStores` | a run killed while the git it started stores its ref, and that git's end |
| `Kill`, `Drops`, `Bars` | the pass killed; the nix process of a dead run gone at last; who holds the wake directory's lock |

What a killed pass leaves running holds its locks, but not all of it holds both. A run and the git that stores
for it (`storing`) hold the state directory's lock, and the wake directory's where the pass had that. A nix process holds only
the latter (`barring`): its reservation is passed to it as descriptor 3, in the place of the state directory's lock
(`attest/check.go:128`). So a pass with `--wake` (`Start(TRUE)`) waits for all of it to end, and one without, or one that
cannot lock the wake directory, may run beside an evaluation that a dead run left (`Start(FALSE)`). One of the latter spends the budget of
events, except beside such an evaluation, when nothing else can start. Other children of
a killed attest hold the locks too and store nothing; they only delay the next pass.
A run that ends well may find its ref gone, or see the record fail to be written: `Complete` with `fine = FALSE`.

The project is one. The queue's order is free and an estimate is any of a set. A worker's own push
marks its own wake directory before the pass returns, as the post-receive hook does. The scan reads in a
fixed order. An unreadable failure record is read as empty by the code and is not produced here; an
acknowledgement that fails is a pass that did not handle its mark. Telemetry and the record of memory
peaks are left out.

In `Admission`, a reservation is a file with a place in line and an estimate, held with a lock;
a process that dies gives up the lock, and the memory stays used until the evaluation it started has
ended (`orphaned`).

### WebStore

Two streams meet in the store. Uploads are staged and committed under the activation lock (`op`), one at a time.
Authorizations replace the stored one under a lock of their own (`authOp`). A prune takes both, in
that order. `pruning` is the flag of the goroutine that prunes after authorizations, with its three
states: not running, running, and *returning*, when `Prune` has returned nil and the deferred reset
has not run.

| Action | Code |
|---|---|
| `Stage`, `StageBody`, `StageTooLarge`, `StageStops` | `Stage`, the bodies' writers; a newer upload stops older ones; the storage cap refuses after it has swept |
| `Commit`, `Named`, `Build`, `Incomplete`, `BadBundle`, `PastUsage` | `Activate` up to the staged generation; a repository built past the storage cap is removed again and the commit refused (`store.go:763`) |
| `Move`, `Accept`, `Swap`, `Done` | the rename into `generations`, the high-water mark, the link, the sweep |
| `Select`, `Reselect`, `RenameWithdrawn`, `FindsItHeld` | `Store.prune` with `withdrawn` and `renameWithdrawn` (`authorize.go:272`): what to delete, the locks, the second look, the renames |
| `Crash`, `OpenStore`, `Recover`, `Unchecked` | the process ends anywhere; `OpenStore` finishes or discards |
| `Authorize`, `Replace`, `Acknowledge` | `Authorize` and the receiver's handler |
| `Prune`, `PruneEnds`, `PruneTimesOut` | the goroutine that the receiver's `prune` starts (`receive.go:262`) |
| `Render` to `Finish` | a request: the authorization read, the view, the export opened, the generation held, the page rendered, the check again under the serving lock, the headers |

The writers of bodies that a newer upload stops are folded into the upload's step. An upload refused for
its basis, or for the storage cap, only refuses. `export.json` is compared by its hash in the code and by
its sequence here. A crash is one of the process; what a power cut takes is left to the syncs, which
are not modelled. An error of a prune other than a held generation is the timeout. Renames that fail
in the middle of a prune, sessions, the reader state and error pages are left out.

## 3. Runs

Every run is `tlc -config X.cfg M`. The bounds are those of the `.cfg`.

| Run | Configuration | Question | Answer |
|---|---|---|---|
| `integrator` | `MCIntegrator.cfg`: one controller, 2 request names, 2 stacked heads, one change and signer, 3 outside writes, 1 failure or crash | all safety properties of a pass | hold |
| `integrator_live` | `MCIntegratorLive.cfg`: fair passes, 2 outside writes, 1 failure | is everything served in the end | yes |
| `integrator_inputs` | as `integrator`, any content of the inputs may follow any | does a standing answer stay true | no: section 6 |
| `integrator_void` | as `integrator`, no failures | is a request voided only while its change is withdrawn | no: section 6 |
| `push_hook` | `MCPushHook.cfg`: an approver and a restacker, 3 changes, 2 heads, one branch, 3 updates of a record, one record past its first at a time, a bound of 1 record | lifecycle, history, held heads and the soft bound under racing pushes | hold |
| `wake` | `MCWakeLoop.cfg`: 2 ref moves, 1 landing, 1 failed pass or stuck due, 2 breaks (crash, failed watch, replaced directory, killed writer) | are marks served | yes, without the interval |
| `wake_lost` | `MCWakeLoopLost.cfg`: 1 move, 1 failed pass | is a mark ever lost | yes, by a pass that fails: section 6 |
| `restacker` | `MCRestacker.cfg`: 2 stacked changes, 2 automatic versions, main up to 3, 2 operations, 1 move of someone else, 2 crashes or lost pushes | is what a pass began seen through and told | yes |
| `restacker_lost` | `MCRestackerLost.cfg`: as `restacker`, without others, with a scratch repository lost | does it settle without its scratch repository | no: section 6 |
| `check_worker` | `MCCheckWorker.cfg`: 2 changes, 2 trees, 2 checks, 2 processes and slots, memory for 2, 1 event | marks, builds, waits, memory, publication | hold |
| `web_store` | `MCWebStore.cfg`: 2 uploads, 3 authorizations of 2 projects, 1 request, 2 faults | is anything in use deleted, or anything withdrawn served | no |
| `web_store_lost` | `MCWebStoreLost.cfg`: fair, 2 authorizations, no request, no fault | is what is withdrawn deleted | not always: section 6 |

What the properties say, and why they are not obvious:

- `LandsWhatItJudged`, `LandingsRecorded`, `EvidenceKept`: the landing transaction is the only
  write that compares; everything it stores was built from earlier reads. Dropping any one
  comparison breaks one of these.
- `EvidenceReadable`: notes are only ever added, and the same tree can land many times; what is
  measured has to be the set that would be stored.
- `StandingAnswerIsTrue`: a pass skips a request whose recorded answer stands; the fingerprint has
  to name everything the answer depends on. It speaks of verdicts that git and attest answered for: one
  reached on a misread answer stands as long, and may be wrong (section 6).
- `ApprovalKept`, `OneLandingPerApproval`: requests are deleted with a lease on a head, while they
  may be removed, moved and filed again. The second is a refinement: `Integrator` implements
  `LandingPromise` with `owed` as what was filed and has not landed.
- `PausedNeverLands`: a change that was not ready all the way from the verdict to the landing lands
  none of its heads, under whatever name and however deep in a stack. (One that is paused after the
  last read of the records may still land: the code says so at `integrator/refs.go:575`.)
- `EventuallyServed`, `WithdrawalVoids`: no recorded answer keeps a request from being landed or
  voided once it should be, a recorded failure or a refusal included. A verdict that was misread is the one answer that may:
  the first property says that what is left behind is left behind by that and by nothing else.
- `SeqIsPlace`, `HeadsHeld`, `ReportsOfRecorded`, `RecordsBounded`: what has to hold of the refs
  although a push was judged before others moved them and may be installed in part.
- `RecordsFollowLifecycle`: `PushHook` implements `ChangeLifecycle`.
- `AwakeToMarks`: whenever the loop waits and a marked move is unread, its wakeup is under way.
- `DuePassesAreMarked`: each pass a due starts has a due creation of its own, so neither a due that
  stays nor a stale event starts one pass after another.
- `MarksAreServed`: under fairness *without* the interval, every marked move is read, across
  failures of the watch and replaced directories, once the directory stays and the last pass and its
  claim were in order. `IntervalRecovers`: with the interval, every move is read, marked or not.
- `JournalKept`: refs to the objects are taken before the journal names them and dropped after it no
  longer does, in a pass that may end between any two.
- `JournalAgrees`: families carried over and planned at once write different changes and branches;
  a journal in which two write one does not read back, and no pass starts again.
- `MovedIsSeenThrough`: origin took a family's branches and the answer was lost: the journal names
  the family until each of its versions is added, unless someone else moved one of them.
- `OnlyRecordedWorkMoves`: work an author pushed to a branch and did not yet record is never rebased away.
- `LetGoReported`, `KeepsPromise`: no family is forgotten untold, and a report says of a version that it was
  added only once it was, once per operation. The second is the refinement of `RestackPromise`.
- `Settles`: once others are still, the journal empties or waits for a request that may still land.
- `MarksKept`: `claimed` is acknowledged by a pass that read everything after the mark, and by no other.
- `OneBuilder`, `BuiltOnce`: runs outlive their pass; attest stores with a plain `update-ref`, so two
  of them about one tree would lose one's evidence, and a tree built is not built again though its push was lost.
- `RetriesWait`: what failed waits while it is asked for, whatever a scan prunes from the record and
  across kills. It is asked for while a ready change lacks it by origin's policy and by the one the
  scan under way has read: a policy that grows during a scan may leave a failure of the new one unmet and
  forgotten, as may a kill, or a write of the record that fails, before it is saved (`Forgotten`).
- `MemoryHeld`: the evaluations, those of killed runs too, stay within the budget or one runs alone.
- `EventuallyPublished`, `MarksHandled`: once others are still, everything needed is published and
  no file is left that starts passes.
- `KeptInUse`: a sweep and a prune decide what to delete from what they read before they hold
  everything off; a generation may have become active, held, or named again meanwhile.
- `AnswersHeld`: a page takes several reads; it goes out only if the authorization stored *then* names the
  project, and with one export's content.
- `ServesForward`: the high-water mark, the link and the generation are moved by separate writes, and a
  recovery decides what to finish from what it finds.

Every property has a mutant, an operator that differs from the code's in the way a plausible bug
would (`Matches_NoEvidence`, `Answered_NoInputs`, `Watched_NothingOwed`, `Reselect_Stale`, ...), under
which the property fails.

### Bounds

Two stacked heads are enough for a head to land below another and for the same tree to land twice.
Two names give a request that is named for a change and one that is not, for the same heads. Three outside
writes are what the longest of the hazards takes (a request moved and moved back, or paused and
approved under another name, while a third ref moves). `LandingTries = 2` has a first try and a last.
`NoteLimit` is reached in the safety run and not in the liveness run, whose landings could not all
be stored otherwise. Two controllers at once need no run: a landing, a voided request and a stored note
are the writes two of them could take from each other, and `LandingsRecorded`, `EvidenceKept` and
`ApprovalKept` are proved for any set of controllers. `OneLandingPerApproval` is for one controller, and it needs that: with
`Controller = {watch, hand}` TLC finds, with no outside write and no failure, that both list a request, one lands it, and
the other comes to it in its own listing, judges its head at the new tip and lands it again. `watch` keeps a second
`watch` out by its lock; a `reconcile` run by hand takes none (`integrator/main.go:151`).

For the hook, one push per principal at a time is in flight; two updates after a first (`MaxSeq = 3`) make every row of
the table follow a creation, a pause that is lifted and a restack of what is paused among them. One record grows past its
first update at a time, counting what is pushed (the constraint `OneGrows`): no row reads another change's record, and
what relates records, their number and the heads and branches that one push names, takes their first updates only. Three changes against a bound of one record are what the soft bound needs
(two in flight beside one installed). All its properties are proved for all constants.
Symmetry is used for heads, branches and changes, which are only compared, and only where no
liveness is checked. For the wake loop one writer is enough for marks that coalesce, since a due may
be there from before or be left by the previous mark.

For the restacker, a stack of two is what makes a family move in part; one move of someone else may come at
any step, and two faults are a push not taken and a crash, or two crashes. Main at 3 gives a
conflict on one tip and an empty layer on the next. For the check worker, the initial states hold what an
earlier pass may have left (a failure record, a stored ref, a mark due or claimed), so that one more event is a second. Two projects, one withdrawn by the second
authorization and named again by the third, are what a prune that looked once would get wrong; two
faults are a failed link and the crash that recovery then has to read.

The integrator's, the wake loop's and the web store's configurations turn the deadlock check off: with
the outside writes spent and nothing pending, there is nothing to do.

### Fairness

Passes are weakly fair because `watch` starts one at every interval and nothing in a pass blocks on
others. A recorded failure grows old by the clock (`retryAfter`). Pushers, failures and crashes are
never fair. For the wake loop, the loop itself, the goroutine that reads inotify, the hold after a
failed pass and the retry of the watch are fair, all of which are bounded sleeps or runnable
goroutines; the interval is not, so that `MarksAreServed` does not rest on it, and
`IntervalRecovers` names it as its premise. A marked directory that is removed for good is covered
by a premise too.

The restacker's loop runs a pass again for ever and a push ends by being taken, refused or lost, so its
steps are weakly fair together. The check worker's timer starts passes with `--wake` for ever; its select takes any ready case, so a run's end is strongly fair against the ticks; a run goes on, and the
git and the nix process of a dead one end; waits end; the hook that moved a ref marks. The receiver's goroutines are fair, and it
is started again when it ends.

## 4. Proofs

`IntegratorProofs` holds for any constants that satisfy `ConstantsAssumption` (request names are
numbers, `None` is not a value, `Brings[h]` contains `h`, the bounds are numbers): any numbers of
controllers, names, heads and changes, and any numbers of failures and crashes.

- `Typing`: `Spec => []TypeOK`. `TypeOK` is inductive because it says of each pass what it has read
  at its program counter (`PassShape`): a pass that judges has readable inputs, a pass that applies
  has a lease. One lemma per destination (`ToJudge`, `ToApply`, ...) shows that the record a step
  makes has the shape of where it goes; `PassStepShape` collects them by action.
- `NoNoteIsLost` (`EvidenceKept`) follows from one lemma about landings (`LandKeeps`: the transaction
  compares each evidence ref it writes, so what it writes contains what is there) and from no other
  step taking a note away (`TransferGrows`).
- `NoApprovalIsLost` (`ApprovalKept`), by the steps that write `request` (`NextTakes`).
- `EveryLandingIsRecorded` (`LandingsRecorded`): a landing stores its statement and its record with the
  target's move (`LandStores`), the target only grows (`TargetGrows`), and notes are kept, so what was
  recorded stays recorded (`RecordedGrows`).
- `LandingsApply` (`LandsWhatItJudged`) needs a strengthening, since the tip may move between the
  judgement and the landing: `JudgedInv` adds that every pass's tip was a tip (`TipWasRead`) and that
  a pass past its judgement holds a head that applies to the tip *it read* (`Judged`). The target
  only grows, so trees at earlier tips never change (`PastStays`), and the transaction compares the
  tip.

`WakeLoopProofs` holds for any writers and bounds (`ConstantsAssumption`: the bounds are numbers), so
for any number of crashes, failed passes and replaced directories. `WakeInv`, the inductive
invariant of `Waking`, joins to the types (`Typing`):

- `Counted` and `Ordered`: nothing is read or marked beyond the moves there were; a watch that is
  not there was said to have failed; a loop that waits owes no pass.
- `MarkStands`: of a marked move no pass has read, the due is still in the directory watched, or the
  pass that will read it is on its way. `due` is removed *before* any ref is read, which is what
  keeps it across `Claim` and `ReadRefs`.
- `DueIsTold`: beside a due that may start a pass, a waiting loop has its event queued or noted. It
  is on the directory and not on the event that the loop decides to sleep (`Sleep`), and a due that
  appears after the watch is queued.
- `DueIsFresh`: a due that may start a pass has started none.

`NoMarkIsSleptThrough` (`AwakeToMarks`) follows from `Ordered`, `MarkStands` and `DueIsTold`, and
`NoDueSpins` (`DuePassesAreMarked`) from `DueIsFresh`.

`IntegratorLandingProofs` proves, for the same constants, what a pass's reads are worth when it uses them: the last checks
of a landing, the answers it records, the requests it listed. The lemma `Entering` says how a pass comes to prepare and to apply a landing.

- `PausedStaysOut` (`PausedNeverLands`): `QuietOK` adds that a pass about to land holds no head of a
  change in its `quiet` set, since `finalRefusal` read the records after the verdict and a change that
  became ready since has left the set.
- `EvidenceStaysReadable` (`EvidenceReadable`): `ReadableOK` adds that what a pass is to store was
  measured (`Measured`) against the refs it has a lease on. A step of someone else may grow them, and
  then the lease fails; where they are as they were, `StoresStay` says that what is stored is what was measured.
- `AnswersStayTrue` (`StandingAnswerIsTrue`): the hypothesis `NeverBack` is that what replaces the inputs
  has never been them before, as when signers are only accepted; the run `integrator_inputs` shows what
  happens without it. `AnswersHold` says of each recorded answer, and of each a pass has reached, that the
  inputs and evidence it names are of the past (`DigestPast`, `EvidencePast`) and that if they all stand the verdict
  now is the one recorded (`HoldsNow`). Evidence only grows, so what an answer rests on, if it stands after a
  step, stood before it (`StillHolds`). A verdict reads the signers again, after the inputs were digested: where
  the digest is still what stands, it was reached under that (`HeldByPass`). An answer reached while git or attest failed
  under the verdict is carried as such (`misread`) from the failure to the record, and nothing is said of it.
- `LandingsAreApproved` (`OneLandingPerApproval`, the refinement of `LandingPromise`), for one controller: `OwedOK` says that
  an approval is owed for each request that stands and for each the pass may still land (`Pending`), and two
  where the pass is applying a landing that will leave standing a request for the same head, filed since.
  A pass takes up no request it did not list (`Narrows`), and a landing counts once (`LandedCounts`).

`PushHookProofs` holds for any changes and bounds, and any principals (finitely many, and one at
least: that is what `RecordsBounded` counts by). `HookInv` is that each ref's
history is `Kept`: a commit's `seq` is its place, the history holds the head of each version, and the
newest version is active; and that each push in hand was judged (`PushOK`), against the value its
installation compares. From it follow `Typing`, `NoUpdateIsLost` (`SeqIsPlace`), `EveryHeadIsHeld`
(`HeadsHeld`) and `NoReportOfNothing` (`ReportsOfRecorded`). `HookImplementsLifecycle`
(`RecordsFollowLifecycle`) shows the refinement: an update is judged against a value of the ref
and installed only while the ref still has it, so the step is the lifecycle's step from what is there now.

`RecordsStayBounded` (`RecordsBounded`) needs more than the records there are, since a push is counted
when it is judged and installs later. `BoundOK` bounds, for every set of principals, the records held
together with what those of the set have in flight (`Flight`): a push that comes in counted what
was held, and the pushes beside it, one less than there are principals, bring `MaxUpdates` each at most
(`ReceiveInBound`); an installation only moves a record from one side to the other (`InstallInBound`).
That finitely many batches are together no larger than their number times the largest (`TogetherSmall`)
is an induction over a finite set, done by taking a least set it would fail for (`LeastSubset`).

`RestackerProofs` and `RestackPromiseProofs` hold for any stacks, operations and bounds, and any number of
crashes, pushes not taken and moves of others. `IInv`, the inductive invariant of the first, says what
origin's refs are (`OriginOK`), that the memory of the pass is in step with the journal (`PassOK`: at
each program counter, which of the journal, `mem` and `next` mirror which), that each family is one
the plan could have made and its progress possible (`FamiliesOK`), and that a write that waits is
one of its family's (`WritesOK`).

- `TypeCorrect` (`TypeOK`), `JournalNeverDisagrees` (`JournalAgrees`): a plan leaves out the changes and
  branches of the families carried over, and no step of a family changes what it was planned from.
- `JournalStaysReadable` (`JournalKept`): `KeptInv` says that what a pass is about to write to the
  journal is kept already, and that it lets go only of what the journal on disk does not name.
- `MovesOnlyRecordedWork` (`OnlyRecordedWorkMoves`): a family's `saw` was a recorded head on its branch, and
  the lease compares.
- `PromiseKept` (`KeepsPromise`, the refinement of `RestackPromise`): `KInv` adds that a head some family
  rebased is anywhere only once that family's branches moved and a version names its operation only once it
  was added (`HistoryOK`); that what a family says was taken was taken (`TookOK`); that a write that
  waits is one its family may still make (`PushOK`); and that a family no one else moved is as the
  restacker left it (`LiveOK`). The last is why a recovery that reads origin again never adds a version twice.
- `MovedAreSeenThrough` (`MovedIsSeenThrough`) and `LetGoOnceReported` (`LetGoReported`): `SInv` adds that
  each family whose branches moved is in the journal or was seen through (`Seen`), and that from a
  read on to the decision taken from it, a family the pass may let go is through (`Through`): its
  versions added, and reported as it happened, before the journal is written without it.

`CheckWorkerProofs` holds for any changes, trees, checks, processes and bounds (there is a change and a
check, and `None` is no run).

- `NoMarkIsLost` (`MarksKept`): `PassOK` and `MarksOK` say that a pass that will acknowledge its claim
  has read the refs after every mark that is not due again; a pass that
  was stopped, or had trouble, acknowledges nothing.
- `OneBuilderPerTree` (`OneBuilder`) and `BuildsOnce` (`BuiltOnce`): `RunsOK` says that while
  a pass runs, every run is its own: it starts only when those of a killed pass have ended, and it starts none
  for a tree one of its own is about. `Thinned` is how the steps of the runs look to it.
- `MemoryIsHeld` (`MemoryHeld`): `LineOK` says that each evaluation under way still fits what is live before
  it in line. Reservations only leave that set, so the last of the evaluations fits beside all the others
  (`LastFits`). That the fold by which the memory is added up does not depend on its order is shown
  by taking a least set two sums would differ on (`SumsAgree`).
- `WorkerTyped` (`TypeOK`): `ValuesOK`, `JobsOK`, `RunTypes` and `MineOK` (a run is about checks its tree
  lacked, has a file of its own from its reservation to the end of its evaluation, and there are no more
  runs than slots).
- `FailuresWait` (`RetriesWait`): what is owed its wait is asked for, has not waited, and is known to the
  pass or the record (`OwedOK`). A whole scan forgets what it did not meet, so the proof has to show
  that it meets each (`MetOK`, `ReadMeets`): the key assess looks for under the policy the *scan* read is
  the one it failed under (`PolicyOK`, `LimitsOK`, `KeyFound`), its tree is neither running (`ApartOK`) nor
  published, and its ref is stored exactly while the pass publishes it (`StoredOK`).

`WebStoreProofs` holds for any exports, authorizations, requests and bounds. `StoreInv` joins to the
types (`StoreTyped`):

- `ReposOK`: a repository staged or of a generation is at the tip its export declares.
- `CommitOK`: the commit under way is of a sequence greater than the high-water mark until `Accept`, and its
  generation is made from `Move` on. Without it a swap could move back.
- `LocksOK`: what a prune is about to rename is withdrawn by the stored authorization, which the
  authorization lock keeps as it is between `Reselect` and the renames.
- `RequestsOK`: a request that holds a generation holds one that is there, and a matched request is of
  the stored authorization, which the serving lock keeps.

From it follow `NothingInUseIsDeleted` (`KeptInUse`), `AnswersAreHeld` (`AnswersHeld`) and
`ServingMovesForward` (`ServesForward`).

What is only model-checked is liveness (TLAPS does not prove it under fairness):
`EventuallyServed`, `WithdrawalVoids`, `MarksAreServed`, `IntervalRecovers`, `Settles`,
`EventuallyPublished`, `MarksHandled`.

## 5. Not modelled

The parts marked `not_modelled` in `PROJECT.json` and why. Of the larger ones: the check coverage and
status views, policy derivation, read access, the markdown and page rendering and signature verification are
pure computations over what is read; the web publisher is a client that builds an export and sends
it again from the start when it fails; the host module is deployment. The repository lock, the
publication of signers, knots, the reader state and telemetry have state of their own and are in the
plan (section 7).

In the modelled parts: wording, timing
lines, telemetry and bus events; the parsing of records and notes (a value is either well formed or,
for a push, refused); a git ref transaction is atomic, which git itself only approximates across a
crash of the host; the per-check weighing of evidence is one relation; several targets, whose passes
share nothing but the notes; the rebase engine's own commits; what a check does; the web server's loads
of exports and its pools of views and git slots.

## 6. Findings

- `integrator_inputs`. `integrator/inputs.go:66` says that a known-signers file that changes under a
  pass is noticed by the next, which "reads a different digest and judges again". The digest is taken once and
  the file is read again for each verdict, so a file that changes and changes back around a
  verdict leaves an answer reached under the content in between, and no later pass sees a different
  digest.
- `integrator_void`. `docs/architecture.md:562` says a request is voided "only while the change is
  still withdrawn". The record is read, then the tip and the evidence, and the deletion is leased on
  the request's head only; a change readied in between has its approval deleted all the same.
- `wake_lost`. `integrator/wake.go:27` says "a mark is never lost" and `docs/architecture.md:741` that
  the order makes it impossible. A pass that claims a due and then fails to list the requests has
  consumed it: the next pass comes with the interval, unless something else is marked.
- `restacker_lost`. `restack/recover.go:40` says that a family whose writes stop does not stop another's, and
  `publish.go:15` that a pass that ends anywhere leaves a journal the next one finishes. The scratch repository is
  made again when it is missing, but `keep` (`journal.go:480`) then asks git for refs to objects that
  are gone: when a family's branches were taken, every later pass fails there, and nothing of any family
  is written any more.
- `web_store_lost`. `receive.go:219` says the repositories an authorization withdrew are deleted in the
  background, and `:254` that no prune is started beside a running one because that one reads the
  authorization again. A goroutine whose `Prune` returned nil (`:272`) reads it no more, and its flag
  (`:267`) is still set: an authorization acknowledged between the two starts nothing (`:263`), and what it
  withdrew stays until a later authorization, upload or start.

Three remarks that no run states. `integrator/refs.go:156` says that the verdict is a function of the head, the tip, the
evidence and the inputs. It is also one of what git and attest answered: a `git merge-tree` or an `attest inputs` that fails
makes a change stale (`evidence.go:267`, `verdict.go:458`), an `attest verify` that fails rejects it, and the answer is recorded
without a time (`refs.go:204`), so that it stands until one of the four moves. The model has these
failures, and `StandingAnswerIsTrue` and `EventuallyServed` say that they are the only way in which an answer that stands is wrong. `recover` checks a generation against the authorization stored *now*
(`store.go:690`): where an authorization named one more project between `Activate`'s read and a crash,
an undamaged generation is refused as not whole, and the earlier one is kept. And a commit that failed between
`Move` and `Accept` makes a retry of the same sequence fail in `Move` until the generation is swept.

## 7. Plan

What is left, in order.

1. `ServerLoads`: the loads of exports in `server.go` (who waits for whom, leaving, the pool of views
   and the git slots), composed with the requests of `WebStore`.
2. `ReaderState`: sessions and single-use links over a file replaced behind one lock, with a crash
   between the write and the answer.
3. `Verdict`: `Decide` and `weigh` as operators over bounded snapshots against a reference
   definition, and the refinement of `Integrator`'s `Judge`.
4. `RepoLock` (with the signers publication), `TelemetryStore`, knots: small modules, as far as they
   earn their runs.

Proofs: every safety property of a passing run is proved; those of the modules above come with them.
