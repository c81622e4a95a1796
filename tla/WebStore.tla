------------------------------ MODULE WebStore ------------------------------
(***************************************************************************)
(* The store a web receiver writes and a web server reads                  *)
(* (src/web/export/store.go, src/web/export/authorize.go), with the        *)
(* receiver's requests (src/web/cmd/valley-web-receive/receive.go) and the *)
(* server's (src/web/server/server.go).                                    *)
(*                                                                         *)
(* Two streams meet here.  An upload is staged, built and made the active  *)
(* generation, one at a time under the activation lock.  An authorization  *)
(* replaces the stored one under a lock of its own, at any time.  What it  *)
(* withdraws is deleted from the active generation by prunes, which take   *)
(* both.  A request of the server renders from a generation it holds, and  *)
(* is held to the authorization stored when its headers are written.       *)
(***************************************************************************)
EXTENDS Integers

CONSTANTS
    Project,
    None,
    Exports,           \* Exports[s][p]: the tip of p in the export of sequence s, 0 for none
    Naming,            \* the sets of projects an authorization may name
    Reader,            \* the server's requests
    MaxAuthorization,  \* bound: authorizations signed
    MaxFaults          \* bound: crashes, failed calls and requests given up

Sequence == DOMAIN Exports

ASSUME ExportsAssumption ==
    /\ Sequence \subseteq Nat \ {0}
    /\ Exports \in [Sequence -> [Project -> Nat]]
ASSUME NamingAssumption == Naming \subseteq SUBSET Project
ASSUME BoundsAssumption == MaxAuthorization \in Nat /\ MaxFaults \in Nat

VARIABLES
    \* The store's directory.
    authorization,  \* the newest stored, sequence 0 for none
    highWater,      \* the greatest sequence accepted, 0 for none
    current,        \* the active generation's sequence, 0 for none
    generations,    \* for each sequence, the tip of each repository held, 0 for none
    made,           \* the sequences that have a generation
    staging,        \* for each sequence, what its upload has staged
    uploads,        \* the sequences that have a staging directory
    \* The receiver's memory.
    up,             \* whether it takes requests
    staged,         \* the upload newest staged since it started, 0 for none
    open,           \* the upload whose bodies take writers, 0 for none
    op,             \* who holds the activation lock, and how far it is
    authOp,         \* who holds the authorization lock, and how far it is
    pruning,        \* the goroutine that prunes after authorizations
    \* The server, and what is only observed.
    request,
    acknowledged,   \* the greatest authorization Authorize has returned
    faults

store == <<authorization, highWater, current, generations, made, staging, uploads>>
memory == <<up, staged, open, op, authOp, pruning>>
vars == <<store, memory, request, acknowledged, faults>>

ExportFile == "export.json"

Authorization == [seq : 0..MaxAuthorization, names : SUBSET Project]
NoAuthorization == [seq |-> 0, names |-> {}]

NoRepos == [p \in Project |-> 0]
Empty == [bodies |-> {}, repos |-> NoRepos]

Free == [by |-> "none", pc |-> "idle", seq |-> 0, names |-> {}]
Unlocked == [by |-> "none", pc |-> "idle", next |-> NoAuthorization]
NoRequest == [pc |-> "idle", project |-> None, auth |-> NoAuthorization, view |-> 0, gen |-> 0, tip |-> 0]

Init ==
    /\ authorization = NoAuthorization
    /\ highWater = 0 /\ current = 0
    /\ generations = [s \in Sequence |-> NoRepos] /\ made = {}
    /\ staging = [s \in Sequence |-> Empty] /\ uploads = {}
    /\ up = TRUE /\ staged = 0 /\ open = 0
    /\ op = Free /\ authOp = Unlocked /\ pruning = "no"
    /\ request = [r \in Reader |-> NoRequest]
    /\ acknowledged = 0
    /\ faults = MaxFaults

-----------------------------------------------------------------------------
(***************************************************************************)
(* What the steps are made of.                                             *)
(***************************************************************************)

Declared(s) == {p \in Project : Exports[s][p] # 0}

\* The tip the active generation holds a project at.
HeldTip(p) == IF current = 0 THEN 0 ELSE generations[current][p]

\* Whether a reader's shared lock is on a generation.
Held(s) == \E r \in Reader : request[r].pc = "holding" /\ request[r].gen = s

\* The bodies an upload still needs: none for a project not named, built, or
\* carried from the active generation.
Needs(s) ==
    ({ExportFile} \ staging[s].bodies)
    \cup {p \in Declared(s) \cap authorization.names :
            /\ p \notin staging[s].bodies
            /\ staging[s].repos[p] = 0 /\ HeldTip(p) # Exports[s][p]}

\* The projects the active generation holds that the authorization does not
\* name; without one, none.
Withdrawn ==
    {p \in Project : authorization.seq # 0 /\ HeldTip(p) # 0 /\ p \notin authorization.names}

\* A goroutine that prunes is started unless one runs, or is about to end.
Started(prunes) == IF prunes = "no" THEN "running" ELSE prunes

\* The sequences a sweep may delete.
Unused == {s \in made : s # current /\ ~Held(s)}

\* Sweeping deletes those of gone, and every upload no longer worth a commit.
Swept(gone) ==
    /\ made' = made \ gone
    /\ generations' = [s \in Sequence |-> IF s \in gone THEN NoRepos ELSE generations[s]]
    /\ uploads' = {s \in uploads : s > highWater}
    /\ staging' = [s \in Sequence |-> IF s > highWater THEN staging[s] ELSE Empty]

\* The holder of the activation lock goes on, or gives it back.
Goes(pc) == op' = [op EXCEPT !.pc = pc]
GivesBack == op' = Free

AtOp(by, pc) == op.by = by /\ op.pc = pc

Faulty == faults > 0 /\ faults' = faults - 1

-----------------------------------------------------------------------------
(***************************************************************************)
(* Uploads: the manifest, the bodies and the commit.                       *)
(***************************************************************************)

\* Stage discards the older uploads and opens this one's bodies to writers;
\* posted again, a manifest finds what it staged.
Stage(s) ==
    /\ up /\ op = Free
    /\ s > highWater /\ \A t \in uploads : t <= s
    /\ uploads' = {s}
    /\ staging' = [t \in Sequence |-> IF t = s THEN staging[s] ELSE Empty]
    /\ open' = s
    /\ staged' = IF staged <= s THEN s ELSE staged
    /\ UNCHANGED <<authorization, highWater, current, generations, made, up, op, authOp,
                   pruning, request, acknowledged, faults>>

\* A manifest past the storage cap is refused, once a sweep made no room.
StageTooLarge(s) ==
    /\ up /\ op = Free
    /\ s > highWater /\ \A t \in uploads : t <= s
    /\ Swept(Unused)
    /\ UNCHANGED <<authorization, highWater, current, memory, request, acknowledged, faults>>

\* One given up half-way has stopped the other writers, and may have deleted
\* some of the older uploads.
StageStops(s) ==
    /\ up /\ op = Free
    /\ s > highWater /\ \A t \in uploads : t <= s
    /\ Faulty
    /\ \E older \in SUBSET (uploads \ {s}) :
        /\ uploads' = uploads \ older
        /\ staging' = [t \in Sequence |-> IF t \in older THEN Empty ELSE staging[t]]
    /\ open' = s
    /\ UNCHANGED <<authorization, highWater, current, generations, made, up, staged, op, authOp,
                   pruning, request, acknowledged>>

\* A body that verified is kept while the upload's bodies take writers.
StageBody(s, b) ==
    /\ up /\ staged = s /\ open = s /\ s \in uploads
    /\ b \notin staging[s].bodies
    /\ staging' = [staging EXCEPT ![s].bodies = @ \cup {b}]
    /\ UNCHANGED <<authorization, highWater, current, generations, made, uploads, memory,
                   request, acknowledged, faults>>

\* Activate takes the newest upload, when nothing of it is missing.
Commit(s) ==
    /\ up /\ op = Free /\ staged = s
    /\ s > highWater /\ s \in uploads /\ \A t \in uploads : t <= s
    /\ Needs(s) = {}
    /\ op' = [Free EXCEPT !.by = "commit", !.pc = "named", !.seq = s]
    /\ UNCHANGED <<store, up, staged, open, authOp, pruning, request, acknowledged, faults>>

\* The authorization is read again, for what to build; a repository staged
\* of a project it withdrew is removed.
Named ==
    /\ AtOp("commit", "named")
    /\ op' = [op EXCEPT !.pc = "build", !.names = authorization.names]
    /\ staging' = [staging EXCEPT ![op.seq].repos =
                      [p \in Project |-> IF p \in authorization.names THEN @[p] ELSE 0]]
    /\ UNCHANGED <<authorization, highWater, current, generations, made, uploads, up, staged,
                   open, authOp, pruning, request, acknowledged, faults>>

Wanted == Declared(op.seq) \cap op.names

\* From its bundle, or carried from the active generation at the same tip.
Buildable(p) == p \in staging[op.seq].bodies \/ HeldTip(p) = Exports[op.seq][p]

Build(p) ==
    /\ AtOp("commit", "build")
    /\ p \in Wanted /\ staging[op.seq].repos[p] = 0
    /\ Buildable(p)
    /\ staging' = [staging EXCEPT ![op.seq].repos[p] = Exports[op.seq][p]]
    /\ UNCHANGED <<authorization, highWater, current, generations, made, uploads, memory,
                   request, acknowledged, faults>>

\* A project named since the inventory has no bundle: the commit is refused.
Incomplete(p) ==
    /\ AtOp("commit", "build")
    /\ p \in Wanted /\ staging[op.seq].repos[p] = 0
    /\ ~Buildable(p)
    /\ GivesBack
    /\ UNCHANGED <<store, up, staged, open, authOp, pruning, request, acknowledged, faults>>

\* A repository just built takes the store past its storage cap: it is out of
\* repos/ again at once, its bundle stays, and the commit is refused.  A crash
\* between the two leaves it staged, as Build(p) and Crash do.
PastUsage(p) ==
    /\ AtOp("commit", "build") /\ Faulty
    /\ p \in Wanted /\ staging[op.seq].repos[p] = 0
    /\ Buildable(p)
    /\ GivesBack
    /\ UNCHANGED <<store, up, staged, open, authOp, pruning, request, acknowledged>>

\* A bundle that is refused is removed, to be asked for again.
BadBundle(p) ==
    /\ AtOp("commit", "build") /\ Faulty
    /\ p \in Wanted \cap staging[op.seq].bodies /\ staging[op.seq].repos[p] = 0
    /\ staging' = [staging EXCEPT ![op.seq].bodies = @ \ {p}]
    /\ GivesBack
    /\ UNCHANGED <<authorization, highWater, current, generations, made, uploads, up, staged,
                   open, authOp, pruning, request, acknowledged>>

\* Every repository is staged: the bodies take no writer and are removed.
Discard ==
    /\ AtOp("commit", "build")
    /\ \A p \in Wanted : staging[op.seq].repos[p] # 0
    /\ open' = 0
    /\ staging' = [staging EXCEPT ![op.seq].bodies = @ \cap {ExportFile}]
    /\ Goes("move")
    /\ UNCHANGED <<authorization, highWater, current, generations, made, uploads, up, staged,
                   authOp, pruning, request, acknowledged, faults>>

\* The staging directory becomes a generation, unless one of its sequence is
\* there already, as an earlier commit that failed here leaves it.
Move ==
    /\ AtOp("commit", "move")
    /\ \/ /\ op.seq \notin made
          /\ made' = made \cup {op.seq}
          /\ generations' = [generations EXCEPT ![op.seq] = staging[op.seq].repos]
          /\ uploads' = uploads \ {op.seq}
          /\ staging' = [staging EXCEPT ![op.seq] = Empty]
          /\ Goes("accept")
       \/ /\ op.seq \in made
          /\ GivesBack
          /\ UNCHANGED <<made, generations, uploads, staging>>
    /\ UNCHANGED <<authorization, highWater, current, up, staged, open, authOp, pruning,
                   request, acknowledged, faults>>

\* Once the generation is on disk, high-water names it.
Accept ==
    /\ AtOp("commit", "accept")
    /\ highWater' = op.seq
    /\ Goes("swap")
    /\ UNCHANGED <<authorization, current, generations, made, staging, uploads, up, staged, open,
                   authOp, pruning, request, acknowledged, faults>>

Swap ==
    /\ AtOp("commit", "swap")
    /\ current' = op.seq
    /\ Goes("sweep")
    /\ UNCHANGED <<authorization, highWater, generations, made, staging, uploads, up, staged, open,
                   authOp, pruning, request, acknowledged, faults>>

\* A call that fails, or a client gone before the last look for it.
CommitFails ==
    /\ op.by = "commit" /\ op.pc \in {"named", "build", "move", "accept", "swap"} /\ Faulty
    /\ GivesBack
    /\ UNCHANGED <<store, up, staged, open, authOp, pruning, request, acknowledged>>

-----------------------------------------------------------------------------
(***************************************************************************)
(* Sweeping and pruning, at the end of a commit, by a goroutine of their   *)
(* own after authorizations, and when the store is opened.                 *)
(***************************************************************************)

\* A deletion that fails, or a client gone, leaves some for the next sweep.
Sweep ==
    /\ op.pc = "sweep"
    /\ \E gone \in SUBSET Unused :
        /\ Swept(gone)
        /\ \/ gone = Unused /\ UNCHANGED faults
           \/ gone # Unused /\ Faulty
    /\ Goes("select")
    /\ UNCHANGED <<authorization, highWater, current, up, staged, open, authOp, pruning,
                   request, acknowledged>>

\* What follows when the holder of the activation lock is done.  The prune's
\* goroutine has returned, though its flag is still set; a commit that
\* succeeded starts one; a store that is open takes requests.
Done ==
    /\ GivesBack
    /\ up' = (up \/ op.by = "open")
    /\ pruning' = CASE op.by = "prune" -> "returning"
                    [] op.by = "commit" -> Started(pruning)
                    [] OTHER -> pruning

Prune ==
    /\ up /\ op = Free /\ pruning = "running"
    /\ op' = [Free EXCEPT !.by = "prune", !.pc = "select"]
    /\ UNCHANGED <<store, up, staged, open, authOp, pruning, request, acknowledged, faults>>

\* The flag is cleared once the goroutine has returned.
PruneEnds ==
    /\ pruning = "returning"
    /\ pruning' = "no"
    /\ UNCHANGED <<store, up, staged, open, op, authOp, request, acknowledged, faults>>

\* Readers held the generation for as long as the prune waits.
PruneTimesOut ==
    /\ op.by # "prune" /\ pruning = "running" /\ Faulty
    /\ pruning' = "returning"
    /\ UNCHANGED <<store, up, staged, open, op, authOp, request, acknowledged>>

\* What to delete is selected with the activation lock alone.
Select ==
    /\ op.pc = "select"
    /\ \/ Withdrawn = {} /\ Done
       \/ Withdrawn # {} /\ op' = [op EXCEPT !.pc = "lock", !.names = Withdrawn]
          /\ UNCHANGED <<up, pruning>>
    /\ UNCHANGED <<store, staged, open, authOp, request, acknowledged, faults>>

\* Mutant: what was selected is deleted without looking again.
Reselect_Stale ==
    /\ op.pc = "lock" /\ authOp = Unlocked
    /\ authOp' = [Unlocked EXCEPT !.by = "prune"]
    /\ Goes("rename")
    /\ UNCHANGED <<store, up, staged, open, pruning, request, acknowledged, faults>>

\* With the authorization lock too, only what is still not named is kept.
Reselect ==
    /\ op.pc = "lock" /\ authOp = Unlocked
    /\ authOp' = [Unlocked EXCEPT !.by = "prune"]
    /\ op' = [op EXCEPT !.pc = "rename", !.names = @ \ authorization.names]
    /\ UNCHANGED <<store, up, staged, open, pruning, request, acknowledged, faults>>

\* The generation is locked against readers while they are renamed away.
RenameWithdrawn ==
    /\ op.pc = "rename" /\ (op.names = {} \/ ~Held(current))
    /\ generations' = [s \in Sequence |->
           IF s = current THEN [p \in Project |-> IF p \in op.names THEN 0 ELSE generations[s][p]]
                          ELSE generations[s]]
    /\ authOp' = Unlocked
    /\ Done
    /\ UNCHANGED <<authorization, highWater, current, made, staging, uploads, staged, open,
                   request, acknowledged, faults>>

\* ErrHeld: the goroutine tries again later, others leave it to the next.
FindsItHeld ==
    /\ op.pc = "rename" /\ op.names # {} /\ Held(current)
    /\ authOp' = Unlocked
    /\ \/ op.by = "prune" /\ GivesBack /\ UNCHANGED <<up, pruning>>
       \/ op.by # "prune" /\ Done
    /\ UNCHANGED <<store, staged, open, request, acknowledged, faults>>

-----------------------------------------------------------------------------
(***************************************************************************)
(* The receiver's end and start.                                           *)
(***************************************************************************)

\* What the memory held is gone, and the locks with it.
Stops ==
    /\ up' = FALSE /\ staged' = 0 /\ open' = 0
    /\ op' = Free /\ authOp' = Unlocked /\ pruning' = "no"

Crash ==
    /\ up \/ op.by = "open"
    /\ Faulty
    /\ Stops
    /\ UNCHANGED <<store, request, acknowledged>>

OpenStore ==
    /\ ~up /\ op = Free
    /\ op' = [Free EXCEPT !.by = "open", !.pc = "recover"]
    /\ UNCHANGED <<store, up, staged, open, authOp, pruning, request, acknowledged, faults>>

\* checkGeneration, by what the authorization names now.
Whole(s) == \A p \in Declared(s) \cap authorization.names : generations[s][p] # 0

\* The generation high-water names is made current if it is there, current is
\* another, and it passes the check.
Finishes == highWater # current /\ highWater \in made /\ Whole(highWater)

\* Mutant: whether the generation is still there is not looked at.
Recover_Unseen ==
    /\ AtOp("open", "recover")
    /\ current' = IF highWater # current THEN highWater ELSE current
    /\ Goes("sweep")
    /\ UNCHANGED <<authorization, highWater, generations, made, staging, uploads, up, staged, open,
                   authOp, pruning, request, acknowledged, faults>>

Recover ==
    /\ AtOp("open", "recover")
    /\ current' = IF Finishes THEN highWater ELSE current
    /\ Goes("sweep")
    /\ UNCHANGED <<authorization, highWater, generations, made, staging, uploads, up, staged, open,
                   authOp, pruning, request, acknowledged, faults>>

\* A check that did not finish deletes nothing, and the receiver exits.
Unchecked ==
    /\ AtOp("open", "recover") /\ highWater # current /\ highWater \in made
    /\ Faulty
    /\ Stops
    /\ UNCHANGED <<store, request, acknowledged>>

-----------------------------------------------------------------------------
(***************************************************************************)
(* Authorizations.                                                         *)
(***************************************************************************)

\* Any that was signed may arrive, late or again: one not newer is refused.
Authorize(a) ==
    /\ up /\ authOp = Unlocked
    /\ a.seq > authorization.seq
    /\ authOp' = [by |-> "authorize", pc |-> "hold", next |-> a]
    /\ UNCHANGED <<store, up, staged, open, op, pruning, request, acknowledged, faults>>

\* Whether the server's shared lock is on serving.lock.
Serving == \E r \in Reader : request[r].pc \in {"checking", "matched"}

\* Mutant: the file is replaced without the serving lock.
Replace_Unheld ==
    /\ authOp.pc = "hold"
    /\ authorization' = authOp.next
    /\ authOp' = [authOp EXCEPT !.pc = "sync"]
    /\ UNCHANGED <<highWater, current, generations, made, staging, uploads, up, staged, open, op,
                   pruning, request, acknowledged, faults>>

\* The rename, under the serving lock.
Replace ==
    /\ authOp.pc = "hold" /\ ~Serving
    /\ authorization' = authOp.next
    /\ authOp' = [authOp EXCEPT !.pc = "sync"]
    /\ UNCHANGED <<highWater, current, generations, made, staging, uploads, up, staged, open, op,
                   pruning, request, acknowledged, faults>>

\* Authorize returns, and a prune is started in the background.
Acknowledge ==
    /\ authOp.pc = "sync"
    /\ authOp' = Unlocked
    /\ acknowledged' = authorization.seq
    /\ pruning' = Started(pruning)
    /\ UNCHANGED <<store, up, staged, open, op, request, faults>>

\* A wait that ends, or a call that fails, before or after the rename.
AuthorizeFails ==
    /\ authOp.by = "authorize" /\ Faulty
    /\ authOp' = Unlocked
    /\ UNCHANGED <<store, up, staged, open, op, pruning, request, acknowledged>>

-----------------------------------------------------------------------------
(***************************************************************************)
(* A request of the server for a page of a repository.                     *)
(***************************************************************************)

At(r, pc) == request[r].pc = pc
Turns(r, step) == request' = [request EXCEPT ![r] = step]
Beside == UNCHANGED <<store, memory, acknowledged, faults>>

\* The authorization is read, and allows the project.
Render(r, p) ==
    /\ At(r, "idle")
    /\ p \in authorization.names
    /\ Turns(r, [NoRequest EXCEPT !.pc = "arrived", !.project = p, !.auth = authorization])
    /\ Beside

\* The view is of the active generation's export.
TakeView(r) ==
    /\ At(r, "arrived")
    /\ current # 0 /\ Exports[current][request[r].project] # 0
    /\ Turns(r, [request[r] EXCEPT !.pc = "viewed", !.view = current])
    /\ Beside

\* Open: current is resolved, and its directory opened if it is still there.
Resolve(r) ==
    /\ At(r, "viewed")
    /\ current \in made
    /\ Turns(r, [request[r] EXCEPT !.pc = "opened", !.gen = current])
    /\ Beside

\* Locked, it is looked at again: one renamed away meanwhile is not held, and
\* one that is not the view's is let go and the view taken again.
Lock(r) ==
    /\ At(r, "opened")
    /\ LET q == request[r] IN
       Turns(r, [q EXCEPT !.pc = IF q.gen \notin made THEN "viewed"
                                 ELSE IF q.gen # q.view THEN "arrived" ELSE "holding"])
    /\ Beside

\* Rendered from the repository, and the generation let go.
Read(r) ==
    /\ At(r, "holding")
    /\ Turns(r, [request[r] EXCEPT !.pc = "rendered", !.gen = 0,
                                   !.tip = generations[request[r].gen][request[r].project]])
    /\ Beside

\* HoldServing.
HoldServing(r) ==
    /\ At(r, "rendered")
    /\ Turns(r, [request[r] EXCEPT !.pc = "checking"])
    /\ Beside

\* The last read: the same as at first, or the page is not written, and the
\* request rendered again from the start, or answered 503.
Check(r) ==
    /\ At(r, "checking")
    /\ Turns(r, IF authorization = request[r].auth THEN [request[r] EXCEPT !.pc = "matched"]
                                                  ELSE NoRequest)
    /\ Beside

\* The headers are written, and the serving lock given back.
WriteHeaders(r) ==
    /\ At(r, "matched")
    /\ Turns(r, [NoRequest EXCEPT !.pc = "writing"])
    /\ Beside

\* The response is written, or the request's time is over.
Finish(r) ==
    /\ At(r, "writing") \/ (~At(r, "idle") /\ faults > 0)
    /\ Turns(r, NoRequest)
    /\ UNCHANGED <<store, memory, acknowledged>>
    /\ faults' = IF At(r, "writing") THEN faults ELSE faults - 1

-----------------------------------------------------------------------------
Upload ==
    \E s \in Sequence :
        \/ Stage(s) \/ StageTooLarge(s) \/ StageStops(s) \/ Commit(s)
        \/ \E b \in Declared(s) \cup {ExportFile} : StageBody(s, b)
Committing ==
    \/ Named \/ Discard \/ Move \/ Accept \/ Swap
    \/ \E p \in Project : Build(p) \/ Incomplete(p)
Pruning == Sweep \/ Select \/ Reselect \/ RenameWithdrawn \/ FindsItHeld
Fails ==
    \/ CommitFails \/ PruneTimesOut \/ AuthorizeFails \/ Crash \/ Unchecked
    \/ \E p \in Project : BadBundle(p) \/ PastUsage(p)
Signed == [seq : 1..MaxAuthorization, names : Naming]
Serve(r) ==
    \/ \E p \in Project : Render(r, p)
    \/ TakeView(r) \/ Resolve(r) \/ Lock(r) \/ Read(r)
    \/ HoldServing(r) \/ Check(r) \/ WriteHeaders(r) \/ Finish(r)

Next ==
    \/ Upload \/ Committing \/ Prune \/ PruneEnds \/ Pruning
    \/ OpenStore \/ Recover
    \/ \E a \in Signed : Authorize(a)
    \/ Replace \/ Acknowledge \/ Fails
    \/ \E r \in Reader : Serve(r)

Spec == Init /\ [][Next]_vars

\* The receiver's goroutines run, and it is started again when it ends.
Fairness ==
    /\ WF_vars(Committing \/ Pruning \/ Recover)
    /\ WF_vars(Prune) /\ WF_vars(PruneEnds) /\ WF_vars(OpenStore)
    /\ WF_vars(Replace \/ Acknowledge)
FairSpec == Spec /\ Fairness

-----------------------------------------------------------------------------
Staged == [bodies : SUBSET (Project \cup {ExportFile}), repos : [Project -> Nat]]
Op == [by : {"none", "commit", "prune", "open"},
       pc : {"idle", "named", "build", "move", "accept", "swap", "recover", "sweep", "select",
             "lock", "rename"},
       seq : {0} \cup Sequence, names : SUBSET Project]
AuthOp == [by : {"none", "authorize", "prune"}, pc : {"idle", "hold", "sync"},
           next : Authorization]
Request == [pc : {"idle", "arrived", "viewed", "opened", "holding", "rendered", "checking",
                  "matched", "writing"},
            project : Project \cup {None}, auth : Authorization,
            view : {0} \cup Sequence, gen : {0} \cup Sequence, tip : Nat]

\* Every variable stays within its type.
TypeOK ==
    /\ authorization \in Authorization
    /\ highWater \in {0} \cup Sequence /\ current \in {0} \cup Sequence
    /\ generations \in [Sequence -> [Project -> Nat]] /\ made \subseteq Sequence
    /\ staging \in [Sequence -> Staged] /\ uploads \subseteq Sequence
    /\ up \in BOOLEAN /\ staged \in {0} \cup Sequence /\ open \in {0} \cup Sequence
    /\ op \in Op /\ authOp \in AuthOp
    /\ pruning \in {"no", "running", "returning"}
    /\ request \in [Reader -> Request]
    /\ acknowledged \in 0..MaxAuthorization
    /\ faults \in 0..MaxFaults

\* No repository leaves a generation that a reader holds, nor the active one
\* while the stored authorization names it; and the active one stays.
KeepsInUse ==
    \A s \in Sequence :
        /\ \A p \in Project : generations[s][p] # 0 /\ generations'[s][p] # generations[s][p] =>
              ~Held(s) /\ (s = current => p \notin authorization.names)
        /\ s \in made \ made' => ~Held(s) /\ s # current
KeptInUse == [][KeepsInUse]_vars

\* A response whose headers are written is allowed by an authorization no
\* older than the last acknowledged, and shows one generation throughout.
HoldsAnswers ==
    \A r \in Reader : At(r, "matched") /\ request'[r].pc = "writing" =>
        LET q == request[r] IN
        /\ acknowledged <= q.auth.seq /\ q.project \in q.auth.names
        /\ q.tip \in {0, Exports[q.view][q.project]}
AnswersHeld == [][HoldsAnswers]_vars

\* What is served only moves forward, to what was accepted and is there, over
\* crashes and starts too.
MovesForward ==
    /\ current <= current' /\ current' <= highWater' /\ highWater <= highWater'
    /\ current' # 0 => current' \in made'
ServesForward == [][MovesForward]_vars

\* What an authorization withdraws is deleted in the background.
WithdrawnIsDeleted == []<>(Withdrawn = {})
=============================================================================
