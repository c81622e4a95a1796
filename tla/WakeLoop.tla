------------------------------ MODULE WakeLoop ------------------------------
(***************************************************************************)
(* How a controller comes to start a pass (integrator/wake.go,             *)
(* wake_linux.go and markDue of bus.go).                                   *)
(*                                                                         *)
(* A writer moves a ref and then creates the file due in the controller's  *)
(* wake directory, where there is none yet.  The controller watches the    *)
(* directory, removes due before a pass reads any ref, and looks for due   *)
(* on disk before it waits.  An inotify event only ends a wait.            *)
(*                                                                         *)
(* The refs are known by how often they have moved.  A directory is known  *)
(* by when it was made: one that replaces another is a new one, and 0 is   *)
(* no directory.  A deadline is known by whether it has passed.            *)
(***************************************************************************)
EXTENDS Integers, FiniteSets

CONSTANTS
    Writer,         \* the processes that move refs and mark
    MaxMoves,       \* bound: ref moves by writers
    MaxLandings,    \* bound: passes that land
    MaxErrors,      \* bound: passes that fail, and dues that stay
    MaxBreaks       \* bound: crashes, and failures of the watch or its directory

ASSUME ConstantsAssumption ==
    /\ MaxMoves \in Nat /\ MaxLandings \in Nat /\ MaxErrors \in Nat /\ MaxBreaks \in Nat

VARIABLES
    tip,        \* how often a ref the controller reads has moved
    writer,     \* writer[w]: the move w has yet to mark, or 0
    path,       \* the directory at the wake directory's path, or 0
    made,       \* how many directories have been made there
    due,        \* the directories that hold a due
    watch,      \* w: the directory watched, or 0
    queued,     \* what the kernel has to tell about the directory watched
    note,       \* a notification waits in events()
    ended,      \* an error waits in failed()
    pc,         \* where the loop is
    reading,    \* the move up to which the pass has read the refs
    claimed,    \* whether the last claim took care of the mark: no holdDue
    hold,       \* earliest lies ahead
    rung,       \* next has passed
    retry,      \* retryAt has passed
    failure,    \* a failure of the watch has been said
    restored    \* the watch came back, and a pass is owed for it

\* Bounds.
VARIABLES landings, errors, breaks

\* History variables: nothing reads them but the properties.
VARIABLES
    seen,       \* the move up to which a finished pass has read the refs
    failed,     \* whether the last pass returned an error
    promised,   \* the last move that was marked
    dues,       \* how often a due was created
    woken       \* how many passes a due has started

inotify == <<watch, queued, note, ended, failure, restored>>
disk == <<path, made, due>>
pass == <<reading, claimed, hold, rung, seen, failed>>
bounds == <<landings, errors, breaks>>
counts == <<promised, dues, woken>>
vars == <<tip, writer, disk, inotify, pc, pass, retry, bounds, counts>>

TypeOK ==
    /\ tip \in Nat /\ writer \in [Writer -> Nat]
    /\ made \in Nat /\ path \in 0..made /\ due \subseteq 1..made
    /\ watch \in 0..made /\ queued \subseteq {"due", "gone"}
    /\ note \in BOOLEAN /\ ended \in BOOLEAN
    /\ pc \in {"start", "claim", "read", "judge", "look", "check", "select"}
    /\ reading \in Nat /\ claimed \in BOOLEAN /\ hold \in BOOLEAN /\ rung \in BOOLEAN
    /\ retry \in BOOLEAN /\ failure \in BOOLEAN /\ restored \in BOOLEAN
    /\ landings \in 0..MaxLandings /\ errors \in 0..MaxErrors /\ breaks \in 0..MaxBreaks
    /\ seen \in Nat /\ failed \in BOOLEAN
    /\ promised \in Nat /\ dues \in Nat /\ woken \in Nat

\* A controller that is about to start, at a directory that is there or not
\* and may hold a due no one has taken away.
Init ==
    /\ tip = 1 /\ writer = [w \in Writer |-> 0]
    /\ path \in {0, 1} /\ made = path /\ due \in SUBSET (1..path)
    /\ watch = 0 /\ queued = {} /\ note = FALSE /\ ended = FALSE
    /\ pc = "start" /\ reading = 0 /\ claimed = TRUE /\ hold = FALSE /\ rung = FALSE
    /\ retry = FALSE /\ failure = FALSE /\ restored = FALSE
    /\ landings = MaxLandings /\ errors = MaxErrors /\ breaks = MaxBreaks
    /\ seen = 0 /\ failed = FALSE
    /\ promised = 0 /\ dues = Cardinality(due) /\ woken = 0

-----------------------------------------------------------------------------
(***************************************************************************)
(* The watch.                                                              *)
(***************************************************************************)

\* fail(): the watch is dropped, and tried again after watchRetry.
Drop ==
    /\ watch' = 0 /\ queued' = {} /\ note' = FALSE /\ ended' = FALSE
    /\ retry' = FALSE /\ failure' = TRUE
    /\ UNCHANGED restored

\* Mutant: a watch that comes back owes no pass.
Watched_NothingOwed ==
    /\ path # 0
    /\ watch' = path /\ queued' = {} /\ note' = FALSE /\ ended' = FALSE
    /\ failure' = FALSE
    /\ UNCHANGED <<retry, restored>>

\* The watch is in place: watchDir() ends by checking that the path still
\* names the directory it opened, and from then on a replacement is told.
Watched ==
    /\ path # 0
    /\ watch' = path /\ queued' = {} /\ note' = FALSE /\ ended' = FALSE
    /\ failure' = FALSE /\ restored' = (restored \/ failure)
    /\ UNCHANGED retry

\* arm(): there may be no directory, another consumer of it, or no inotify
\* watch left to have.
Arm ==
    \/ Watched /\ UNCHANGED breaks
    \/ path = 0 /\ Drop /\ UNCHANGED breaks
    \/ breaks > 0 /\ breaks' = breaks - 1 /\ Drop

\* read(): the events come in the order things happened, and the directory
\* gone is the last one there is.
ReadEvent ==
    /\ watch # 0 /\ ~ended
    /\ \/ /\ "due" \in queued
          /\ queued' = queued \ {"due"} /\ note' = TRUE /\ UNCHANGED ended
       \/ /\ queued = {"gone"}
          /\ queued' = {} /\ ended' = TRUE /\ UNCHANGED note
    /\ UNCHANGED <<tip, writer, disk, watch, failure, restored, pc, pass, retry, bounds, counts>>

\* The kernel dropped events: the path is looked at, and due is as well.
Overflow ==
    /\ watch # 0 /\ ~ended /\ queued # {}
    /\ breaks > 0 /\ breaks' = breaks - 1
    /\ queued' = {}
    /\ ended' = (path # watch) /\ note' = (note \/ path = watch)
    /\ UNCHANGED <<tip, writer, disk, watch, failure, restored, pc, pass, retry,
                   landings, errors, counts>>

\* The inotify descriptor cannot be read.
WatchBreaks ==
    /\ watch # 0 /\ ~ended
    /\ breaks > 0 /\ breaks' = breaks - 1
    /\ queued' = {} /\ ended' = TRUE
    /\ UNCHANGED <<tip, writer, disk, watch, note, failure, restored, pc, pass, retry,
                   landings, errors, counts>>

-----------------------------------------------------------------------------
(***************************************************************************)
(* The loop.                                                               *)
(***************************************************************************)

Start ==
    /\ pc = "start" /\ pc' = "claim"
    /\ Arm
    /\ UNCHANGED <<tip, writer, disk, pass, landings, errors, counts>>

\* claim(): due is removed from the directory watched, before any ref is
\* read.  Without a watch there is nothing to claim.
Claim ==
    /\ pc = "claim" /\ pc' = "read"
    /\ \/ due' = due \ {watch} /\ claimed' = TRUE /\ UNCHANGED errors
       \/ /\ watch \in due /\ errors > 0 /\ errors' = errors - 1
          /\ claimed' = FALSE /\ UNCHANGED due
    /\ UNCHANGED <<tip, writer, path, made, inotify, reading, hold, rung, seen, failed,
                   retry, landings, breaks, counts>>

\* The pass lists the requests and the records.
ReadRefs ==
    /\ pc = "read" /\ pc' = "judge"
    /\ reading' = tip
    /\ UNCHANGED <<tip, writer, disk, inotify, claimed, hold, rung, seen, failed,
                   retry, bounds, counts>>

\* It could not: the next pass is held off, however many marks arrive.
PassFails ==
    /\ pc = "read" /\ pc' = "look"
    /\ errors > 0 /\ errors' = errors - 1
    /\ hold' = TRUE /\ rung' = FALSE /\ failed' = TRUE
    /\ UNCHANGED <<tip, writer, disk, inotify, reading, claimed, seen,
                   retry, landings, breaks, counts>>

\* The pass landed something, which another pass follows at once.
PassLands ==
    /\ pc = "judge" /\ pc' = "claim"
    /\ landings > 0 /\ landings' = landings - 1
    /\ tip' = tip + 1 /\ seen' = reading
    /\ hold' = FALSE /\ rung' = FALSE /\ failed' = FALSE
    /\ UNCHANGED <<writer, disk, inotify, reading, claimed, retry, errors, breaks, counts>>

\* Mutant: due is removed when the pass ends, as well.
PassEnds_Claims ==
    /\ pc = "judge" /\ pc' = "look"
    /\ seen' = reading /\ due' = due \ {watch}
    /\ hold' = FALSE /\ rung' = FALSE /\ failed' = FALSE
    /\ UNCHANGED <<tip, writer, path, made, inotify, reading, claimed, retry, bounds, counts>>

PassEnds ==
    /\ pc = "judge" /\ pc' = "look"
    /\ seen' = reading
    /\ hold' = FALSE /\ rung' = FALSE /\ failed' = FALSE
    /\ UNCHANGED <<tip, writer, disk, inotify, reading, claimed, retry, bounds, counts>>

\* wait() finds the interval over.
TimerPass ==
    /\ pc = "look" /\ rung /\ pc' = "claim"
    /\ UNCHANGED <<tip, writer, disk, inotify, pass, retry, bounds, counts>>

\* wait() finds it time to watch the directory again.
Rearm ==
    /\ pc = "look" /\ ~rung /\ watch = 0 /\ retry /\ pc' = "check"
    /\ Arm
    /\ UNCHANGED <<tip, writer, disk, pass, landings, errors, counts>>

Checking == pc = "check" \/ (pc = "look" /\ ~rung /\ ~(watch = 0 /\ retry))

\* Mutant: a due that could not be removed starts a pass like any other.
Heeded_Any == watch \in due

\* The due that may start a pass.
Heeded == claimed /\ watch \in due

WatcherPass ==
    /\ Checking /\ ~hold /\ restored /\ pc' = "claim"
    /\ restored' = FALSE
    /\ UNCHANGED <<tip, writer, disk, watch, queued, note, ended, failure, pass, retry,
                   bounds, counts>>

DuePass ==
    /\ Checking /\ ~hold /\ ~restored /\ Heeded /\ pc' = "claim"
    /\ woken' = woken + 1
    /\ UNCHANGED <<tip, writer, disk, inotify, pass, retry, bounds, promised, dues>>

Sleep ==
    /\ Checking /\ (hold \/ (~restored /\ ~Heeded)) /\ pc' = "select"
    /\ UNCHANGED <<tip, writer, disk, inotify, pass, retry, bounds, counts>>

\* The select: a notification, the end of the watch, or the first deadline.
Notified ==
    /\ pc = "select" /\ pc' = "look"
    /\ watch # 0 /\ note /\ note' = FALSE
    /\ UNCHANGED <<tip, writer, disk, watch, queued, ended, failure, restored, pass, retry,
                   bounds, counts>>

WatchEnds ==
    /\ pc = "select" /\ pc' = "look"
    /\ watch # 0 /\ ended /\ Drop
    /\ UNCHANGED <<tip, writer, disk, pass, bounds, counts>>

\* Mutant: a controller that watches waits for no deadline.
Awoken_Unwatched == watch = 0 /\ (rung \/ retry)

Awoken == rung \/ (watch = 0 /\ retry)

DeadlinePasses ==
    /\ pc = "select" /\ Awoken /\ pc' = "look"
    /\ UNCHANGED <<tip, writer, disk, inotify, pass, retry, bounds, counts>>

\* The process dies or is stopped, and is started again.
Crash ==
    /\ pc # "start" /\ pc' = "start"
    /\ breaks > 0 /\ breaks' = breaks - 1
    /\ watch' = 0 /\ queued' = {} /\ note' = FALSE /\ ended' = FALSE
    /\ failure' = FALSE /\ restored' = FALSE /\ retry' = FALSE
    /\ reading' = 0 /\ claimed' = TRUE /\ hold' = FALSE /\ rung' = FALSE
    /\ UNCHANGED <<tip, writer, disk, seen, failed, landings, errors, counts>>

-----------------------------------------------------------------------------
(***************************************************************************)
(* Time.  earliest is never later than next.                               *)
(***************************************************************************)

\* A wait that began before earliest ends there.
HoldEnds ==
    /\ hold /\ hold' = FALSE
    /\ pc' = IF pc = "select" THEN "look" ELSE pc
    /\ UNCHANGED <<tip, writer, disk, inotify, reading, claimed, rung, seen, failed, retry,
                   bounds, counts>>

Ring ==
    /\ pc \in {"look", "check", "select"} /\ ~hold /\ ~rung /\ rung' = TRUE
    /\ UNCHANGED <<tip, writer, disk, inotify, pc, reading, claimed, hold, seen, failed, retry,
                   bounds, counts>>

RetryComes ==
    /\ watch = 0 /\ pc # "start" /\ ~retry /\ retry' = TRUE
    /\ UNCHANGED <<tip, writer, disk, inotify, pc, pass, bounds, counts>>

-----------------------------------------------------------------------------
(***************************************************************************)
(* The writers, and whoever makes and removes the wake directory.          *)
(***************************************************************************)

MoveRef(w) ==
    /\ writer[w] = 0 /\ tip - (MaxLandings - landings) <= MaxMoves
    /\ tip' = tip + 1 /\ writer' = [writer EXCEPT ![w] = tip + 1]
    /\ UNCHANGED <<disk, inotify, pc, pass, retry, bounds, counts>>

Latest(m, n) == IF m > n THEN m ELSE n

\* markDue(): a due that is there already is a mark already made.
Mark(w) ==
    /\ writer[w] # 0 /\ path # 0
    /\ writer' = [writer EXCEPT ![w] = 0]
    /\ promised' = Latest(promised, writer[w])
    /\ IF path \in due THEN UNCHANGED <<due, queued, dues>>
       ELSE /\ due' = due \cup {path} /\ dues' = dues + 1
            /\ queued' = IF watch = path THEN queued \cup {"due"} ELSE queued
    /\ UNCHANGED <<tip, path, made, watch, note, ended, failure, restored, pc, pass, retry,
                   bounds, woken>>

\* The mark fails, or the writer is killed before it.
MarkFails(w) ==
    /\ writer[w] # 0
    /\ writer' = [writer EXCEPT ![w] = 0]
    /\ \/ path = 0 /\ UNCHANGED breaks
       \/ breaks > 0 /\ breaks' = breaks - 1
    /\ UNCHANGED <<tip, disk, inotify, pc, pass, retry, landings, errors, counts>>

\* The directory is removed, or another is put in its place.
Replace ==
    /\ path # 0 /\ breaks > 0 /\ breaks' = breaks - 1
    /\ \/ path' = made + 1 /\ made' = made + 1
       \/ path' = 0 /\ UNCHANGED made
    /\ queued' = IF watch = path THEN queued \cup {"gone"} ELSE queued
    /\ UNCHANGED <<tip, writer, due, watch, note, ended, failure, restored, pc, pass, retry,
                   landings, errors, counts>>

Make ==
    /\ path = 0
    /\ path' = made + 1 /\ made' = made + 1
    /\ UNCHANGED <<tip, writer, due, inotify, pc, pass, retry, bounds, counts>>

-----------------------------------------------------------------------------
Loop ==
    \/ Start \/ Claim \/ ReadRefs \/ PassFails \/ PassLands \/ PassEnds
    \/ TimerPass \/ Rearm \/ WatcherPass \/ DuePass \/ Sleep
    \/ Notified \/ WatchEnds \/ DeadlinePasses

Next ==
    \/ Loop \/ Crash \/ ReadEvent \/ Overflow \/ WatchBreaks
    \/ HoldEnds \/ Ring \/ RetryComes
    \/ \E w \in Writer : MoveRef(w) \/ Mark(w) \/ MarkFails(w)
    \/ Replace \/ Make

Spec == Init /\ [][Next]_vars

\* The loop, the reader of the watch and the short deadlines go on.  The
\* interval is left out: what it alone brings about is not waited for.
Fairness ==
    /\ WF_vars(Loop) /\ WF_vars(ReadEvent)
    /\ WF_vars(HoldEnds) /\ WF_vars(RetryComes)

FairSpec == Spec /\ Fairness
-----------------------------------------------------------------------------
(***************************************************************************)
(* Properties.                                                             *)
(***************************************************************************)

\* A controller that waits, with its watch on the directory that is there
\* and its last pass in order, has read every move marked so far, or has the
\* end of its wait under way: no mark is slept through.
AwakeToMarks ==
    pc = "select" /\ watch = path /\ watch # 0 /\ promised > seen /\ claimed /\ ~failed
        => note \/ ended \/ queued # {}

\* No more passes are started by a due than dues were created, so neither a
\* due that stays nor an event left over from one starts a pass after
\* another.
DuePassesAreMarked == woken <= dues

\* Every marked move is read by a pass without waiting for the interval,
\* whatever becomes of the watch and of the directory, once the directory
\* stays and neither the last pass nor its claim failed.
MarksAreServed ==
    <>[](path # 0 /\ claimed /\ ~failed) => <>[](promised <= seen)

\* The interval is the recovery: with it every move is read, marked or not.
IntervalRecovers == WF_vars(Ring) => <>[](seen = tip)

\* A mark is never lost (integrator/wake.go, the file's comment): every
\* marked move is read without the interval, a due that stays excepted.
MarksAreNeverLost ==
    <>[](path # 0 /\ claimed) => <>[](promised <= seen)
=============================================================================
