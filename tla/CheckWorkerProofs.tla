------------------------- MODULE CheckWorkerProofs -------------------------
(***************************************************************************)
(* Proofs about the check worker, for any changes, trees, checks, pids and *)
(* bounds: no mark is lost, no two runs build one tree, what they evaluate *)
(* in is within the budget, and what failed is not tried again before its  *)
(* wait is over.                                                           *)
(***************************************************************************)
EXTENDS CheckWorker, TLAPS, FiniteSetTheorems

-----------------------------------------------------------------------------
(***************************************************************************)
(* The memory of a pass.                                                   *)
(***************************************************************************)

\* The scan under way has read the refs and not ended: it reads a change, or
\* handles between two of them what a run did.
InScan == \/ At("read")
          \/ At("publish") /\ (pass.back = "read" \/ pass.then = "read")
          \/ (At("reap") \/ At("admit")) /\ pass.then = "read"

\* Where a pass returns to is where it came from, what was not read whole
\* went wrong, and a pass that was stopped scans no more.
PassOK ==
    /\ DOMAIN pass = DOMAIN NoPass
    /\ pass.claims \in BOOLEAN /\ pass.whole \in BOOLEAN
    /\ pass.trouble \in BOOLEAN /\ pass.stop \in BOOLEAN /\ pass.locked \in BOOLEAN
    /\ pass.then \in {"idle", "settle", "read", "scan"}
    /\ ~pass.whole => pass.trouble
    /\ At("publish") => /\ pass.back \in {"read", "admit", "reap"}
                        /\ pass.back # "read" => pass.then # "idle"
    /\ At("admit") \/ At("reap") => pass.then # "idle"
    /\ (At("scan") \/ At("view") \/ At("wait") \/ At("end")) => pass.then # "read"
    /\ pass.stop => /\ pass.then = "settle" /\ pass.pc \notin {"scan", "view", "read"}
                    /\ At("publish") => pass.back # "read"

\* The steps that leave the memory of the pass alone.
Beside ==
    \/ Policy \/ Mark
    \/ \E c \in Change : Toggle(c) \/ \E t \in Tree : Amend(c, t)
    \/ \E t \in Tree, k \in Check : Attested(t, k)
    \/ \E k \in record \cup pass.failed : Expire(k)
    \/ \E p \in Pid : \/ Reserves(p) \/ Admits(p) \/ Evaluated(p) \/ NotReserved(p)
                      \/ CheckFails(p) \/ Dies(p) \/ Drops(p)
                      \/ DiesStoring(p) \/ \E dies \in BOOLEAN : Stores(p, dies)
    \/ \E s \in storing : GitStores(s)

\* A pass begins, with the wake directory's lock or without.
Begins == \E locks \in BOOLEAN : Start(locks)

\* Those of the pass.
OfPass ==
    \/ Begins \/ View \/ EndScan \/ Admitted \/ Reaped \/ ReadFails
    \/ \E claims \in BOOLEAN : Claim(claims)
    \/ \E c : ReadChange(c) \/ NotDerived(c)
    \/ \E j \in pass.turn : AdmitJob(j)
    \/ \E fails, taken \in BOOLEAN : Pushes(fails, taken)
    \/ PushWaits \/ Tick \/ Kill
    \/ \E saves \in BOOLEAN : End(saves) \/ \E p \in Pid : Complete(p, saves)

\* Every step is one or the other.
LEMMA StepsAre ==
  ASSUME PassOK, Next  PROVE  Beside \/ OfPass
BY DEF PassOK, Next, Beside, OfPass, Begins, PassStep, Failures, Else, RunStep

\* What the steps beside the pass leave alone.
LEMMA BesideThePass ==
  ASSUME Beside
  PROVE  /\ UNCHANGED pass
         /\ UNCHANGED <<wake, unread, cover>> \/ (Marks /\ UNCHANGED claimed)
BY DEF Beside, Policy, Mark, Toggle, Amend, Attested, Expire, Reserves, Admits, Evaluated,
       NotReserved, CheckFails, Dies, Drops, Stores, DiesStoring, GitStores, Goes, Move, wake

\* No pass runs at first.
LEMMA PassOKInit ==
  ASSUME Init  PROVE  PassOK
BY DEF Init, PassOK, NoPass, At

\* What the end of a run leaves of the pass, and where it goes on.
LEMMA CompletePass ==
  ASSUME PassOK, NEW saves \in BOOLEAN, NEW p \in Pid, Complete(p, saves)
  PROVE  /\ DOMAIN pass' = DOMAIN pass /\ pass'.locked = pass.locked
         /\ pass'.claims = pass.claims /\ pass'.whole = pass.whole /\ pass'.stop = pass.stop
         /\ pass'.trouble = (pass.trouble \/ ~saves)
         /\ pass'.pc = "reap" \/ (pass'.pc = "publish" /\ pass'.back = "reap")
         /\ \/ At("read") /\ pass'.then = "read"
            \/ At("reap") /\ pass'.then = pass.then
            \/ At("wait") /\ pass'.then = IF pass.stop THEN "settle" ELSE "scan"
<1> DEFINE r == runs[p]
           key == BuildKey(r.tree, r.checks)
           cancelled == r.stopped /\ r.phase = "failed"
           failed == IF cancelled THEN pass.failed
                     ELSE IF r.phase = "failed" THEN pass.failed \cup {key} ELSE pass.failed \ {key}
           next == IF At("read") THEN "read" ELSE IF At("reap") THEN pass.then
                   ELSE IF pass.stop THEN "settle" ELSE "scan"
           handled == [pass EXCEPT !.failed = failed, !.pc = "reap", !.then = next,
                          !.trouble = @ \/ ~saves]
<1>1. At("read") \/ At("reap") \/ At("wait")
  BY DEF Complete
<1>2. \/ At("read") /\ next = "read"
      \/ At("reap") /\ next = pass.then
      \/ At("wait") /\ next = IF pass.stop THEN "settle" ELSE "scan"
  BY <1>1 DEF At
<1>3. \/ pass' = handled \/ pass' = [handled EXCEPT !.fresh = @ \cup {key}]
      \/ \E o : pass' = [handled EXCEPT !.pc = "publish", !.tree = r.tree, !.object = o,
                             !.back = "reap"]
  BY DEF Complete
<1> HIDE DEF key, cancelled, failed, next, r
<1>4. /\ DOMAIN handled = DOMAIN NoPass /\ handled.locked = pass.locked
      /\ handled.claims = pass.claims /\ handled.whole = pass.whole /\ handled.stop = pass.stop
      /\ handled.trouble = (pass.trouble \/ ~saves)
      /\ handled.pc = "reap" /\ handled.then = next
  BY DEF PassOK, NoPass
<1> HIDE DEF handled
<1>5. /\ DOMAIN pass' = DOMAIN NoPass /\ pass'.locked = pass.locked
      /\ pass'.claims = pass.claims /\ pass'.whole = pass.whole /\ pass'.stop = pass.stop
      /\ pass'.trouble = (pass.trouble \/ ~saves) /\ pass'.then = next
      /\ pass'.pc = "reap" \/ (pass'.pc = "publish" /\ pass'.back = "reap")
  BY <1>3, <1>4 DEF NoPass
<1> QED  BY <1>2, <1>5 DEF PassOK

\* What a push leaves of the pass: what it pushed and where it goes on.
LEMMA PushMoves ==
  ASSUME PassOK, NEW fails \in BOOLEAN, NEW taken \in BOOLEAN, Pushes(fails, taken)
  PROVE  LET key == PushKey(pass.tree, pass.object) IN
         /\ At("publish") /\ ~Waits(key) /\ DOMAIN pass' = DOMAIN pass
         /\ pass'.locked = pass.locked
         /\ pass'.pc = pass.back /\ pass'.then = pass.then /\ pass'.back = pass.back
         /\ pass'.claims = pass.claims /\ pass'.whole = pass.whole /\ pass'.stop = pass.stop
         /\ pass'.asked = pass.asked /\ pass'.view = pass.view /\ pass'.todo = pass.todo
         /\ pass'.found = pass.found /\ pass'.queue = pass.queue /\ pass'.turn = pass.turn
         /\ pass'.met = pass.met
         /\ pass'.failed = IF fails THEN pass.failed \cup {key} ELSE pass.failed \ {key}
         /\ pass'.fresh = IF fails THEN pass.fresh \cup {key} ELSE pass.fresh
         /\ pass'.trouble \in BOOLEAN /\ (pass.trouble => pass'.trouble)
         /\ over' = IF fails THEN over \ {key} ELSE over
<1> DEFINE key == PushKey(pass.tree, pass.object)
           failed == IF fails THEN pass.failed \cup {key} ELSE pass.failed \ {key}
           pushed == [pass EXCEPT !.pc = pass.back, !.tree = None, !.object = {}, !.failed = failed]
<1>1. /\ At("publish") /\ ~Waits(key)
      /\ over' = IF fails THEN over \ {key} ELSE over
      /\ \/ ~fails /\ pass' = pushed
         \/ fails /\ \E saves \in BOOLEAN :
                         pass' = [pushed EXCEPT !.fresh = @ \cup {key}, !.trouble = @ \/ ~saves]
  BY DEF Pushes
<1> HIDE DEF key, failed
<1>2. /\ DOMAIN pushed = DOMAIN NoPass /\ pushed.locked = pass.locked
      /\ pushed.pc = pass.back /\ pushed.then = pass.then /\ pushed.back = pass.back
      /\ pushed.claims = pass.claims /\ pushed.whole = pass.whole /\ pushed.stop = pass.stop
      /\ pushed.asked = pass.asked /\ pushed.view = pass.view /\ pushed.todo = pass.todo
      /\ pushed.found = pass.found /\ pushed.queue = pass.queue /\ pushed.turn = pass.turn
      /\ pushed.met = pass.met /\ pushed.failed = failed /\ pushed.fresh = pass.fresh
      /\ pushed.trouble = pass.trouble /\ pass.trouble \in BOOLEAN
  BY DEF PassOK, NoPass
<1> HIDE DEF pushed
<1>3. CASE ~fails /\ pass' = pushed
  BY <1>1, <1>2, <1>3 DEF PassOK, failed, key
<1>4. ASSUME NEW saves \in BOOLEAN, fails,
             pass' = [pushed EXCEPT !.fresh = @ \cup {key}, !.trouble = @ \/ ~saves]
      PROVE  /\ DOMAIN pass' = DOMAIN NoPass /\ pass'.locked = pass.locked
             /\ pass'.pc = pass.back /\ pass'.then = pass.then /\ pass'.back = pass.back
             /\ pass'.claims = pass.claims /\ pass'.whole = pass.whole /\ pass'.stop = pass.stop
             /\ pass'.asked = pass.asked /\ pass'.view = pass.view /\ pass'.todo = pass.todo
             /\ pass'.found = pass.found /\ pass'.queue = pass.queue /\ pass'.turn = pass.turn
             /\ pass'.met = pass.met /\ pass'.failed = failed /\ pass'.fresh = pass.fresh \cup {key}
             /\ pass'.trouble = (pass.trouble \/ ~saves)
  BY <1>2, <1>4 DEF NoPass
<1> QED  BY <1>1, <1>2, <1>3, <1>4 DEF PassOK, failed, key

\* Every step keeps it.
LEMMA PassOKStep ==
  ASSUME PassOK, [Next]_vars  PROVE  PassOK'
<1> USE DEF PassOK, NoPass, At
<1>1. CASE UNCHANGED vars  BY <1>1 DEF vars
<1>2. CASE Beside  BY <1>2, BesideThePass
<1>3. CASE Begins  BY <1>3 DEF Begins, Start
<1>4. CASE View  BY <1>4 DEF View
<1>5. CASE EndScan
  <2> DEFINE failed == IF pass.whole THEN Pruned ELSE pass.failed
  <2>1. PICK Q \in SUBSET pass.found :
           pass' = [NoPass EXCEPT !.pc = "admit", !.then = "settle", !.queue = Q, !.turn = Q,
                          !.failed = failed, !.claims = pass.claims, !.locked = pass.locked,
                          !.trouble = pass.trouble]
    BY <1>5 DEF EndScan
  <2> HIDE DEF failed
  <2>2. /\ DOMAIN pass' = DOMAIN NoPass
        /\ pass'.claims = pass.claims /\ pass'.whole = TRUE /\ pass'.locked = pass.locked
        /\ pass'.trouble = pass.trouble /\ pass'.stop = FALSE
        /\ pass'.pc = "admit" /\ pass'.then = "settle"
    BY <2>1
  <2> QED  BY <2>2
<1>6. CASE Admitted  BY <1>6 DEF Admitted, Settled
<1>7. CASE Reaped  BY <1>7 DEF Reaped
<1>8. CASE ReadFails  BY <1>8 DEF ReadFails
<1>9. ASSUME NEW claims \in BOOLEAN, Claim(claims)  PROVE PassOK'  BY <1>9 DEF Claim
<1>10. ASSUME NEW c, ReadChange(c)  PROVE PassOK'
  <2> DEFINE v == pass.view[c]
             key == BuildKey(v.tree, Missing(v.tree, pass.asked))
             push == PushKey(v.tree, stored[v.tree])
             job == [c |-> c, n |-> v.n, tree |-> v.tree, asked |-> pass.asked]
             seen == [pass EXCEPT !.todo = @ \ {c}, !.wanted = @ \cup {v.tree}]
  <2>1. /\ At("read")
        /\ \/ pass' = seen
           \/ pass' = [seen EXCEPT !.met = @ \cup {key}]
           \/ pass' = [seen EXCEPT !.met = @ \cup {key}, !.found = @ \cup {job}]
           \/ pass' = [seen EXCEPT !.met = @ \cup {push}, !.pc = "publish",
                          !.tree = v.tree, !.object = stored[v.tree], !.back = "read"]
    BY <1>10 DEF ReadChange
  <2> HIDE DEF v, key, push, job
  <2>2. /\ DOMAIN seen = DOMAIN NoPass /\ seen.pc = "read" /\ seen.locked = pass.locked
        /\ seen.claims = pass.claims /\ seen.whole = pass.whole /\ seen.stop = pass.stop
        /\ seen.trouble = pass.trouble /\ seen.then = pass.then /\ seen.back = pass.back
    BY <2>1
  <2>3. ~pass.stop  BY <2>1
  <2> DEFINE Kept == /\ DOMAIN pass' = DOMAIN NoPass /\ pass'.locked = pass.locked
                     /\ pass'.claims = pass.claims /\ pass'.whole = pass.whole
                     /\ pass'.stop = pass.stop
                     /\ pass'.trouble = pass.trouble /\ pass'.then = pass.then
                     /\ \/ pass'.pc = "read" /\ pass'.back = pass.back
                        \/ pass'.pc = "publish" /\ pass'.back = "read"
  <2> HIDE DEF seen, PassOK
  <2>4. ASSUME pass' = seen  PROVE Kept
    BY <2>2, <2>4
  <2>5. ASSUME pass' = [seen EXCEPT !.met = @ \cup {key}]  PROVE Kept
    BY <2>2, <2>5
  <2>6. ASSUME pass' = [seen EXCEPT !.met = @ \cup {key}, !.found = @ \cup {job}]  PROVE Kept
    BY <2>2, <2>6
  <2>7. ASSUME pass' = [seen EXCEPT !.met = @ \cup {push}, !.pc = "publish",
                          !.tree = v.tree, !.object = stored[v.tree], !.back = "read"]
        PROVE Kept
    BY <2>2, <2>7
  <2>8. Kept  BY <2>1, <2>4, <2>5, <2>6, <2>7
  <2> QED  BY <2>3, <2>8 DEF PassOK
<1>11. ASSUME NEW c, NotDerived(c)  PROVE PassOK'  BY <1>11 DEF NotDerived
<1>12. ASSUME NEW j, AdmitJob(j)  PROVE PassOK'  BY <1>12 DEF AdmitJob
<1>13. ASSUME NEW fails \in BOOLEAN, NEW taken \in BOOLEAN, Pushes(fails, taken)  PROVE PassOK'
  <2> HIDE DEF NoPass
  <2> QED  BY <1>13, PushMoves
<1>14. CASE PushWaits  BY <1>14 DEF PushWaits
<1>15. CASE Tick  BY <1>15 DEF Tick
<1>16. CASE Kill  BY <1>16 DEF Kill
<1>17. ASSUME NEW saves \in BOOLEAN, End(saves)  PROVE PassOK'  BY <1>17 DEF End
<1>18. ASSUME NEW saves \in BOOLEAN, NEW p \in Pid, Complete(p, saves)  PROVE PassOK'
  BY <1>18, CompletePass
<1> QED
  BY <1>1, <1>2, <1>3, <1>4, <1>5, <1>6, <1>7, <1>8, <1>9, <1>10, <1>11, <1>12, <1>13,
     <1>14, <1>15, <1>16, <1>17, <1>18, StepsAre DEF OfPass

-----------------------------------------------------------------------------
(***************************************************************************)
(* Marks.                                                                  *)
(***************************************************************************)

\* A scan that is under way read the refs after every mark, or a mark was
\* made since and due is there; when it ends without either, it read less
\* than the project or was stopped, and the pass acknowledges nothing.
MarksOK ==
    /\ MarksKept
    /\ cover \in {"no", "view", "whole"}
    /\ cover = "view" => InScan
    /\ cover = "whole" => ~InScan
    /\ cover = "no" /\ ~At("idle") /\ ~At("scan") /\ ~At("view") /\ ~pass.trouble /\ ~pass.stop
          => due

\* Every step keeps it: a mark is taken from due only before a scan reads.
LEMMA MarksOKStep ==
  ASSUME PassOK, MarksOK, [Next]_vars  PROVE  MarksOK'
<1> USE DEF PassOK, MarksOK, MarksKept, InScan, NoPass, At
<1>1. CASE UNCHANGED vars  BY <1>1 DEF vars, wake
<1>2. CASE Beside
  <2>1. CASE UNCHANGED <<pass, wake, unread, cover>>  BY <2>1 DEF wake
  <2>2. CASE UNCHANGED pass /\ Marks  BY <2>2 DEF Marks
  <2> QED  BY <1>2, <2>1, <2>2, BesideThePass
<1>3. CASE Begins  BY <1>3 DEF Begins, Start, wake
<1>4. CASE View  BY <1>4 DEF View, wake
<1>5. CASE EndScan
  <2>1. /\ At("read") /\ pass'.pc = "admit" /\ pass'.then = "settle"
        /\ pass'.trouble = pass.trouble
    BY <1>5 DEF EndScan
  <2>0. ~InScan' /\ cover' \in {"no", "whole"}
    BY <2>1, <1>5 DEF EndScan
  <2>2. /\ UNCHANGED <<wake, unread>>
        /\ cover' = IF pass.whole /\ cover = "view" THEN "whole" ELSE "no"
    BY <1>5 DEF EndScan
  <2>3. MarksKept'  BY <2>2 DEF wake
  <2>4. cover' = "no" /\ ~pass.trouble /\ ~pass.stop => due'  BY <2>1, <2>2 DEF wake
  <2> QED  BY <2>0, <2>1, <2>2, <2>3, <2>4
<1>6. CASE Admitted  BY <1>6 DEF Admitted, Settled, wake
<1>7. CASE Reaped  BY <1>7 DEF Reaped, wake
<1>8. CASE ReadFails  BY <1>8 DEF ReadFails, wake
<1>9. ASSUME NEW claims \in BOOLEAN, Claim(claims)  PROVE MarksOK'
  BY <1>9 DEF Claim, wake
<1>10. ASSUME NEW c, ReadChange(c)  PROVE MarksOK'  BY <1>10 DEF ReadChange, wake
<1>11. ASSUME NEW c, NotDerived(c)  PROVE MarksOK'  BY <1>11 DEF NotDerived, wake
<1>12. ASSUME NEW j, AdmitJob(j)  PROVE MarksOK'  BY <1>12 DEF AdmitJob, wake
<1>13. ASSUME NEW fails \in BOOLEAN, NEW taken \in BOOLEAN, Pushes(fails, taken)  PROVE MarksOK'
  <2>1. \/ UNCHANGED <<wake, unread, cover>>
        \/ Marks /\ UNCHANGED claimed
    BY <1>13 DEF Pushes, wake
  <2> HIDE DEF NoPass
  <2> QED  BY <1>13, <2>1, PushMoves DEF Marks, wake
<1>14. CASE PushWaits  BY <1>14 DEF PushWaits, wake
<1>15. CASE Tick  BY <1>15 DEF Tick, wake
<1>16. CASE Kill  BY <1>16 DEF Kill, wake
<1>17. ASSUME NEW saves \in BOOLEAN, End(saves)  PROVE MarksOK'
  BY <1>17 DEF End, Handled
<1>18. ASSUME NEW saves \in BOOLEAN, NEW p \in Pid, Complete(p, saves)  PROVE MarksOK'
  <2>1. UNCHANGED <<wake, unread, cover>>  BY <1>18 DEF Complete
  <2> QED  BY <1>18, <2>1, CompletePass DEF wake
<1> QED
  BY <1>1, <1>2, <1>3, <1>4, <1>5, <1>6, <1>7, <1>8, <1>9, <1>10, <1>11, <1>12, <1>13,
     <1>14, <1>15, <1>16, <1>17, <1>18, StepsAre DEF OfPass

\* No mark is lost: one that no handled pass read the refs after is due or
\* claimed, whenever passes are killed or fail (wake.go).
THEOREM NoMarkIsLost == Spec => []MarksKept
<1>1. Init => PassOK /\ MarksOK
  <2> SUFFICES ASSUME Init  PROVE MarksOK
    BY PassOKInit
  <2>1. MarksKept  BY DEF Init, MarksKept
  <2>2. cover = "no" /\ pass.pc = "idle"  BY DEF Init, NoPass
  <2> QED  BY <2>1, <2>2 DEF MarksOK, At
<1>2. PassOK /\ MarksOK /\ [Next]_vars => (PassOK /\ MarksOK)'
  BY PassOKStep, MarksOKStep
<1>3. PassOK /\ MarksOK => MarksKept  BY DEF MarksOK
<1> QED  BY <1>1, <1>2, <1>3, PTL DEF Spec

-----------------------------------------------------------------------------
(***************************************************************************)
(* Runs.                                                                   *)
(***************************************************************************)

RunFields == {"c", "n", "tree", "checks", "phase", "mine", "stopped", "locked"}

\* A run is the running pass's own, except while none runs: the next pass
\* begins only when those of the killed one have ended.
RunsOK ==
    /\ runs = [p \in Pid |-> runs[p]]
    /\ \A p \in Pid : runs[p] # None =>
          DOMAIN runs[p] = RunFields /\ runs[p].mine \in BOOLEAN /\ (~At("idle") => runs[p].mine)
    /\ OneBuilder

\* What is left of the runs after a step that starts none: what they are for.
Thinned ==
    /\ runs' = [p \in Pid |-> runs'[p]]
    /\ \A p \in Pid : runs'[p] # None =>
          /\ runs[p] # None
          /\ DOMAIN runs'[p] = DOMAIN runs[p]
          /\ runs'[p].tree = runs[p].tree /\ runs'[p].checks = runs[p].checks
          /\ runs'[p].mine \in BOOLEAN
          /\ runs'[p].mine = runs[p].mine \/ At("idle")'
          /\ runs'[p].mine => runs[p].mine

\* The steps of a run start none.
LEMMA RunsBeside ==
  ASSUME RunsOK, Beside  PROVE  Thinned
<1> USE DEF RunsOK, RunFields, Thinned
<1>1. ASSUME NEW p \in Pid, runs[p] # None, NEW phase, Ends(p, phase)  PROVE Thinned
  BY <1>1 DEF Ends
<1>2. ASSUME NEW p \in Pid, NEW from, NEW to, Goes(p, from, to)  PROVE Thinned
  BY <1>2 DEF Goes
<1>3. CASE UNCHANGED runs  BY <1>3
<1>4. ASSUME NEW p \in Pid,
             \/ Reserves(p) \/ Admits(p) \/ Evaluated(p) \/ NotReserved(p)
             \/ CheckFails(p) \/ Dies(p) \/ DiesStoring(p) \/ Drops(p)
             \/ \E dies \in BOOLEAN : Stores(p, dies)
      PROVE  Thinned
  <2>1. CASE Reserves(p) \/ Admits(p) \/ Evaluated(p)
    BY <2>1, <1>2 DEF Reserves, Admits, Evaluated
  <2>2. CASE NotReserved(p) \/ CheckFails(p) \/ Dies(p) \/ DiesStoring(p)
    BY <2>2, <1>1 DEF NotReserved, CheckFails, Dies, DiesStoring
  <2>3. CASE Drops(p)  BY <2>3, <1>3 DEF Drops
  <2>4. ASSUME NEW dies, Stores(p, dies)  PROVE Thinned
    BY <2>4, <1>1 DEF Stores
  <2> QED  BY <1>4, <2>1, <2>2, <2>3, <2>4
<1>5. CASE \/ Policy \/ Mark
           \/ \E c \in Change : Toggle(c) \/ \E t \in Tree : Amend(c, t)
           \/ \E t \in Tree, k \in Check : Attested(t, k)
           \/ \E k \in record \cup pass.failed : Expire(k)
           \/ \E s \in storing : GitStores(s)
  BY <1>5, <1>3 DEF Policy, Mark, Toggle, Amend, Attested, Expire, GitStores, Move
<1> QED  BY <1>4, <1>5 DEF Beside

\* A step that starts neither a run nor a pass keeps it.
LEMMA ThinnedKeeps ==
  ASSUME RunsOK, Thinned, At("idle") => At("idle")'
  PROVE  RunsOK'
BY DEF RunsOK, Thinned, OneBuilder, RunFields, At

\* A run starts for a tree no run is about: while the pass goes on, the runs
\* are its own and assess finds the tree of each running.
LEMMA StartsApart ==
  ASSUME RunsOK, NEW j, AdmitJob(j)
  PROVE  RunsOK'
<1>1. ~At("idle") /\ ~At("idle")'  BY DEF AdmitJob, At
<1>2. CASE UNCHANGED runs  BY <1>1, <1>2 DEF RunsOK, OneBuilder, At
<1>3. CASE runs' # runs
  <2>1. PICK p \in Spawned : runs' = [runs EXCEPT ![p] = RunOf(j)]
    BY <1>3 DEF AdmitJob
  <2>2. p \in Pid /\ runs[p] = None  BY <2>1 DEF Spawned
  <2>3. j.tree \notin Running
    BY <1>3 DEF AdmitJob, Assessed
  <2>4. \A q \in Pid : runs[q] # None => runs[q].tree # j.tree
    BY <2>3, <1>1 DEF RunsOK, Running, Mine
  <2>5. /\ DOMAIN RunOf(j) = RunFields
        /\ RunOf(j).mine = TRUE /\ RunOf(j).tree = j.tree
    BY DEF RunOf, RunFields
  <2>6. /\ runs' = [q \in Pid |-> runs'[q]]
        /\ runs'[p] = RunOf(j) /\ \A q \in Pid \ {p} : runs'[q] = runs[q]
    BY <2>1, <2>2 DEF RunsOK
  <2>7. OneBuilder'  BY <2>4, <2>5, <2>6 DEF RunsOK, OneBuilder
  <2>8. \A q \in Pid : runs'[q] # None =>
           DOMAIN runs'[q] = RunFields /\ runs'[q].mine \in BOOLEAN /\ runs'[q].mine
    BY <2>5, <2>6, <1>1 DEF RunsOK
  <2> QED  BY <2>6, <2>7, <2>8 DEF RunsOK
<1> QED  BY <1>2, <1>3

\* Only admit starts a run, and only the pass's start ends idleness.
LEMMA StepThins ==
  ASSUME RunsOK, PassOK, [Next]_vars
  PROVE  \/ \E j : AdmitJob(j)
         \/ Thinned /\ (Begins \/ (At("idle") => At("idle")'))
<1> USE DEF At
<1> DEFINE Goal == \/ \E j : AdmitJob(j)
                   \/ Thinned /\ (Begins \/ (At("idle") => At("idle")'))
<1>1. ASSUME UNCHANGED runs  PROVE Thinned
  BY <1>1 DEF RunsOK, Thinned, RunFields
<1>2. CASE UNCHANGED vars  BY <1>1, <1>2 DEF vars
<1>3. CASE Beside  BY <1>3, RunsBeside, BesideThePass
<1>4. CASE Begins  BY <1>1, <1>4 DEF Begins, Start
<1>5. CASE View \/ Admitted \/ Reaped \/ ReadFails \/ Tick
  BY <1>1, <1>5 DEF View, Admitted, Reaped, ReadFails, Tick
<1>6. CASE EndScan
  <2>1. /\ ~At("idle")
        /\ runs' = [p \in Pid |-> IF pass.whole /\ p \in Superseded
                                  THEN [runs[p] EXCEPT !.stopped = TRUE] ELSE runs[p]]
    BY <1>6 DEF EndScan
  <2>2. \A p \in Superseded : runs[p] # None  BY DEF Superseded, Mine
  <2> QED  BY <2>1, <2>2 DEF RunsOK, Thinned, RunFields
<1>7. ASSUME NEW claims \in BOOLEAN, Claim(claims)  PROVE Goal
  BY <1>1, <1>7 DEF Claim
<1>8. ASSUME NEW c, ReadChange(c) \/ NotDerived(c)  PROVE Goal
  BY <1>1, <1>8 DEF ReadChange, NotDerived
<1>9. ASSUME runs' = Published  PROVE Thinned
  BY <1>9 DEF RunsOK, Thinned, Published, RunFields
<1>10. ASSUME NEW fails, NEW taken, Pushes(fails, taken)  PROVE Goal
  BY <1>10, <1>9 DEF Pushes
<1>11. CASE PushWaits  BY <1>11, <1>9 DEF PushWaits
<1>12. CASE Kill
  <2>1. pass'.pc = "idle"  BY <1>12 DEF Kill, NoPass
  <2> QED  BY <1>12, <2>1 DEF Kill, RunsOK, Thinned, RunFields, Mine
<1>13. ASSUME NEW saves \in BOOLEAN, End(saves)  PROVE Goal
  BY <1>1, <1>13 DEF End
<1>14. ASSUME NEW saves \in BOOLEAN, NEW p \in Pid, Complete(p, saves)  PROVE Goal
  <2>1. /\ ~At("idle") /\ runs[p] # None
        /\ \/ runs' = [runs EXCEPT ![p] = None]
           \/ runs' = [runs EXCEPT ![p].phase = "kept"]
    BY <1>14 DEF Complete, Mine, At
  <2> QED  BY <2>1 DEF RunsOK, Thinned, RunFields
<1> QED
  BY <1>2, <1>3, <1>4, <1>5, <1>6, <1>7, <1>8, <1>10, <1>11, <1>12, <1>13, <1>14,
     StepsAre DEF OfPass

\* Every step keeps it.
LEMMA RunsOKStep ==
  ASSUME RunsOK, PassOK, [Next]_vars  PROVE  RunsOK'
<1>1. ASSUME NEW j, AdmitJob(j)  PROVE RunsOK'  BY <1>1, StartsApart
<1>2. CASE Begins
  <2>1. UNCHANGED runs /\ \A p \in Pid : runs[p] = None  BY <1>2 DEF Begins, Start
  <2> QED  BY <2>1 DEF RunsOK, OneBuilder
<1>3. CASE Thinned /\ (At("idle") => At("idle")')  BY <1>3, ThinnedKeeps
<1> QED  BY <1>1, <1>2, <1>3, StepThins

\* The invariant of every behaviour.
LEMMA RunsInvariance == Spec => [](PassOK /\ RunsOK)
<1>1. Init => PassOK /\ RunsOK
  <2> SUFFICES ASSUME Init  PROVE RunsOK
    BY PassOKInit
  <2>1. runs = [p \in Pid |-> None]  BY DEF Init
  <2> QED  BY <2>1 DEF RunsOK, OneBuilder
<1>2. PassOK /\ RunsOK /\ [Next]_vars => (PassOK /\ RunsOK)'
  BY PassOKStep, RunsOKStep
<1> QED  BY <1>1, <1>2, PTL DEF Spec

\* No two runs store the ref of one tree: a run starts for a tree that none of
\* its pass is about, and a pass starts when the runs of those before have
\* ended (worker.go, assess and the locks the runs inherit).
THEOREM OneBuilderPerTree == Spec => []OneBuilder
<1>1. PassOK /\ RunsOK => OneBuilder  BY DEF RunsOK
<1> QED  BY <1>1, RunsInvariance, PTL

\* A worker builds a tree's evidence once: no step starts a run for a tree
\* whose ref is on origin, or here with its push lost (worker.go, assess).
THEOREM BuildsOnce == Spec => BuiltOnce
<1> DEFINE Starts == \A p \in Pid : runs[p] = None /\ runs'[p] # None
                        => own[runs'[p].tree] = {} /\ stored[runs'[p].tree] = {}
<1>1. PassOK /\ RunsOK /\ [Next]_vars => [Starts]_vars
  <2> SUFFICES ASSUME PassOK, RunsOK, [Next]_vars  PROVE Starts
    OBVIOUS
  <2>1. CASE Thinned  BY <2>1 DEF Thinned
  <2>2. ASSUME NEW j, AdmitJob(j)  PROVE Starts
    <3>1. CASE UNCHANGED runs  BY <3>1
    <3>2. CASE runs' # runs
      <4>1. PICK p \in Spawned : runs' = [runs EXCEPT ![p] = RunOf(j)]
        BY <2>2, <3>2 DEF AdmitJob
      <4>2. p \in Pid  BY <4>1 DEF Spawned
      <4>3. own[j.tree] = {} /\ stored[j.tree] = {}
        BY <2>2, <3>2 DEF AdmitJob, Assessed
      <4>4. runs'[p] = RunOf(j) /\ \A q \in Pid \ {p} : runs'[q] = runs[q]
        BY <4>1, <4>2 DEF RunsOK
      <4>5. RunOf(j).tree = j.tree  BY DEF RunOf
      <4> QED  BY <4>3, <4>4, <4>5
    <3> QED  BY <3>1, <3>2
  <2> QED  BY <2>1, <2>2, StepThins
<1> QED  BY <1>1, RunsInvariance, PTL DEF Spec, BuiltOnce

-----------------------------------------------------------------------------
(***************************************************************************)
(* Admission.                                                              *)
(***************************************************************************)

\* The memory and the line change only as a run's phase does.
LEMMA LineMoves ==
  ASSUME PassOK, [Next]_vars  PROVE  [Adm!Next]_(Adm!vars)
<1> USE DEF line, Adm!vars
<1>1. CASE UNCHANGED vars  BY <1>1 DEF vars
<1>2. CASE Beside
  <2>1. ASSUME NEW p \in Pid,
               \/ \E e \in Estimate : Adm!Reserve(p, e)
               \/ Adm!Admit(p) \/ Adm!Release(p) \/ Adm!Die(p) \/ Adm!Drop(p)
        PROVE  Adm!Next
    BY <2>1 DEF Adm!Next
  <2>2. ASSUME NEW p \in Pid,
               Reserves(p) \/ Admits(p) \/ Evaluated(p) \/ CheckFails(p) \/ Dies(p) \/ Drops(p)
        PROVE  Adm!Next \/ UNCHANGED line
    BY <2>1, <2>2 DEF Reserves, Admits, Evaluated, CheckFails, Dies, Drops
  <2>3. ASSUME NEW p \in Pid,
               NotReserved(p) \/ DiesStoring(p) \/ \E dies \in BOOLEAN : Stores(p, dies)
        PROVE  UNCHANGED line
    BY <2>3 DEF NotReserved, Stores, DiesStoring
  <2>4. CASE \/ Policy \/ Mark
             \/ \E c \in Change : Toggle(c) \/ \E t \in Tree : Amend(c, t)
             \/ \E t \in Tree, k \in Check : Attested(t, k)
             \/ \E k \in record \cup pass.failed : Expire(k)
             \/ \E s \in storing : GitStores(s)
    BY <2>4 DEF Policy, Mark, Toggle, Amend, Attested, Expire, GitStores, Move
  <2> QED  BY <1>2, <2>2, <2>3, <2>4 DEF Beside
<1>3. CASE OfPass
  <2>1. CASE Begins \/ View \/ EndScan \/ Admitted \/ Reaped \/ ReadFails \/ PushWaits \/ Tick \/ Kill
    BY <2>1 DEF Begins, Start, View, EndScan, Admitted, Reaped, ReadFails, PushWaits, Tick, Kill
  <2>2. ASSUME NEW claims \in BOOLEAN, Claim(claims)  PROVE UNCHANGED line
    BY <2>2 DEF Claim
  <2>3. ASSUME NEW c, ReadChange(c) \/ NotDerived(c)  PROVE UNCHANGED line
    BY <2>3 DEF ReadChange, NotDerived
  <2>4. ASSUME NEW j, AdmitJob(j)  PROVE UNCHANGED line
    BY <2>4 DEF AdmitJob
  <2>5. ASSUME NEW fails, NEW taken, Pushes(fails, taken)  PROVE UNCHANGED line
    BY <2>5 DEF Pushes
  <2>6. ASSUME NEW saves, End(saves) \/ \E p \in Pid : Complete(p, saves)  PROVE UNCHANGED line
    BY <2>6 DEF End, Complete
  <2> QED  BY <1>3, <2>1, <2>2, <2>3, <2>4, <2>5, <2>6 DEF OfPass
<1> QED  BY <1>1, <1>2, <1>3, StepsAre

-----------------------------------------------------------------------------
(***************************************************************************)
(* What reservations add up to.  Memory is a fold, so a sum is taken one   *)
(* element at a time in an order of its own; what is shown here is that    *)
(* the order does not matter.  Each lemma takes a least set it fails for.  *)
(***************************************************************************)

\* g is the fold's function on the subsets of S.
IsSum(r, S, g) ==
    g = [s \in SUBSET S |-> IF s = {} THEN 0
                            ELSE LET x == CHOOSE x \in s : TRUE IN r[x].estimate + g[s \ {x}]]
Total(r, S) == (CHOOSE g : IsSum(r, S, g))[S]

\* What Admission adds up is such a sum.
LEMMA MemoryIsTotal == \A S : Adm!Memory(S) = Total(reserved, S)
BY DEF Adm!Memory, Adm!MapThenSumSet, Adm!MapThenFoldSet, IsSum, Total

\* Of the subsets of a finite set, one that contains no other.
LEMMA LeastSubset ==
  ASSUME NEW S, IsFiniteSet(S), NEW F, F \subseteq SUBSET S, F # {}
  PROVE  \E T \in F : \A U \in F : U \subseteq T => U = T
<1>1. IsWellFoundedOn(StrictSubsetOrdering(S), SUBSET S)
  BY FS_StrictSubsetOrderingWellFounded, FS_FiniteSubsetsOfFinite
<1>2. PICK T \in F : \A U \in F : ~ (<<U, T>> \in StrictSubsetOrdering(S))
  BY <1>1, WFMin
<1>3. ASSUME NEW U \in F, U \subseteq T  PROVE U = T
  BY <1>2, <1>3 DEF StrictSubsetOrdering
<1> QED  BY <1>2, <1>3

\* What the fold's function is at a set.
LEMMA SumAt ==
  ASSUME NEW r, NEW S, NEW g, IsSum(r, S, g), NEW s \in SUBSET S, s # {}
  PROVE  LET x == CHOOSE x \in s : TRUE
         IN  x \in s /\ s \ {x} \in SUBSET S /\ g[s] = r[x].estimate + g[s \ {x}]
<1> DEFINE x == CHOOSE x \in s : TRUE
<1>1. x \in s  OBVIOUS
<1>2. g[s] = r[x].estimate + g[s \ {x}]
  BY DEF IsSum
<1> QED  BY <1>1, <1>2

\* And at none.
LEMMA SumAtEmpty ==
  ASSUME NEW r, NEW S, NEW g, IsSum(r, S, g)
  PROVE  g[{}] = 0
BY DEF IsSum

\* Two folds agree where both are defined and the summands are the same.
LEMMA SumsAgree ==
  ASSUME NEW r, NEW q, NEW S, NEW T, NEW g, NEW h, IsFiniteSet(S), S \subseteq T,
         IsSum(r, S, g), IsSum(q, T, h), \A x \in S : r[x].estimate = q[x].estimate
  PROVE  \A s \in SUBSET S : g[s] = h[s]
<1> DEFINE Bad == {s \in SUBSET S : g[s] # h[s]}
<1> SUFFICES ASSUME Bad # {}  PROVE FALSE
  OBVIOUS
<1>1. PICK s \in Bad : \A U \in Bad : U \subseteq s => U = s
  <2>1. Bad \subseteq SUBSET S  OBVIOUS
  <2> HIDE DEF Bad
  <2> QED  BY <2>1, LeastSubset
<1>2. s # {}  BY SumAtEmpty
<1> DEFINE x == CHOOSE x \in s : TRUE
<1>0. s \in SUBSET S /\ s \in SUBSET T  OBVIOUS
<1> HIDE DEF Bad
<1>3. x \in s /\ s \ {x} \in SUBSET S /\ g[s] = r[x].estimate + g[s \ {x}]
  BY <1>0, <1>2, SumAt
<1>4. s \in SUBSET T /\ h[s] = q[x].estimate + h[s \ {x}]
  BY <1>0, <1>2, SumAt
<1> USE DEF Bad
<1> HIDE DEF x
<1>5. g[s \ {x}] = h[s \ {x}]  BY <1>1, <1>3
<1>6. g[s] = h[s]  BY <1>3, <1>4, <1>5
<1> QED  BY <1>6

\* There is one on the subsets of a finite set.
LEMMA SumExists ==
  ASSUME NEW r, NEW S, IsFiniteSet(S)
  PROVE  \E g : IsSum(r, S, g)
<1> DEFINE Bad == {T \in SUBSET S : ~ \E g : IsSum(r, T, g)}
<1> SUFFICES ASSUME Bad # {}  PROVE FALSE
  OBVIOUS
<1>1. PICK T \in Bad : \A U \in Bad : U \subseteq T => U = T
  <2>1. Bad \subseteq SUBSET S  OBVIOUS
  <2> HIDE DEF Bad
  <2> QED  BY <2>1, LeastSubset
<1>2. T \in SUBSET S /\ ~ \E g : IsSum(r, T, g)  OBVIOUS
<1>3. \A U \in SUBSET T : U # T => \E g : IsSum(r, U, g)
  BY <1>1
<1> DEFINE G(U) == CHOOSE g : IsSum(r, U, g)
<1>4. \A U \in SUBSET T : U # T => IsSum(r, U, G(U))
  BY <1>3
<1>5. \A U \in SUBSET T : IsFiniteSet(U)
  BY <1>2, FS_Subset
<1> DEFINE x == CHOOSE x \in T : TRUE
           h == [s \in SUBSET T |-> IF s = {} THEN 0
                                    ELSE IF s = T THEN r[x].estimate + G(T \ {x})[T \ {x}]
                                    ELSE G(s)[s]]
<1>6. ASSUME NEW s \in SUBSET T, s # {}, s # T
      PROVE  LET y == CHOOSE y \in s : TRUE IN h[s] = r[y].estimate + h[s \ {y}]
  <2> DEFINE y == CHOOSE y \in s : TRUE
             u == s \ {y}
  <2>1. y \in s /\ u \in SUBSET s /\ u \in SUBSET T /\ G(s)[s] = r[y].estimate + G(s)[u]
    BY <1>4, <1>6, SumAt
  <2>2. u # T /\ u # s  BY <2>1, <1>6
  <2>3. IsSum(r, s, G(s)) /\ IsSum(r, u, G(u))
    BY <1>4, <1>6, <2>1, <2>2
  <2>4. G(u)[u] = G(s)[u]
    BY <1>5, <2>1, <2>3, SumsAgree
  <2>5. u = {} => G(u)[u] = 0
    BY <2>3, SumAtEmpty
  <2>6. h[u] = G(u)[u] /\ h[s] = G(s)[s]
    <3> HIDE DEF G, u
    <3> QED  BY <2>1, <2>2, <2>5, <1>6
  <2> HIDE DEF h, G, u
  <2> QED  BY <2>1, <2>4, <2>6 DEF u
<1>7. ASSUME T # {}  PROVE h[T] = r[x].estimate + h[T \ {x}]
  <2> DEFINE u == T \ {x}
  <2>1. u \in SUBSET T /\ u # T  BY <1>7
  <2>2. u = {} => G(u)[u] = 0
    BY <1>4, <2>1, SumAtEmpty
  <2>3. h[u] = G(u)[u] /\ h[T] = r[x].estimate + G(u)[u]
    <3> HIDE DEF G
    <3> QED  BY <2>1, <2>2, <1>7
  <2> QED  BY <2>3
<1>8. h[{}] = 0  OBVIOUS
<1>9. h = [s \in SUBSET T |-> IF s = {} THEN 0
                              ELSE LET y == CHOOSE y \in s : TRUE IN r[y].estimate + h[s \ {y}]]
  <2>1. ASSUME NEW s \in SUBSET T
        PROVE  h[s] = IF s = {} THEN 0
                      ELSE LET y == CHOOSE y \in s : TRUE IN r[y].estimate + h[s \ {y}]
    <3> HIDE DEF h
    <3> QED  BY <1>6, <1>7, <1>8
  <2>2. h = [s \in SUBSET T |-> h[s]]  OBVIOUS
  <2> HIDE DEF h
  <2> QED  BY <2>1, <2>2
<1>10. IsSum(r, T, h)
  <2> HIDE DEF h
  <2> QED  BY <1>9 DEF IsSum
<1> QED  BY <1>2, <1>10

\* The sum takes the elements one by one.
LEMMA TotalOf ==
  ASSUME NEW r, NEW S, IsFiniteSet(S)
  PROVE  /\ Total(r, {}) = 0
         /\ S # {} => \E x \in S : Total(r, S) = r[x].estimate + Total(r, S \ {x})
<1> DEFINE G(U) == CHOOSE g : IsSum(r, U, g)
<1>1. \A U \in SUBSET S : IsSum(r, U, G(U))
  BY SumExists, FS_Subset
<1>2. Total(r, {}) = 0
  BY <1>1, SumAtEmpty DEF Total
<1>3. ASSUME S # {}  PROVE \E x \in S : Total(r, S) = r[x].estimate + Total(r, S \ {x})
  <2> DEFINE x == CHOOSE x \in S : TRUE
             u == S \ {x}
  <2>1. x \in S /\ u \in SUBSET S /\ G(S)[S] = r[x].estimate + G(S)[u]
    BY <1>1, <1>3, SumAt
  <2>2. IsSum(r, u, G(u)) /\ IsSum(r, S, G(S)) /\ IsFiniteSet(u)
    BY <1>1, <2>1, FS_Subset
  <2>3. G(u)[u] = G(S)[u]
    BY <2>1, <2>2, SumsAgree
  <2> QED  BY <2>1, <2>3 DEF Total
<1> QED  BY <1>2, <1>3

\* Of the same summands it is the same.
LEMMA TotalSame ==
  ASSUME NEW r, NEW q, NEW S, IsFiniteSet(S), \A x \in S : r[x].estimate = q[x].estimate
  PROVE  Total(r, S) = Total(q, S)
<1>1. IsSum(r, S, CHOOSE g : IsSum(r, S, g)) /\ IsSum(q, S, CHOOSE g : IsSum(q, S, g))
  BY SumExists
<1> QED  BY <1>1, SumsAgree DEF Total

\* Of numbers it is a number.
LEMMA TotalNat ==
  ASSUME NEW r, NEW S, IsFiniteSet(S), \A x \in S : r[x].estimate \in Nat
  PROVE  Total(r, S) \in Nat
<1> DEFINE Bad == {T \in SUBSET S : Total(r, T) \notin Nat}
<1> SUFFICES ASSUME Bad # {}  PROVE FALSE
  OBVIOUS
<1>1. PICK T \in Bad : \A U \in Bad : U \subseteq T => U = T
  <2>1. Bad \subseteq SUBSET S  OBVIOUS
  <2> HIDE DEF Bad
  <2> QED  BY <2>1, LeastSubset
<1>2. IsFiniteSet(T) /\ Total(r, T) \notin Nat  BY FS_Subset
<1>3. T # {}
  <2>1. Total(r, {}) = 0  BY <1>2, TotalOf
  <2> HIDE DEF Bad
  <2> QED  BY <1>2, <2>1
<1>4. PICK x \in T : Total(r, T) = r[x].estimate + Total(r, T \ {x})
  BY <1>2, <1>3, TotalOf
<1>5. Total(r, T \ {x}) \in Nat  BY <1>1
<1> QED  BY <1>4, <1>5

\* Whichever element is taken first.
LEMMA TotalTakes ==
  ASSUME NEW r, NEW S, IsFiniteSet(S), \A x \in S : r[x].estimate \in Nat
  PROVE  \A x \in S : Total(r, S) = r[x].estimate + Total(r, S \ {x})
<1> DEFINE Bad == {T \in SUBSET S : \E x \in T : Total(r, T) # r[x].estimate + Total(r, T \ {x})}
<1> SUFFICES ASSUME Bad # {}  PROVE FALSE
  OBVIOUS
<1>1. PICK T \in Bad : \A U \in Bad : U \subseteq T => U = T
  <2>1. Bad \subseteq SUBSET S  OBVIOUS
  <2> HIDE DEF Bad
  <2> QED  BY <2>1, LeastSubset
<1>2. IsFiniteSet(T) /\ T \in SUBSET S  BY FS_Subset
<1>3. PICK x \in T : Total(r, T) # r[x].estimate + Total(r, T \ {x})
  OBVIOUS
<1>4. PICK y \in T : Total(r, T) = r[y].estimate + Total(r, T \ {y})
  BY <1>2, <1>3, TotalOf
<1>5. x # y  BY <1>3, <1>4
<1>6. T \ {y} \notin Bad /\ T \ {x} \notin Bad  BY <1>1
<1>7. Total(r, T \ {y}) = r[x].estimate + Total(r, (T \ {y}) \ {x})
  BY <1>2, <1>5, <1>6
<1>8. Total(r, T \ {x}) = r[y].estimate + Total(r, (T \ {x}) \ {y})
  BY <1>2, <1>5, <1>6
<1>9. (T \ {y}) \ {x} = (T \ {x}) \ {y}  OBVIOUS
<1>10. Total(r, (T \ {x}) \ {y}) \in Nat
  <2>1. IsFiniteSet((T \ {x}) \ {y})  BY <1>2, FS_Subset
  <2> QED  BY <1>2, <2>1, TotalNat
<1>11. r[x].estimate \in Nat /\ r[y].estimate \in Nat  BY <1>2
<1>12. \A a, b, z \in Nat : b + (a + z) = a + (b + z)  OBVIOUS
<1> DEFINE rest == Total(r, (T \ {x}) \ {y})
<1> HIDE DEF Bad
<1>13. Total(r, T) = r[y].estimate + (r[x].estimate + rest)  BY <1>4, <1>7, <1>9
<1>14. Total(r, T \ {x}) = r[y].estimate + rest  BY <1>8
<1> HIDE DEF rest
<1>15. r[y].estimate + (r[x].estimate + rest) = r[x].estimate + (r[y].estimate + rest)
  BY <1>10, <1>11, <1>12 DEF rest
<1> QED  BY <1>3, <1>13, <1>14, <1>15

\* Less of them is no more.
LEMMA TotalGrows ==
  ASSUME NEW r, NEW S, IsFiniteSet(S), \A x \in S : r[x].estimate \in Nat, NEW T \in SUBSET S
  PROVE  Total(r, T) <= Total(r, S)
<1> DEFINE Bad == {U \in SUBSET S : T \subseteq U /\ ~ (Total(r, T) <= Total(r, U))}
<1> SUFFICES ASSUME Bad # {}  PROVE FALSE
  OBVIOUS
<1>1. PICK U \in Bad : \A V \in Bad : V \subseteq U => V = U
  <2>1. Bad \subseteq SUBSET S  OBVIOUS
  <2> HIDE DEF Bad
  <2> QED  BY <2>1, LeastSubset
<1>2. /\ \A V \in SUBSET S : IsFiniteSet(V)
      /\ \A V \in SUBSET S : Total(r, V) \in Nat
  BY FS_Subset, TotalNat
<1>3. U # T  BY <1>2
<1>4. PICK x \in U : x \notin T  BY <1>3
<1>5. U \ {x} \notin Bad  BY <1>1
<1>6. U \ {x} \in SUBSET S /\ T \subseteq U \ {x} /\ U \in SUBSET S  BY <1>4
<1>7. Total(r, T) <= Total(r, U \ {x})  BY <1>5, <1>6
<1>8. Total(r, U) = r[x].estimate + Total(r, U \ {x}) /\ r[x].estimate \in Nat
  BY <1>2, <1>6, TotalTakes
<1>9. Total(r, T) <= Total(r, U)
  <2> HIDE DEF Bad
  <2> QED  BY <1>2, <1>6, <1>7, <1>8
<1> QED  BY <1>9

-----------------------------------------------------------------------------
(***************************************************************************)
(* The memory the evaluations run in.                                      *)
(***************************************************************************)

\* A finite set of numbers has its greatest.
LEMMA MaxIsGreatest ==
  ASSUME NEW S, S \subseteq Nat, S # {}, IsFiniteSet(S)
  PROVE  Adm!Max(S) \in S /\ \A y \in S : y <= Adm!Max(S)
<1> DEFINE Bad == {T \in SUBSET S : T # {} /\ ~ \E x \in T : \A y \in T : x >= y}
<1>1. Bad = {}
  <2> SUFFICES ASSUME Bad # {}  PROVE FALSE
    OBVIOUS
  <2>1. PICK T \in Bad : \A U \in Bad : U \subseteq T => U = T
    <3>1. Bad \subseteq SUBSET S /\ Bad # {} /\ IsFiniteSet(S)  OBVIOUS
    <3> HIDE DEF Bad
    <3> QED  BY ONLY <3>1, LeastSubset
  <2>2. PICK x \in T : TRUE  OBVIOUS
  <2>3. T \ {x} \notin Bad  BY <2>1, <2>2
  <2>4. CASE T \ {x} = {}  BY <2>2, <2>4
  <2>5. CASE T \ {x} # {}
    <3>1. PICK m \in T \ {x} : \A y \in T \ {x} : m >= y  BY <2>3, <2>5
    <3>2. \E z \in T : \A y \in T : z >= y
      <4>1. CASE x >= m  BY <3>1, <4>1
      <4>2. CASE ~(x >= m)  BY <3>1, <4>2
      <4> QED  BY <4>1, <4>2
    <3> QED  BY <3>2
  <2> QED  BY <2>4, <2>5
<1>2. \E x \in S : \A y \in S : x >= y  BY <1>1
<1> QED  BY <1>2 DEF Adm!Max

\* The files: a lock is held on those of the evaluations that run, orphaned or
\* not, no two live ones have one place in line, and each evaluation still
\* fits what is live before it, since what comes later is behind it.
LineOK ==
    /\ reserved \in [Pid -> {None} \cup Adm!Reservation]
    /\ held \subseteq Pid /\ IsFiniteSet(held)
    /\ evaluating \subseteq held /\ orphaned \subseteq evaluating
    /\ \A p, q \in Adm!Live : reserved[p].order = reserved[q].order => p = q
    /\ \A p \in evaluating : p \in Adm!Live /\ Adm!Fits(p)

\* The live reservations are records, and what some of them reserve is a sum.
LEMMA LiveOnes ==
  ASSUME LineOK
  PROVE  /\ IsFiniteSet(Adm!Live) /\ Adm!Live \subseteq Pid /\ Adm!Live \subseteq held
         /\ \A p \in Adm!Live : /\ reserved[p] \in Adm!Reservation /\ reserved[p] # None
                                /\ reserved[p].order \in Nat \ {0}
                                /\ reserved[p].estimate \in Nat
<1>1. Adm!Live \subseteq held /\ Adm!Live \subseteq Pid  BY DEF Adm!Live
<1>2. IsFiniteSet(Adm!Live)  BY <1>1, FS_Subset DEF LineOK
<1>3. ASSUME NEW p \in Adm!Live
      PROVE  /\ reserved[p] \in Adm!Reservation /\ reserved[p] # None
  BY <1>3 DEF LineOK, Adm!Live
<1>4. Estimate \subseteq Nat  BY CheckWorkerAssumption
<1> QED  BY <1>1, <1>2, <1>3, <1>4 DEF Adm!Reservation

\* An evaluation fits as long as no more is live before it.
LEMMA FitsStays ==
  ASSUME LineOK, NEW p \in Adm!Live, Adm!Fits(p), Adm!Ahead(p)' \subseteq Adm!Ahead(p),
         \A q \in Adm!Ahead(p)' \cup {p} : reserved'[q] = reserved[q]
  PROVE  Adm!Fits(p)'
<1>1. CASE Adm!Ahead(p) = {}  BY <1>1 DEF Adm!Fits
<1>2. CASE Adm!Memory(Adm!Ahead(p) \cup {p}) <= Budget
  <2> DEFINE A == Adm!Ahead(p) \cup {p}
             B == Adm!Ahead(p)' \cup {p}
  <2>1. A \subseteq Adm!Live  BY DEF Adm!Ahead
  <2>2. IsFiniteSet(A) /\ \A q \in A : reserved[q].estimate \in Nat
    BY <2>1, LiveOnes, FS_Subset
  <2>3. B \in SUBSET A  OBVIOUS
  <2>4. IsFiniteSet(B)  BY <2>2, <2>3, FS_Subset
  <2>5. \A q \in B : reserved'[q].estimate = reserved[q].estimate  OBVIOUS
  <2> HIDE DEF A, B
  <2>6. Total(reserved, B) <= Total(reserved, A)  BY <2>2, <2>3, TotalGrows
  <2>7. Total(reserved', B) = Total(reserved, B)  BY <2>4, <2>5, TotalSame
  <2>8. Adm!Memory(A) = Total(reserved, A)  BY MemoryIsTotal
  <2>9. Adm!Memory(Adm!Ahead(p) \cup {p})' = Total(reserved', B)
    BY DEF Adm!Memory, Adm!MapThenSumSet, Adm!MapThenFoldSet, IsSum, Total, B
  <2>10. Total(reserved', B) \in Nat /\ Total(reserved, A) \in Nat
    <3>1. \A q \in B : reserved'[q].estimate \in Nat  BY <2>2, <2>3, <2>5
    <3> QED  BY <2>2, <2>4, <3>1, TotalNat
  <2>11. Total(reserved', B) <= Budget
    BY <1>2, <2>6, <2>7, <2>8, <2>10, CheckWorkerAssumption DEF A
  <2> QED  BY <2>9, <2>11 DEF Adm!Fits
<1> QED  BY <1>1, <1>2 DEF Adm!Fits

\* A step that takes no reservation keeps it: fewer are live, and no other
\* evaluation is admitted than one that fits.
LEMMA FewerLive ==
  ASSUME LineOK, reserved' \in [Pid -> {None} \cup Adm!Reservation],
         held' \subseteq held, orphaned' \subseteq evaluating',
         Adm!Live' \subseteq Adm!Live, \A q \in Adm!Live' : reserved'[q] = reserved[q],
         \A q \in evaluating' : q \in Adm!Live' /\ Adm!Fits(q)
  PROVE  LineOK'
<1>1. held' \subseteq Pid /\ IsFiniteSet(held') /\ evaluating' \subseteq held'
  BY FS_Subset DEF LineOK, Adm!Live
<1>2. \A p, q \in Adm!Live' : reserved'[p].order = reserved'[q].order => p = q
  BY DEF LineOK
<1>3. ASSUME NEW p \in evaluating'  PROVE p \in Adm!Live' /\ Adm!Fits(p)'
  <2>1. p \in Adm!Live' /\ p \in Adm!Live /\ Adm!Fits(p)  BY <1>3
  <2>2. Adm!Ahead(p)' \subseteq Adm!Ahead(p) /\ Adm!Ahead(p)' \subseteq Adm!Live'
    BY <2>1 DEF Adm!Ahead
  <2> QED  BY <2>1, <2>2, FitsStays
<1> QED  BY <1>1, <1>2, <1>3 DEF LineOK

\* A reservation is last in line: its place is after every live one.
LEMMA ReserveKeeps ==
  ASSUME LineOK, NEW p \in Pid, NEW e \in Estimate, Adm!Reserve(p, e)
  PROVE  LineOK' /\ p \in Adm!Live'
<1> DEFINE orders == {reserved[q].order : q \in Adm!Live}
           o == Adm!Max({0} \cup orders) + 1
<1>1. /\ p \notin held /\ held' = held \cup {p}
      /\ reserved' = [Adm!Swept EXCEPT ![p] = [order |-> o, estimate |-> e]]
      /\ evaluating' = evaluating /\ orphaned' = orphaned
  BY DEF Adm!Reserve
<1>2. o \in Nat \ {0} /\ \A q \in Adm!Live : reserved[q].order < o
  <2>1. orders \subseteq Nat  BY LiveOnes
  <2>2. IsFiniteSet(orders)
    <3> DEFINE f == [q \in Adm!Live |-> reserved[q].order]
    <3>1. f \in Surjection(Adm!Live, orders)  BY DEF Surjection
    <3> QED  BY <3>1, LiveOnes, FS_Surjection
  <2>3. IsFiniteSet({0} \cup orders)  BY <2>2, FS_AddElement
  <2>4. Adm!Max({0} \cup orders) \in {0} \cup orders
        /\ \A y \in {0} \cup orders : y <= Adm!Max({0} \cup orders)
    <3> DEFINE all == {0} \cup orders
    <3>1. all \subseteq Nat /\ all # {} /\ IsFiniteSet(all)  BY <2>1, <2>3
    <3> HIDE DEF all
    <3>2. Adm!Max(all) \in all /\ \A y \in all : y <= Adm!Max(all)
      BY ONLY <3>1, MaxIsGreatest
    <3> QED  BY <3>2 DEF all
  <2> DEFINE m == Adm!Max({0} \cup orders)
  <2>5. m \in Nat  BY <2>1, <2>4
  <2>6. \A q \in Adm!Live : reserved[q].order \in Nat /\ reserved[q].order <= m
    BY <2>1, <2>4
  <2>7. o = m + 1  OBVIOUS
  <2> HIDE DEF m, o
  <2> QED  BY <2>5, <2>6, <2>7
<1> HIDE DEF o
<1>3. /\ reserved'[p] = [order |-> o, estimate |-> e]
      /\ \A q \in Pid \ {p} : reserved'[q] = IF q \in Adm!Live THEN reserved[q] ELSE None
      /\ reserved' \in [Pid -> {None} \cup Adm!Reservation]
  BY <1>1, <1>2 DEF Adm!Swept, LineOK, Adm!Reservation, Adm!Live
<1>4. p \notin Adm!Live  BY <1>1 DEF Adm!Live
<1>5. \A q \in Adm!Live : q \in Pid \ {p} /\ reserved'[q] = reserved[q]
  BY <1>3, <1>4, LiveOnes
<1>6. Adm!Live' = Adm!Live \cup {p}
  <2>1. reserved'[p] # None
    BY <1>2, <1>3, CheckWorkerAssumption
  <2>2. \A q \in Adm!Live : reserved[q] # None /\ q \in held  BY DEF Adm!Live
  <2> QED  BY <1>1, <1>3, <1>4, <1>5, <2>1, <2>2, LiveOnes DEF Adm!Live
<1>7. \A q, r \in Adm!Live' : reserved'[q].order = reserved'[r].order => q = r
  BY <1>2, <1>3, <1>5, <1>6, LiveOnes DEF LineOK
<1>8. ASSUME NEW q \in evaluating  PROVE q \in Adm!Live' /\ Adm!Fits(q)'
  <2>1. q \in Adm!Live /\ Adm!Fits(q)  BY <1>8 DEF LineOK
  <2>2. Adm!Ahead(q)' \subseteq Adm!Ahead(q)
    BY <2>1, <1>2, <1>3, <1>5, <1>6, LiveOnes DEF Adm!Ahead
  <2>3. \A r \in Adm!Ahead(q)' \cup {q} : reserved'[r] = reserved[r]
    BY <2>1, <2>2, <1>5 DEF Adm!Ahead
  <2> QED  BY <2>1, <2>2, <2>3, <1>6, FitsStays
<1>9. held' \subseteq Pid /\ IsFiniteSet(held')
  BY <1>1, FS_AddElement DEF LineOK
<1> QED  BY <1>1, <1>3, <1>6, <1>7, <1>8, <1>9 DEF LineOK

\* Every step of Admission keeps it.
LEMMA LineOKStep ==
  ASSUME LineOK, [Adm!Next]_(Adm!vars)  PROVE LineOK'
<1>1. CASE UNCHANGED Adm!vars
  BY <1>1, FewerLive DEF Adm!vars, LineOK, Adm!Live
<1>2. ASSUME NEW p \in Pid, NEW e \in Estimate, Adm!Reserve(p, e)  PROVE LineOK'
  BY <1>2, ReserveKeeps
<1>3. ASSUME NEW p \in Pid, Adm!Admit(p)  PROVE LineOK'
  <2>1. /\ p \in Adm!Live /\ Adm!Fits(p) /\ reserved' = Adm!Swept
        /\ evaluating' = evaluating \cup {p} /\ UNCHANGED <<held, orphaned>>
    BY <1>3 DEF Adm!Admit
  <2>2. /\ reserved' \in [Pid -> {None} \cup Adm!Reservation]
        /\ \A q \in Adm!Live : reserved'[q] = reserved[q]
        /\ Adm!Live' = Adm!Live
    BY <2>1, LiveOnes DEF Adm!Swept, LineOK, Adm!Live
  <2>3. \A q \in evaluating' : q \in Adm!Live' /\ Adm!Fits(q)
    BY <2>1, <2>2 DEF LineOK
  <2> QED  BY <2>1, <2>2, <2>3, FewerLive DEF LineOK
<1>4. ASSUME NEW p \in Pid, held' = held \ {p}, evaluating' = evaluating \ {p},
             orphaned' \subseteq evaluating',
             reserved' = reserved \/ reserved' = [reserved EXCEPT ![p] = None]
      PROVE  LineOK'
  <2>1. /\ reserved' \in [Pid -> {None} \cup Adm!Reservation]
        /\ \A q \in Pid \ {p} : reserved'[q] = reserved[q]
    BY <1>4 DEF LineOK
  <2>2. Adm!Live' = Adm!Live \ {p}
    BY <1>4, <2>1 DEF Adm!Live
  <2>3. \A q \in Adm!Live' : q \in Adm!Live /\ reserved'[q] = reserved[q]
    BY <2>1, <2>2, LiveOnes
  <2>4. \A q \in evaluating' : q \in Adm!Live' /\ Adm!Fits(q)
    BY <1>4, <2>2 DEF LineOK
  <2> QED  BY <1>4, <2>1, <2>2, <2>3, <2>4, FewerLive
<1>5. ASSUME NEW p \in Pid, Adm!Release(p)  PROVE LineOK'
  BY <1>4, <1>5 DEF Adm!Release, LineOK
<1>6. ASSUME NEW p \in Pid, Adm!Die(p)  PROVE LineOK'
  <2>1. CASE held' = held \ {p} /\ evaluating' = evaluating \ {p} /\ UNCHANGED <<orphaned, reserved>>
    BY <1>4, <1>6, <2>1 DEF Adm!Die, LineOK
  <2>2. CASE /\ p \in evaluating /\ orphaned' = orphaned \cup {p}
             /\ UNCHANGED <<held, evaluating, reserved>>
    BY <2>2, FewerLive DEF LineOK, Adm!Live
  <2> QED  BY <1>6, <2>1, <2>2 DEF Adm!Die
<1>7. ASSUME NEW p \in Pid, Adm!Drop(p)  PROVE LineOK'
  BY <1>4, <1>7 DEF Adm!Drop, LineOK
<1> QED  BY <1>1, <1>2, <1>3, <1>5, <1>6, <1>7 DEF Adm!Next

\* Of the evaluations the last in line fits beside all the others.
LEMMA LastFits ==
  ASSUME LineOK  PROVE Adm!MemoryHeld
<1>0. \A S : Adm!Cardinality(S) = Cardinality(S)
  BY DEF Adm!Cardinality, Cardinality, Adm!IsFiniteSet, IsFiniteSet
<1>1. \A p \in evaluating : p \in Adm!Live /\ Adm!Fits(p) /\ reserved[p] # None
  BY LiveOnes DEF LineOK
<1>2. IsFiniteSet(evaluating)  BY <1>1, LiveOnes, FS_Subset
<1>3. CASE evaluating = {}
  <2>1. Cardinality(evaluating) = 0  BY <1>3, FS_EmptySet
  <2>2. Cardinality(evaluating) <= 1  BY ONLY <2>1
  <2> QED  BY <1>0, <1>1, <2>2 DEF Adm!MemoryHeld
<1>4. CASE evaluating # {}
  <2> DEFINE orders == {reserved[q].order : q \in evaluating}
  <2>1. orders \subseteq Nat /\ orders # {}  BY <1>1, <1>4, LiveOnes
  <2>2. IsFiniteSet(orders)
    <3> DEFINE f == [q \in evaluating |-> reserved[q].order]
    <3>1. f \in Surjection(evaluating, orders)  BY DEF Surjection
    <3> QED  BY <3>1, <1>2, FS_Surjection
  <2>3. Adm!Max(orders) \in orders /\ \A y \in orders : y <= Adm!Max(orders)
    <3> HIDE DEF orders
    <3> QED  BY <2>1, <2>2, MaxIsGreatest
  <2>4. PICK p \in evaluating : \A q \in evaluating : reserved[q].order <= reserved[p].order
    BY <2>3
  <2>5. \A q \in evaluating \ {p} : q \in Adm!Ahead(p)
    BY <1>1, <2>4, LiveOnes DEF LineOK, Adm!Ahead
  <2>6. CASE Adm!Ahead(p) = {}
    <3>1. evaluating = {p}  BY <2>5, <2>6
    <3>2. Cardinality(evaluating) = 1  BY <3>1, FS_Singleton
    <3>3. Cardinality(evaluating) <= 1  BY ONLY <3>2
    <3> QED  BY <1>0, <1>1, <3>3 DEF Adm!MemoryHeld
  <2>7. CASE Adm!Memory(Adm!Ahead(p) \cup {p}) <= Budget
    <3> DEFINE A == Adm!Ahead(p) \cup {p}
    <3>1. A \subseteq Adm!Live  BY <1>1 DEF Adm!Ahead
    <3>2. IsFiniteSet(A) /\ \A q \in A : reserved[q].estimate \in Nat
      BY <3>1, LiveOnes, FS_Subset
    <3>3. evaluating \in SUBSET A  BY <2>5
    <3> HIDE DEF A
    <3>4. Total(reserved, evaluating) <= Total(reserved, A)  BY <3>2, <3>3, TotalGrows
    <3>5. Total(reserved, evaluating) \in Nat /\ Total(reserved, A) \in Nat
      BY <3>2, <3>3, <1>2, TotalNat
    <3>6. Total(reserved, A) <= Budget  BY <2>7, MemoryIsTotal DEF A
    <3>7. Adm!Memory(evaluating) <= Budget
      BY <3>4, <3>5, <3>6, MemoryIsTotal, CheckWorkerAssumption
    <3> QED  BY <1>1, <3>7 DEF Adm!MemoryHeld
  <2> QED  BY <1>1, <2>4, <2>6, <2>7 DEF Adm!Fits
<1> QED  BY <1>3, <1>4

\* The places in line and the evaluations are as LineOK says.
LEMMA LineInvariance == Spec => []LineOK
<1>1. Init => LineOK
  <2> SUFFICES ASSUME Adm!Init  PROVE LineOK
    BY DEF Init
  <2>1. Adm!Live = {}  BY DEF Adm!Init, Adm!Live
  <2>2. IsFiniteSet(held)  BY FS_EmptySet DEF Adm!Init
  <2> QED  BY <2>1, <2>2 DEF Adm!Init, LineOK
<1>2. PassOK /\ LineOK /\ [Next]_vars => LineOK'
  BY LineMoves, LineOKStep
<1> QED  BY <1>1, <1>2, RunsInvariance, PTL DEF Spec

\* The evaluations under way are within the budget together, or one runs alone,
\* for any budget and any number of runs, killed ones included (attest/admit.go).
THEOREM MemoryIsHeld == Spec => []MemoryHeld
<1>1. LineOK => MemoryHeld  BY LastFits DEF MemoryHeld
<1> QED  BY <1>1, LineInvariance, PTL

-----------------------------------------------------------------------------
(***************************************************************************)
(* Types.                                                                  *)
(***************************************************************************)

\* What origin and the disk hold.  A version's number grows only by an event.
ValuesOK ==
    /\ events \in 0..MaxEvents
    /\ change \in [Change -> [n : 1..(MaxEvents + 1 - events), tree : Tree, ready : BOOLEAN]]
    /\ asked \in SUBSET Check
    /\ own \in [Tree -> SUBSET Check] /\ others \in [Tree -> SUBSET Check]
    /\ stored \in [Tree -> SUBSET Check] /\ storing \subseteq Ref

\* A pass builds and publishes what the refs it read are about.
Job == [c : Change, n : Nat, tree : Tree, asked : SUBSET Check]
JobsOK ==
    /\ pass.asked \subseteq Check
    /\ pass.todo \subseteq DOMAIN pass.view /\ DOMAIN pass.view \subseteq Change
    /\ \A c \in DOMAIN pass.view : pass.view[c].tree \in Tree /\ pass.view[c].n \in Nat
    /\ pass.found \cup pass.queue \cup pass.turn \subseteq Job
    /\ At("publish") => pass.tree \in Tree /\ pass.object \in SUBSET Check

\* A run is about a tree and checks it lacked, and it has a live file from its
\* reservation to the end of its evaluation.
RunTypes ==
    \A p \in Pid :
       /\ runs[p] \in {None} \cup Run
       /\ runs[p] # None =>
             /\ runs[p].checks # {}
             /\ runs[p].phase \in {"line", "eval"} => p \in held \ orphaned /\ reserved[p] # None
       /\ (runs[p] # None /\ runs[p].phase = "eval") = (p \in evaluating \ orphaned)

\* The slots.
MineOK == IsFiniteSet(Mine) /\ Cardinality(Mine) <= Batches

\* Whatever Move moves, it uses up an event.
LEMMA MovesAreEvents ==
  ASSUME ValuesOK, Event
  PROVE  /\ events' \in 0..MaxEvents /\ events' = events - 1
         /\ 1..(MaxEvents + 1 - events) \subseteq 1..(MaxEvents + 1 - events')
         /\ \A n \in 1..(MaxEvents + 1 - events) : n + 1 \in 1..(MaxEvents + 1 - events')
BY CheckWorkerAssumption DEF ValuesOK, Event

\* Fewer events left leave room for what the versions' numbers are.
LEMMA ValuesStay ==
  ASSUME ValuesOK, UNCHANGED <<change, asked, others>>, UNCHANGED events \/ Event,
         own' \in [Tree -> SUBSET Check], stored' \in [Tree -> SUBSET Check],
         storing' \subseteq Ref
  PROVE  ValuesOK'
<1>1. CASE UNCHANGED events  BY <1>1 DEF ValuesOK
<1>2. CASE Event
  <2>1. change' \in [Change -> [n : 1..(MaxEvents + 1 - events'), tree : Tree, ready : BOOLEAN]]
    BY <1>2, MovesAreEvents DEF ValuesOK
  <2> QED  BY <1>2, <2>1, MovesAreEvents DEF ValuesOK
<1> QED  BY <1>1, <1>2

\* Every step keeps the values.
LEMMA ValuesOKStep ==
  ASSUME ValuesOK, RunTypes, JobsOK, PassOK, [Next]_vars
  PROVE  ValuesOK'
<1> USE DEF origin, disk
<1>0. /\ own \in [Tree -> SUBSET Check] /\ stored \in [Tree -> SUBSET Check]
      /\ storing \subseteq Ref
  BY DEF ValuesOK
<1>1. CASE UNCHANGED vars  BY <1>0, <1>1, ValuesStay DEF vars
<1>2. CASE Policy
  BY <1>2, MovesAreEvents DEF Policy, Move, ValuesOK
<1>3. ASSUME NEW c \in Change, Toggle(c)  PROVE ValuesOK'
  <2>1. change' \in [Change -> [n : 1..(MaxEvents + 1 - events'), tree : Tree, ready : BOOLEAN]]
    BY <1>3, MovesAreEvents DEF Toggle, Move, ValuesOK
  <2> QED  BY <1>3, <2>1, MovesAreEvents DEF Toggle, Move, ValuesOK
<1>4. ASSUME NEW c \in Change, NEW t \in Tree, Amend(c, t)  PROVE ValuesOK'
  <2>1. change' \in [Change -> [n : 1..(MaxEvents + 1 - events'), tree : Tree, ready : BOOLEAN]]
    BY <1>4, MovesAreEvents DEF Amend, Move, ValuesOK
  <2> QED  BY <1>4, <2>1, MovesAreEvents DEF Amend, Move, ValuesOK
<1>5. ASSUME NEW t \in Tree, NEW k \in Check, Attested(t, k)  PROVE ValuesOK'
  <2>1. change' \in [Change -> [n : 1..(MaxEvents + 1 - events'), tree : Tree, ready : BOOLEAN]]
    BY <1>5, MovesAreEvents DEF Attested, Move, ValuesOK
  <2>2. others' \in [Tree -> SUBSET Check]  BY <1>5 DEF Attested, ValuesOK
  <2> QED  BY <1>5, <2>1, <2>2, MovesAreEvents DEF Attested, Move, ValuesOK
<1>6. ASSUME NEW p \in Pid, NEW dies \in BOOLEAN, Stores(p, dies)  PROVE ValuesOK'
  <2>1. stored' \in [Tree -> SUBSET Check]
    BY <1>6, <1>0 DEF Stores, RunTypes, Run
  <2> QED  BY <1>0, <1>6, <2>1, ValuesStay DEF Stores, Costs
<1>7. ASSUME NEW fails \in BOOLEAN, NEW taken \in BOOLEAN, Pushes(fails, taken)  PROVE ValuesOK'
  <2>1. pass.tree \in Tree /\ pass.object \in SUBSET Check  BY <1>7 DEF Pushes, JobsOK
  <2>2. own' \in [Tree -> SUBSET Check]
    BY <1>7, <1>0, <2>1 DEF Pushes
  <2> QED  BY <1>0, <1>7, <2>2, ValuesStay DEF Pushes, Saved
<1>8. ASSUME UNCHANGED <<change, asked, others, own, stored, storing>>, UNCHANGED events \/ Event
      PROVE  ValuesOK'
  BY <1>0, <1>8, ValuesStay
<1>9. CASE Mark \/ \E k \in record \cup pass.failed : Expire(k)
  BY <1>8, <1>9 DEF Mark, Expire
<1>10. ASSUME NEW p \in Pid,
              \/ Reserves(p) \/ Admits(p) \/ Evaluated(p) \/ NotReserved(p)
              \/ CheckFails(p) \/ Dies(p) \/ Drops(p)
       PROVE  ValuesOK'
  BY <1>8, <1>10 DEF Reserves, Admits, Evaluated, NotReserved, CheckFails, Dies, Drops, Goes, Costs
<1>17. ASSUME NEW p \in Pid, DiesStoring(p)  PROVE ValuesOK'
  <2>1. runs[p].tree \in Tree /\ runs[p].checks \in (SUBSET Check) \ {{}}
    BY <1>17 DEF DiesStoring, RunTypes, Run
  <2>2. storing' \subseteq Ref  BY <1>0, <1>17, <2>1 DEF DiesStoring, Ref
  <2> QED  BY <1>0, <1>17, <2>2, ValuesStay DEF DiesStoring, Costs
<1>18. ASSUME NEW g \in storing, GitStores(g)  PROVE ValuesOK'
  <2>1. stored' \in [Tree -> SUBSET Check] /\ storing' \subseteq Ref
    BY <1>0, <1>18 DEF GitStores, Ref
  <2> QED  BY <1>0, <1>18, <2>1, ValuesStay DEF GitStores
<1>11. CASE Beside
  BY <1>2, <1>3, <1>4, <1>5, <1>6, <1>9, <1>10, <1>11, <1>17, <1>18 DEF Beside
<1>12. CASE \/ Begins \/ View \/ EndScan \/ Admitted \/ Reaped \/ ReadFails \/ PushWaits \/ Tick \/ Kill
  BY <1>8, <1>12 DEF Begins, Start, View, EndScan, Admitted, Reaped, ReadFails, PushWaits, Tick, Kill, Costs
<1>13. ASSUME NEW claims \in BOOLEAN, Claim(claims)  PROVE ValuesOK'
  BY <1>8, <1>13 DEF Claim, Costs
<1>14. ASSUME NEW c, ReadChange(c) \/ NotDerived(c)  PROVE ValuesOK'
  BY <1>8, <1>14 DEF ReadChange, NotDerived
<1>15. ASSUME NEW j, AdmitJob(j)  PROVE ValuesOK'
  BY <1>8, <1>15 DEF AdmitJob
<1>16. ASSUME NEW saves, End(saves) \/ \E p \in Pid : Complete(p, saves)  PROVE ValuesOK'
  <2>1. UNCHANGED origin /\ (UNCHANGED events \/ Event)  BY <1>16 DEF End, Complete, Costs
  <2>2. UNCHANGED <<stored, storing>>  BY <1>16 DEF End, Complete, Saved
  <2> QED  BY <1>8, <2>1, <2>2
<1> QED
  BY <1>1, <1>7, <1>11, <1>12, <1>13, <1>14, <1>15, <1>16, StepsAre DEF OfPass

\* The fields of the pass a step has to leave alone, for what it is about to
\* be as it was.
LEMMA JobsStay ==
  ASSUME JobsOK, pass'.asked = pass.asked, pass'.view = pass.view,
         pass'.todo \subseteq pass.todo,
         pass'.found \cup pass'.queue \cup pass'.turn
            \subseteq pass.found \cup pass.queue \cup pass.turn,
         At("publish")' => pass'.tree \in Tree /\ pass'.object \in SUBSET Check
  PROVE  JobsOK'
BY DEF JobsOK

\* Every step keeps what the pass is to build and publish.
LEMMA JobsOKStep ==
  ASSUME ValuesOK, RunTypes, JobsOK, PassOK, [Next]_vars
  PROVE  JobsOK'
<1> USE DEF NoPass, At, PassOK
<1>1. CASE UNCHANGED pass  BY <1>1, JobsStay DEF JobsOK
<1>2. CASE UNCHANGED vars \/ Beside  BY <1>1, <1>2, BesideThePass DEF vars
<1>3. ASSUME \/ \E locks : pass' = [NoPass EXCEPT !.pc = "scan", !.failed = record,
                                      !.claims = locks, !.locked = locks]
             \/ pass' = NoPass
      PROVE  JobsOK'
  <2>1. /\ pass'.asked = {} /\ pass'.todo = {} /\ pass'.view = <<>>
        /\ pass'.found = {} /\ pass'.queue = {} /\ pass'.turn = {} /\ pass'.pc # "publish"
    <3>1. CASE \E locks : pass' = [NoPass EXCEPT !.pc = "scan", !.failed = record,
                                      !.claims = locks, !.locked = locks]
      BY <3>1
    <3>2. CASE pass' = NoPass  BY <3>2
    <3> QED  BY <1>3, <3>1, <3>2
  <2>2. DOMAIN pass'.view = {}  BY <2>1
  <2> QED  BY <2>1, <2>2 DEF JobsOK
<1>4. CASE Begins \/ Kill \/ \E saves \in BOOLEAN : End(saves)
  BY <1>3, <1>4 DEF Begins, Start, Kill, End
<1>5. CASE View
  <2> DEFINE ready == {c \in Change : change[c].ready}
  <2>1. /\ pass'.asked = asked /\ pass'.todo = ready
        /\ pass'.view = [c \in ready |-> change[c]]
        /\ pass'.found = pass.found /\ pass'.queue = pass.queue /\ pass'.turn = pass.turn
        /\ pass'.pc = "read"
    BY <1>5 DEF View
  <2>2. \A c \in ready : c \in Change /\ change[c].tree \in Tree /\ change[c].n \in Nat
    BY CheckWorkerAssumption DEF ValuesOK
  <2> HIDE DEF ready
  <2> QED  BY <2>1, <2>2 DEF JobsOK, ValuesOK
<1>6. CASE EndScan
  <2>1. PICK Q \in SUBSET pass.found :
           pass' = [NoPass EXCEPT !.pc = "admit", !.then = "settle", !.queue = Q, !.turn = Q,
                          !.failed = IF pass.whole THEN Pruned ELSE pass.failed,
                          !.claims = pass.claims, !.locked = pass.locked,
                          !.trouble = pass.trouble]
    BY <1>6 DEF EndScan
  <2>2. /\ pass'.asked = {} /\ pass'.todo = {} /\ pass'.view = <<>>
        /\ pass'.found = {} /\ pass'.queue = Q /\ pass'.turn = Q /\ pass'.pc = "admit"
    BY <2>1
  <2>3. DOMAIN pass'.view = {}  BY <2>2
  <2> QED  BY <2>2, <2>3 DEF JobsOK
<1>7. CASE ReadFails
  <2>1. /\ pass'.asked = {} /\ pass'.todo = {} /\ pass'.view = <<>>
        /\ pass'.found = {} /\ pass'.queue = {} /\ pass'.turn = {} /\ pass'.pc = "admit"
    BY <1>7 DEF ReadFails
  <2>2. DOMAIN pass'.view = {}  BY <2>1
  <2> QED  BY <2>1, <2>2 DEF JobsOK
<1>8. CASE Admitted
  <2>1. /\ pass'.asked = pass.asked /\ pass'.todo = pass.todo /\ pass'.view = pass.view
        /\ pass'.found = pass.found /\ pass'.queue = pass.queue /\ pass'.turn = {}
        /\ pass'.pc # "publish"
    BY <1>8 DEF Admitted, Settled
  <2> QED  BY <2>1, JobsStay
<1>9. CASE Reaped
  <2>1. /\ pass'.asked = pass.asked /\ pass'.todo = pass.todo /\ pass'.view = pass.view
        /\ pass'.found = pass.found /\ pass'.queue = pass.queue /\ pass'.turn = pass.queue
        /\ pass'.pc # "publish"
    BY <1>9 DEF Reaped
  <2> QED  BY <2>1, JobsStay
<1>10. CASE Tick \/ \E claims \in BOOLEAN : Claim(claims)
  <2>1. /\ pass'.asked = pass.asked /\ pass'.todo = pass.todo /\ pass'.view = pass.view
        /\ pass'.found = pass.found /\ pass'.queue = pass.queue /\ pass'.turn = pass.turn
        /\ pass'.pc # "publish"
    BY <1>10 DEF Tick, Claim
  <2> QED  BY <2>1, JobsStay
<1>11. CASE PushWaits \/ \E fails, taken \in BOOLEAN : Pushes(fails, taken)
  <2>1. /\ pass'.asked = pass.asked /\ pass'.todo = pass.todo /\ pass'.view = pass.view
        /\ pass'.found = pass.found /\ pass'.queue = pass.queue /\ pass'.turn = pass.turn
        /\ pass'.pc # "publish"
    BY <1>11, PushMoves DEF PushWaits
  <2> QED  BY <2>1, JobsStay
<1>12. ASSUME NEW c, NotDerived(c)  PROVE JobsOK'
  <2>1. /\ pass'.asked = pass.asked /\ pass'.todo \subseteq pass.todo /\ pass'.view = pass.view
        /\ pass'.found = pass.found /\ pass'.queue = pass.queue /\ pass'.turn = pass.turn
        /\ pass'.pc # "publish"
    BY <1>12 DEF NotDerived
  <2> QED  BY <2>1, JobsStay
<1>13. ASSUME NEW c, ReadChange(c)  PROVE JobsOK'
  <2> DEFINE v == pass.view[c]
             key == BuildKey(v.tree, Missing(v.tree, pass.asked))
             push == PushKey(v.tree, stored[v.tree])
             job == [c |-> c, n |-> v.n, tree |-> v.tree, asked |-> pass.asked]
             seen == [pass EXCEPT !.todo = @ \ {c}, !.wanted = @ \cup {v.tree}]
  <2>1. /\ c \in pass.todo /\ At("read")
        /\ \/ pass' = seen
           \/ pass' = [seen EXCEPT !.met = @ \cup {key}]
           \/ pass' = [seen EXCEPT !.met = @ \cup {key}, !.found = @ \cup {job}]
           \/ pass' = [seen EXCEPT !.met = @ \cup {push}, !.pc = "publish",
                          !.tree = v.tree, !.object = stored[v.tree], !.back = "read"]
    BY <1>13 DEF ReadChange
  <2>2. /\ c \in Change /\ v.tree \in Tree /\ v.n \in Nat /\ pass.asked \subseteq Check
    BY <2>1 DEF JobsOK
  <2>3. job \in Job  BY <2>2 DEF Job
  <2> HIDE DEF v, key, push, job
  <2>4. /\ DOMAIN seen = DOMAIN NoPass /\ seen.pc = "read"
        /\ seen.asked = pass.asked /\ seen.todo \subseteq pass.todo /\ seen.view = pass.view
        /\ seen.found = pass.found /\ seen.queue = pass.queue /\ seen.turn = pass.turn
    BY <2>1
  <2> HIDE DEF seen, PassOK
  <2>5. /\ pass'.asked = pass.asked /\ pass'.todo \subseteq pass.todo /\ pass'.view = pass.view
        /\ pass'.found \subseteq pass.found \cup {job}
        /\ pass'.queue = pass.queue /\ pass'.turn = pass.turn
        /\ pass'.pc = "publish" => pass'.tree = v.tree /\ pass'.object = stored[v.tree]
    <3>1. CASE pass' = seen  BY <2>4, <3>1
    <3>2. CASE pass' = [seen EXCEPT !.met = @ \cup {key}]  BY <2>4, <3>2
    <3>3. CASE pass' = [seen EXCEPT !.met = @ \cup {key}, !.found = @ \cup {job}]  BY <2>4, <3>3
    <3>4. CASE pass' = [seen EXCEPT !.met = @ \cup {push}, !.pc = "publish",
                          !.tree = v.tree, !.object = stored[v.tree], !.back = "read"]
      BY <2>4, <3>4
    <3> QED  BY <2>1, <3>1, <3>2, <3>3, <3>4
  <2>6. v.tree \in Tree => stored[v.tree] \in SUBSET Check  BY DEF ValuesOK
  <2> QED  BY <2>2, <2>3, <2>5, <2>6 DEF JobsOK
<1>14. ASSUME NEW j \in pass.turn, AdmitJob(j)  PROVE JobsOK'
  <2> DEFINE rest == [pass EXCEPT !.queue = @ \ {j}, !.turn = @ \ {j}]
  <2>1. /\ At("admit")
        /\ \/ pass' = [pass EXCEPT !.turn = @ \ {j}]
           \/ pass' = rest
           \/ pass' = [rest EXCEPT !.pc = "publish", !.tree = j.tree, !.object = stored[j.tree],
                          !.back = "admit"]
    BY <1>14 DEF AdmitJob
  <2>2. j.tree \in Tree /\ stored[j.tree] \in SUBSET Check  BY DEF JobsOK, Job, ValuesOK
  <2>3. /\ pass'.asked = pass.asked /\ pass'.todo = pass.todo /\ pass'.view = pass.view
        /\ pass'.found = pass.found /\ pass'.queue \subseteq pass.queue
        /\ pass'.turn \subseteq pass.turn
        /\ pass'.pc = "publish" => pass'.tree = j.tree /\ pass'.object = stored[j.tree]
    <3>1. CASE pass' = [pass EXCEPT !.turn = @ \ {j}]  BY <2>1, <3>1
    <3>2. CASE pass' = rest  BY <2>1, <3>2
    <3>3. CASE pass' = [rest EXCEPT !.pc = "publish", !.tree = j.tree, !.object = stored[j.tree],
                          !.back = "admit"]
      BY <3>3
    <3> QED  BY <2>1, <3>1, <3>2, <3>3
  <2> HIDE DEF PassOK, NoPass
  <2> QED  BY <2>2, <2>3, JobsStay
<1>15. ASSUME NEW saves \in BOOLEAN, NEW p \in Pid, Complete(p, saves)  PROVE JobsOK'
  <2> DEFINE r == runs[p]
             key == BuildKey(r.tree, r.checks)
             cancelled == r.stopped /\ r.phase = "failed"
             failed == IF cancelled THEN pass.failed
                       ELSE IF r.phase = "failed" THEN pass.failed \cup {key} ELSE pass.failed \ {key}
             next == IF At("read") THEN "read" ELSE IF At("reap") THEN pass.then
                     ELSE IF pass.stop THEN "settle" ELSE "scan"
             handled == [pass EXCEPT !.failed = failed, !.pc = "reap", !.then = next,
                            !.trouble = @ \/ ~saves]
  <2>1. /\ p \in Mine
        /\ \/ pass' = handled \/ pass' = [handled EXCEPT !.fresh = @ \cup {key}]
           \/ \E o \in {r.checks, stored[r.tree]} :
                 pass' = [handled EXCEPT !.pc = "publish", !.tree = r.tree, !.object = o,
                             !.back = "reap"]
    BY <1>15 DEF Complete
  <2>2. r.tree \in Tree /\ {r.checks, stored[r.tree]} \subseteq SUBSET Check
    BY <2>1 DEF Mine, RunTypes, Run, ValuesOK
  <2> HIDE DEF key, cancelled, failed, next, r
  <2>3. /\ DOMAIN handled = DOMAIN NoPass /\ handled.pc = "reap"
        /\ handled.asked = pass.asked /\ handled.todo = pass.todo /\ handled.view = pass.view
        /\ handled.found = pass.found /\ handled.queue = pass.queue /\ handled.turn = pass.turn
    OBVIOUS
  <2> HIDE DEF handled, PassOK
  <2>4. /\ pass'.asked = pass.asked /\ pass'.todo = pass.todo /\ pass'.view = pass.view
        /\ pass'.found = pass.found /\ pass'.queue = pass.queue /\ pass'.turn = pass.turn
        /\ pass'.pc = "publish" =>
              pass'.tree = r.tree /\ pass'.object \in {r.checks, stored[r.tree]}
    BY <2>1, <2>3
  <2> HIDE DEF NoPass
  <2> QED  BY <2>2, <2>4, JobsStay
<1> QED
  BY <1>2, <1>4, <1>5, <1>6, <1>7, <1>8, <1>9, <1>10, <1>11, <1>12, <1>13, <1>14, <1>15,
     StepsAre DEF OfPass

\* A step that leaves the files alone keeps it when no run changes its phase
\* from or to one of those it has a file in, and none is in one when it goes.
LEMMA RunTypesStay ==
  ASSUME RunTypes, UNCHANGED line,
         \A p \in Pid :
            /\ runs'[p] # None =>
                  /\ runs[p] # None /\ runs'[p] \in Run /\ runs'[p].checks = runs[p].checks
                  /\ \/ runs'[p].phase = runs[p].phase
                     \/ runs[p].phase # "eval" /\ runs'[p].phase \notin {"line", "eval"}
            /\ runs[p] # None /\ runs[p].phase = "eval" => runs'[p] # None
  PROVE  RunTypes'
BY DEF RunTypes, line

\* What one run's step has to give, when the others' files stay.
LEMMA RunTypesOfOne ==
  ASSUME RunTypes, NEW p \in Pid,
         \A q \in Pid \ {p} :
            /\ runs'[q] = runs[q]
            /\ q \in held \ orphaned => q \in held' \ orphaned'
            /\ q \in held /\ reserved[q] # None => reserved'[q] # None
            /\ q \in evaluating' \ orphaned' <=> q \in evaluating \ orphaned,
         runs'[p] \in {None} \cup Run,
         runs'[p] # None =>
            /\ runs'[p].checks # {}
            /\ runs'[p].phase \in {"line", "eval"} => p \in held' \ orphaned' /\ reserved'[p] # None,
         (runs'[p] # None /\ runs'[p].phase = "eval") = (p \in evaluating' \ orphaned')
  PROVE  RunTypes'
<1>1. ASSUME NEW q \in Pid, q # p
      PROVE  /\ runs'[q] \in {None} \cup Run
             /\ runs'[q] # None =>
                   /\ runs'[q].checks # {}
                   /\ runs'[q].phase \in {"line", "eval"} => q \in held' \ orphaned' /\ reserved'[q] # None
             /\ (runs'[q] # None /\ runs'[q].phase = "eval") = (q \in evaluating' \ orphaned')
  BY <1>1 DEF RunTypes
<1> QED  BY <1>1 DEF RunTypes

\* A run that goes on or ends is still about the same.
LEMMA PhaseGoes ==
  ASSUME RunsOK, RunTypes, NEW p \in Pid, runs[p] # None, NEW to,
         to \in {"new", "line", "eval", "build", "passed", "failed", "kept"},
         runs' = [runs EXCEPT ![p].phase = to]
  PROVE  /\ \A q \in Pid \ {p} : runs'[q] = runs[q]
         /\ runs'[p] \in Run /\ runs'[p] # None
         /\ runs'[p].checks = runs[p].checks /\ runs'[p].phase = to
<1>1. runs'[p] = [runs[p] EXCEPT !.phase = to]  BY DEF RunsOK
<1>2. runs[p] \in Run  BY DEF RunTypes
<1>3. runs'[p] \in Run  BY <1>1, <1>2 DEF Run
<1> QED  BY <1>1, <1>2, <1>3, CheckWorkerAssumption DEF RunsOK, Run

\* One that ends stays with its pass, or is gone with a pass that was killed.
LEMMA PhaseEnds ==
  ASSUME RunsOK, RunTypes, NEW p \in Pid, runs[p] # None, NEW phase \in {"passed", "failed"},
         Ends(p, phase)
  PROVE  /\ \A q \in Pid \ {p} : runs'[q] = runs[q]
         /\ runs'[p] \in {None} \cup Run
         /\ runs'[p] # None => runs'[p].checks = runs[p].checks /\ runs'[p].phase = phase
<1>1. runs[p] \in Run  BY DEF RunTypes
<1>2. /\ \A q \in Pid \ {p} : runs'[q] = runs[q]
      /\ runs'[p] = None \/ runs'[p] = [runs[p] EXCEPT !.phase = phase]
  BY DEF Ends, RunsOK
<1> QED  BY <1>1, <1>2 DEF Run

\* The steps of a run.
LEMMA RunTypesBeside ==
  ASSUME RunsOK, RunTypes, LineOK, Beside
  PROVE  RunTypes'
<1> USE DEF line
<1>1. CASE UNCHANGED <<runs, line>>  BY <1>1, RunTypesStay DEF RunTypes
<1>2. CASE \/ Policy \/ Mark
           \/ \E c \in Change : Toggle(c) \/ \E t \in Tree : Amend(c, t)
           \/ \E t \in Tree, k \in Check : Attested(t, k)
           \/ \E k \in record \cup pass.failed : Expire(k)
           \/ \E s \in storing : GitStores(s)
  BY <1>1, <1>2 DEF Policy, Mark, Toggle, Amend, Attested, Expire, GitStores, Move
<1>3. ASSUME NEW p \in Pid, Reserves(p)  PROVE RunTypes'
  <2>1. PICK e \in Estimate : Adm!Reserve(p, e)  BY <1>3 DEF Reserves
  <2>2. /\ runs[p] # None /\ runs[p].phase = "new" /\ runs' = [runs EXCEPT ![p].phase = "line"]
    BY <1>3 DEF Reserves, Goes
  <2>3. /\ p \notin held /\ held' = held \cup {p}
        /\ evaluating' = evaluating /\ orphaned' = orphaned
        /\ \E o : reserved' = [Adm!Swept EXCEPT ![p] = [order |-> o, estimate |-> e]]
    BY <2>1 DEF Adm!Reserve
  <2>4. p \in Adm!Live'  BY <2>1, ReserveKeeps
  <2>5. p \notin orphaned /\ p \notin evaluating  BY <2>3 DEF LineOK
  <2>6. ASSUME NEW q \in Pid \ {p}, q \in held, reserved[q] # None  PROVE reserved'[q] # None
    BY <2>3, <2>6 DEF Adm!Swept, Adm!Live
  <2>7. reserved'[p] # None  BY <2>4 DEF Adm!Live
  <2>8. /\ \A q \in Pid \ {p} : runs'[q] = runs[q]
        /\ runs'[p] \in Run /\ runs'[p] # None
        /\ runs'[p].checks = runs[p].checks /\ runs'[p].phase = "line"
    BY <2>2, PhaseGoes
  <2>9. runs[p].checks # {}  BY <2>2 DEF RunTypes
  <2> QED  BY <2>3, <2>5, <2>6, <2>7, <2>8, <2>9, RunTypesOfOne
<1>4. ASSUME NEW p \in Pid, Admits(p)  PROVE RunTypes'
  <2>1. /\ runs[p] # None /\ runs[p].phase = "line" /\ runs' = [runs EXCEPT ![p].phase = "eval"]
        /\ p \in Adm!Live \ evaluating /\ reserved' = Adm!Swept
        /\ evaluating' = evaluating \cup {p} /\ UNCHANGED <<held, orphaned>>
    BY <1>4 DEF Admits, Goes, Adm!Admit
  <2>2. \A q \in Pid : q \in held /\ reserved[q] # None => reserved'[q] # None
    BY <2>1 DEF Adm!Swept, Adm!Live
  <2>3. p \notin orphaned /\ p \in held /\ reserved[p] # None  BY <2>1 DEF LineOK, Adm!Live
  <2>4. /\ \A q \in Pid \ {p} : runs'[q] = runs[q]
        /\ runs'[p] \in Run /\ runs'[p] # None
        /\ runs'[p].checks = runs[p].checks /\ runs'[p].phase = "eval"
    BY <2>1, PhaseGoes
  <2>5. runs[p].checks # {}  BY <2>1 DEF RunTypes
  <2> QED  BY <2>1, <2>2, <2>3, <2>4, <2>5, RunTypesOfOne
<1>5. ASSUME NEW p \in Pid, Evaluated(p)  PROVE RunTypes'
  <2>1. /\ runs[p] # None /\ runs' = [runs EXCEPT ![p].phase = "build"]
        /\ reserved' = [reserved EXCEPT ![p] = None]
        /\ held' = held \ {p} /\ evaluating' = evaluating \ {p} /\ UNCHANGED orphaned
    BY <1>5 DEF Evaluated, Goes, Adm!Release
  <2>2. /\ \A q \in Pid \ {p} : runs'[q] = runs[q]
        /\ runs'[p] \in Run /\ runs'[p].checks = runs[p].checks /\ runs'[p].phase = "build"
    BY <2>1, PhaseGoes
  <2>3. runs[p].checks # {}  BY <2>1 DEF RunTypes
  <2>4. \A q \in Pid \ {p} : reserved'[q] = reserved[q]  BY <2>1 DEF LineOK
  <2> QED  BY <2>1, <2>2, <2>3, <2>4, RunTypesOfOne
\* A run ends: the file it had is gone, or its evaluation is left orphaned.
<1>6. ASSUME NEW p \in Pid, runs[p] # None, NEW phase \in {"passed", "failed"}, Ends(p, phase),
             \/ UNCHANGED line /\ runs[p].phase # "eval"
             \/ Adm!Release(p) \/ Adm!Die(p)
      PROVE  RunTypes'
  <2>1. /\ \A q \in Pid \ {p} : runs'[q] = runs[q]
        /\ runs'[p] \in {None} \cup Run
        /\ runs'[p] # None => runs'[p].checks # {} /\ runs'[p].phase \notin {"line", "eval"}
    BY <1>6, PhaseEnds DEF RunTypes
  <2>2. p \notin evaluating' \ orphaned'
    BY <1>6 DEF RunTypes, Adm!Release, Adm!Die
  <2>3. ASSUME NEW q \in Pid \ {p}
        PROVE  /\ q \in held \ orphaned => q \in held' \ orphaned'
               /\ q \in held /\ reserved[q] # None => reserved'[q] # None
               /\ q \in evaluating' \ orphaned' <=> q \in evaluating \ orphaned
    BY <1>6, <2>3 DEF Adm!Release, Adm!Die, LineOK
  <2> QED  BY <2>1, <2>2, <2>3, RunTypesOfOne
<1>7. ASSUME NEW p \in Pid, NEW dies \in BOOLEAN, Stores(p, dies)  PROVE RunTypes'
  BY <1>6, <1>7 DEF Stores
<1>8. ASSUME NEW p \in Pid, NotReserved(p)  PROVE RunTypes'
  BY <1>6, <1>8 DEF NotReserved
<1>9. ASSUME NEW p \in Pid, CheckFails(p)  PROVE RunTypes'
  BY <1>6, <1>9 DEF CheckFails
<1>10. ASSUME NEW p \in Pid, Dies(p)  PROVE RunTypes'
  BY <1>6, <1>10 DEF Dies
<1>11. ASSUME NEW p \in Pid, Drops(p)  PROVE RunTypes'
  <2>1. /\ p \in orphaned /\ held' = held \ {p} /\ evaluating' = evaluating \ {p}
        /\ orphaned' = orphaned \ {p} /\ UNCHANGED <<reserved, runs>>
    BY <1>11 DEF Drops, Adm!Drop
  <2> QED  BY <2>1 DEF RunTypes
<1>12. ASSUME NEW p \in Pid, DiesStoring(p)  PROVE RunTypes'
  BY <1>6, <1>12 DEF DiesStoring
<1> QED
  BY <1>2, <1>3, <1>4, <1>5, <1>7, <1>8, <1>9, <1>10, <1>11, <1>12 DEF Beside

\* A run told to stop, or left behind by its pass, is a run still.
LEMMA RunEdits ==
  ASSUME NEW r \in Run
  PROVE  /\ LET s == [r EXCEPT !.stopped = TRUE]
            IN  s \in Run /\ s # None /\ s.checks = r.checks /\ s.phase = r.phase
         /\ LET s == [r EXCEPT !.mine = FALSE]
            IN  s \in Run /\ s # None /\ s.checks = r.checks /\ s.phase = r.phase
<1>1. [r EXCEPT !.stopped = TRUE] \in Run /\ [r EXCEPT !.mine = FALSE] \in Run
  BY DEF Run
<1> QED  BY <1>1, CheckWorkerAssumption DEF Run

\* The steps of the pass: a new run has no file yet, and the runs that go have none.
LEMMA RunTypesStep ==
  ASSUME ValuesOK, JobsOK, PassOK, RunsOK, RunTypes, LineOK, [Next]_vars
  PROVE  RunTypes'
<1> USE DEF line
<1>1. CASE UNCHANGED <<runs, line>>  BY <1>1, RunTypesStay DEF RunTypes
<1>2. CASE UNCHANGED vars  BY <1>1, <1>2 DEF vars
<1>3. CASE Beside  BY <1>3, RunTypesBeside
<1>4. CASE Begins \/ View \/ Admitted \/ Reaped \/ ReadFails \/ Tick
  BY <1>1, <1>4 DEF Begins, Start, View, Admitted, Reaped, ReadFails, Tick
<1>5. ASSUME NEW claims \in BOOLEAN, Claim(claims)  PROVE RunTypes'
  BY <1>1, <1>5 DEF Claim
<1>6. ASSUME NEW c, ReadChange(c) \/ NotDerived(c)  PROVE RunTypes'
  BY <1>1, <1>6 DEF ReadChange, NotDerived
<1>7. ASSUME NEW saves, End(saves)  PROVE RunTypes'
  BY <1>1, <1>7 DEF End
<1>8. \A p \in Pid : runs[p] # None => runs[p] \in Run
  BY DEF RunTypes
<1>9. CASE EndScan
  <2>1. /\ runs' = [p \in Pid |-> IF pass.whole /\ p \in Superseded
                                  THEN [runs[p] EXCEPT !.stopped = TRUE] ELSE runs[p]]
        /\ UNCHANGED line
    BY <1>9 DEF EndScan
  <2>2. \A p \in Superseded : runs[p] # None  BY DEF Superseded, Mine
  <2>3. ASSUME NEW p \in Pid
        PROVE  /\ runs'[p] # None <=> runs[p] # None
               /\ runs[p] # None => /\ runs'[p] \in Run /\ runs'[p].checks = runs[p].checks
                                    /\ runs'[p].phase = runs[p].phase
    <3>1. CASE runs'[p] = runs[p]  BY <1>8, <3>1
    <3>2. CASE runs[p] # None /\ runs'[p] = [runs[p] EXCEPT !.stopped = TRUE]
      BY <1>8, <3>2, RunEdits
    <3> QED  BY <2>1, <2>2, <3>1, <3>2
  <2> QED  BY <2>1, <2>3, RunTypesStay
<1>10. CASE Kill
  <2>1. /\ runs' = [p \in Pid |-> IF p \notin Mine \/ runs[p].phase \in {"passed", "failed", "kept"}
                                  THEN None ELSE [runs[p] EXCEPT !.mine = FALSE]]
        /\ UNCHANGED line /\ ~At("idle")
    BY <1>10 DEF Kill
  <2>2. \A p \in Pid : runs[p] # None => p \in Mine  BY <2>1 DEF RunsOK, Mine
  <2>3. ASSUME NEW p \in Pid
        PROVE  /\ runs'[p] # None => /\ runs[p] # None
                                     /\ runs'[p] \in Run /\ runs'[p].checks = runs[p].checks
                                     /\ runs'[p].phase = runs[p].phase
               /\ runs[p] # None /\ runs[p].phase = "eval" => runs'[p] # None
    <3>1. CASE runs'[p] = None /\ (p \notin Mine \/ runs[p].phase \in {"passed", "failed", "kept"})
      BY <2>2, <3>1
    <3>2. CASE p \in Mine /\ runs'[p] = [runs[p] EXCEPT !.mine = FALSE]
      BY <1>8, <3>2, RunEdits DEF Mine
    <3> QED  BY <2>1, <3>1, <3>2
  <2> QED  BY <2>1, <2>3, RunTypesStay
<1>11. CASE runs' = Published /\ UNCHANGED line
  <2>1. ASSUME NEW p \in Pid
        PROVE  /\ runs'[p] = None \/ runs'[p] = runs[p]
               /\ runs[p] # None /\ runs[p].phase = "eval" => runs'[p] # None
    BY <1>11 DEF Published
  <2> QED  BY <1>8, <1>11, <2>1, RunTypesStay
<1>12. CASE PushWaits \/ \E fails, taken \in BOOLEAN : Pushes(fails, taken)
  BY <1>11, <1>12 DEF PushWaits, Pushes
<1>13. ASSUME NEW j \in pass.turn, AdmitJob(j)  PROVE RunTypes'
  <2>1. CASE UNCHANGED runs  BY <1>1, <1>13, <2>1 DEF AdmitJob
  <2>2. CASE runs' # runs
    <3>1. PICK p \in Spawned : runs' = [runs EXCEPT ![p] = RunOf(j)]
      BY <1>13, <2>2 DEF AdmitJob
    <3>2. p \in Pid /\ runs[p] = None  BY <3>1 DEF Spawned
    <3>3. Missing(j.tree, j.asked) # {}
      BY <1>13, <2>2 DEF AdmitJob, Assessed
    <3>4. j \in Job  BY DEF JobsOK
    <3>5. Missing(j.tree, j.asked) \in SUBSET Check  BY <3>4 DEF Missing, Job
    <3>6. RunOf(j) \in Run /\ RunOf(j).phase = "new" /\ RunOf(j).checks # {}
      BY <3>3, <3>4, <3>5 DEF RunOf, Run, Job, PassOK
    <3>7. runs'[p] = RunOf(j) /\ \A q \in Pid \ {p} : runs'[q] = runs[q]
      BY <3>1, <3>2 DEF RunsOK
    <3>8. p \notin evaluating \ orphaned  BY <3>2 DEF RunTypes
    <3>9. UNCHANGED line  BY <1>13 DEF AdmitJob
    <3> QED  BY <3>2, <3>6, <3>7, <3>8, <3>9, RunTypesOfOne
  <2> QED  BY <2>1, <2>2
<1>14. ASSUME NEW saves \in BOOLEAN, NEW p \in Pid, Complete(p, saves)  PROVE RunTypes'
  <2>1. /\ runs[p] # None /\ runs[p].phase \in {"passed", "failed"} /\ UNCHANGED line
        /\ runs' = [runs EXCEPT ![p] = None] \/ runs' = [runs EXCEPT ![p].phase = "kept"]
    BY <1>14 DEF Complete, Mine
  <2>2. p \notin evaluating \ orphaned  BY <2>1 DEF RunTypes
  <2>3. CASE runs' = [runs EXCEPT ![p] = None]
    <3>1. runs'[p] = None /\ \A q \in Pid \ {p} : runs'[q] = runs[q]
      BY <2>3 DEF RunsOK
    <3> QED  BY <2>1, <2>2, <3>1, RunTypesOfOne
  <2>4. CASE runs' = [runs EXCEPT ![p].phase = "kept"]
    <3>1. /\ \A q \in Pid \ {p} : runs'[q] = runs[q]
          /\ runs'[p] \in Run /\ runs'[p].checks = runs[p].checks /\ runs'[p].phase = "kept"
      BY <2>1, <2>4, PhaseGoes
    <3>2. runs[p].checks # {}  BY <2>1 DEF RunTypes
    <3> QED  BY <2>1, <2>2, <3>1, <3>2, RunTypesOfOne
  <2> QED  BY <2>1, <2>3, <2>4
<1> QED
  BY <1>2, <1>3, <1>4, <1>5, <1>6, <1>7, <1>9, <1>10, <1>12, <1>13, <1>14, StepsAre DEF OfPass

\* A run takes a slot that is free, and no other step adds one.
LEMMA MineOKStep ==
  ASSUME MineOK, PassOK, RunsOK, [Next]_vars
  PROVE  MineOK'
<1>1. CASE Mine' \subseteq Mine
  <2>1. IsFiniteSet(Mine') /\ Cardinality(Mine') <= Cardinality(Mine)
    BY <1>1, FS_Subset DEF MineOK
  <2>2. Cardinality(Mine') \in Nat /\ Cardinality(Mine) \in Nat
    BY <2>1, FS_CardinalityType DEF MineOK
  <2> QED  BY <2>1, <2>2, CheckWorkerAssumption DEF MineOK
<1>2. CASE Thinned  BY <1>1, <1>2 DEF Thinned, Mine
<1>3. ASSUME NEW j, AdmitJob(j)  PROVE MineOK'
  <2>1. CASE UNCHANGED runs  BY <1>1, <2>1 DEF Mine
  <2>2. CASE runs' # runs
    <3>1. PICK p \in Spawned : runs' = [runs EXCEPT ![p] = RunOf(j)]
      BY <1>3, <2>2 DEF AdmitJob
    <3>2. p \in Pid  BY <3>1 DEF Spawned
    <3>3. \A q \in Pid \ {p} : runs'[q] = runs[q]  BY <3>1, <3>2 DEF RunsOK
    <3>4. Mine' \subseteq Mine \cup {p}  BY <3>3 DEF Mine
    <3>5. Cardinality(Mine) \in Nat /\ ~(Cardinality(Mine) >= Batches)
      BY <1>3, FS_CardinalityType DEF AdmitJob, Full, MineOK
    <3>6. /\ IsFiniteSet(Mine \cup {p}) /\ Cardinality(Mine \cup {p}) \in Nat
          /\ Cardinality(Mine \cup {p}) <= Batches
      <4>1. /\ IsFiniteSet(Mine \cup {p})
            /\ \/ Cardinality(Mine \cup {p}) = Cardinality(Mine)
               \/ Cardinality(Mine \cup {p}) = Cardinality(Mine) + 1
        BY FS_AddElement DEF MineOK
      <4> QED  BY <4>1, <3>5, CheckWorkerAssumption
    <3>7. IsFiniteSet(Mine') /\ Cardinality(Mine') <= Cardinality(Mine \cup {p})
      BY <3>4, <3>6, FS_Subset
    <3>8. Cardinality(Mine') \in Nat  BY <3>7, FS_CardinalityType
    <3> QED  BY <3>6, <3>7, <3>8, CheckWorkerAssumption DEF MineOK
  <2> QED  BY <2>1, <2>2
<1> QED  BY <1>2, <1>3, StepThins

\* What the first pass finds.
LEMMA TypesInit ==
  ASSUME Init  PROVE ValuesOK /\ JobsOK /\ RunTypes /\ MineOK
<1>1. ValuesOK
  <2>8. storing = {}  BY DEF Init
  <2>1. asked \in SUBSET Check  BY CheckWorkerAssumption DEF Init
  <2>2. stored \in [Tree -> SUBSET Check]  BY <2>1 DEF Init
  <2>3. PICK f \in Heads : change = [c \in Change |-> [n |-> 1, tree |-> f[c], ready |-> TRUE]]
    BY DEF Init
  <2>4. events = MaxEvents /\ 1 \in 1..(MaxEvents + 1 - events)  BY CheckWorkerAssumption DEF Init
  <2>5. \A c \in Change : f[c] \in Tree  BY CheckWorkerAssumption
  <2>6. change \in [Change -> [n : 1..(MaxEvents + 1 - events), tree : Tree, ready : BOOLEAN]]
    BY <2>3, <2>4, <2>5
  <2>7. own \in [Tree -> SUBSET Check] /\ others \in [Tree -> SUBSET Check]  BY DEF Init
  <2> QED  BY <2>1, <2>2, <2>4, <2>6, <2>7, <2>8, CheckWorkerAssumption DEF ValuesOK
<1>2. JobsOK
  <2>1. /\ pass.asked = {} /\ pass.todo = {} /\ pass.view = <<>>
        /\ pass.found = {} /\ pass.queue = {} /\ pass.turn = {} /\ pass.pc = "idle"
    BY DEF Init, NoPass
  <2>2. DOMAIN pass.view = {}  BY <2>1
  <2> QED  BY <2>1, <2>2 DEF JobsOK, At
<1>3. runs = [p \in Pid |-> None] /\ evaluating = {}  BY DEF Init, Adm!Init
<1>4. RunTypes  BY <1>3 DEF RunTypes
<1>5. Mine = {}  BY <1>3 DEF Mine
<1>6. Cardinality(Mine) = 0 /\ IsFiniteSet(Mine)  BY <1>5, FS_EmptySet
<1>7. MineOK  BY <1>6, CheckWorkerAssumption DEF MineOK
<1> QED  BY <1>1, <1>2, <1>4, <1>7

\* The values of the state of the worker, for any number of events: a run is
\* about checks its tree lacks, it has a live file of its own while it is in
\* line and evaluates, and no more run at once than there are slots.
THEOREM WorkerTyped == Spec => []TypeOK
<1> DEFINE Inv == PassOK /\ RunsOK /\ LineOK
           Types == ValuesOK /\ JobsOK /\ RunTypes /\ MineOK
           Barred == barring \subseteq orphaned
<1>1. Init => Types  BY TypesInit
<1>2. Inv /\ Types /\ [Next]_vars => Types'
  BY ValuesOKStep, JobsOKStep, RunTypesStep, MineOKStep
<1>5. Init => Barred  BY DEF Init
<1>6. Barred /\ [Next]_vars => Barred'
  <2>1. Next => barring' \subseteq orphaned'  BY DEF Next, Bars
  <2>2. Barred /\ UNCHANGED vars => Barred'  BY DEF vars, line
  <2> QED  BY <2>1, <2>2
<1>3. Types /\ Barred => TypeOK
  <2> SUFFICES ASSUME Types, Barred  PROVE TypeOK
    OBVIOUS
  <2>1. \A c \in Change : change[c].n \in 1..(MaxEvents + 1) /\ change[c].tree \in Tree
    BY CheckWorkerAssumption DEF ValuesOK
  <2>2. \A p \in Pid : runs[p] # None =>
          /\ runs[p].tree \in Tree /\ runs[p].checks \in (SUBSET Check) \ {{}}
          /\ runs[p].phase \in {"line", "eval"} => p \in held /\ reserved[p] # None
          /\ (runs[p].phase = "eval") = (p \in evaluating \ orphaned)
    <3> SUFFICES ASSUME NEW p \in Pid, runs[p] # None
                 PROVE  /\ runs[p].tree \in Tree /\ runs[p].checks \in (SUBSET Check) \ {{}}
                        /\ runs[p].phase \in {"line", "eval"} => p \in held /\ reserved[p] # None
                        /\ (runs[p].phase = "eval") = (p \in evaluating \ orphaned)
      OBVIOUS
    <3>1. runs[p] \in Run  BY DEF RunTypes
    <3>2. runs[p].tree \in Tree /\ runs[p].checks \in SUBSET Check  BY <3>1 DEF Run
    <3>3. (runs[p].phase = "eval") = (p \in evaluating \ orphaned)  BY DEF RunTypes
    <3>4. /\ runs[p].checks # {}
          /\ runs[p].phase \in {"line", "eval"} => p \in held /\ reserved[p] # None
      BY DEF RunTypes
    <3> QED  BY <3>2, <3>3, <3>4
  <2> QED  BY <2>1, <2>2 DEF ValuesOK, MineOK, TypeOK
<1>4. Spec => []Inv
  BY RunsInvariance, LineInvariance, PTL
<1> QED  BY <1>1, <1>2, <1>3, <1>4, <1>5, <1>6, PTL DEF Spec

-----------------------------------------------------------------------------
(***************************************************************************)
(* Waits: a failure that is owed its wait stays in the record, or in the   *)
(* memory of the pass, under the key that assess will look for.            *)
(***************************************************************************)

Queued == pass.queue \cup pass.turn

\* The scan under way goes on, or none is: what it has read stays, and the
\* jobs that wait for a slot do not become more.
Continues ==
    /\ pass'.asked = pass.asked /\ pass'.view = pass.view /\ pass'.found = pass.found
    /\ pass'.queue \cup pass'.turn \subseteq Queued
    /\ pass'.met = pass.met /\ pass.fresh \subseteq pass'.fresh
    /\ pass'.whole => pass.whole /\ pass'.todo = pass.todo
    /\ InScan' <=> InScan

\* It is given up, with all the jobs.
Resets ==
    /\ pass'.asked = {} /\ pass'.found = {} /\ pass'.queue \cup pass'.turn = {}
    /\ ~InScan'

\* What the end of a run does to the memory of the pass and to the runs.
LEMMA CompleteMoves ==
  ASSUME PassOK, RunsOK, NEW saves \in BOOLEAN, NEW p \in Pid, Complete(p, saves)
  PROVE  LET r == runs[p]
             key == BuildKey(r.tree, r.checks)
         IN  /\ p \in Mine
             /\ pass'.asked = pass.asked /\ pass'.view = pass.view /\ pass'.found = pass.found
             /\ pass'.queue = pass.queue /\ pass'.turn = pass.turn /\ pass'.met = pass.met
             /\ pass'.whole = pass.whole /\ pass'.todo = pass.todo
             /\ \/ /\ r.phase = "failed" /\ r.stopped /\ pass'.pc = "reap"
                   /\ pass'.failed = pass.failed /\ pass'.fresh = pass.fresh
                   /\ over' = over /\ runs' = [runs EXCEPT ![p] = None]
                \/ /\ r.phase = "failed" /\ pass'.pc = "reap"
                   /\ pass'.failed = pass.failed \cup {key}
                   /\ pass'.fresh = pass.fresh \cup {key}
                   /\ over' = over \ {key} /\ runs' = [runs EXCEPT ![p] = None]
                \/ /\ r.phase = "passed" /\ pass'.pc = "publish" /\ pass'.tree = r.tree
                   /\ pass'.object \in {r.checks, stored[r.tree]}
                   /\ pass'.failed = pass.failed \ {key} /\ pass'.fresh = pass.fresh
                   /\ over' = over /\ runs' = [runs EXCEPT ![p].phase = "kept"]
                \/ /\ r.phase = "passed" /\ pass'.pc = "reap"
                   /\ pass'.failed = pass.failed \ {key} /\ pass'.fresh = pass.fresh
                   /\ over' = over /\ runs' = [runs EXCEPT ![p] = None]
<1> DEFINE r == runs[p]
           key == BuildKey(r.tree, r.checks)
           cancelled == r.stopped /\ r.phase = "failed"
           failed == IF cancelled THEN pass.failed
                     ELSE IF r.phase = "failed" THEN pass.failed \cup {key} ELSE pass.failed \ {key}
           next == IF At("read") THEN "read" ELSE IF At("reap") THEN pass.then
                   ELSE IF pass.stop THEN "settle" ELSE "scan"
           handled == [pass EXCEPT !.failed = failed, !.pc = "reap", !.then = next,
                          !.trouble = @ \/ ~saves]
<1>1. /\ p \in Mine
      /\ \/ /\ cancelled
            /\ runs' = [runs EXCEPT ![p] = None] /\ pass' = handled /\ over' = over
         \/ /\ r.phase = "failed" /\ ~cancelled
            /\ runs' = [runs EXCEPT ![p] = None] /\ over' = over \ {key}
            /\ pass' = [handled EXCEPT !.fresh = @ \cup {key}]
         \/ /\ r.phase = "passed" /\ over' = over
            /\ runs' = [runs EXCEPT ![p].phase = "kept"]
            /\ \E o \in {r.checks, stored[r.tree]} :
                  pass' = [handled EXCEPT !.pc = "publish", !.tree = r.tree, !.object = o,
                              !.back = "reap"]
         \/ /\ r.phase = "passed" /\ over' = over
            /\ runs' = [runs EXCEPT ![p] = None] /\ pass' = handled
  BY DEF Complete
<1>2. /\ DOMAIN handled = DOMAIN NoPass /\ handled.pc = "reap" /\ handled.failed = failed
      /\ handled.asked = pass.asked /\ handled.view = pass.view /\ handled.found = pass.found
      /\ handled.queue = pass.queue /\ handled.turn = pass.turn /\ handled.met = pass.met
      /\ handled.whole = pass.whole /\ handled.todo = pass.todo /\ handled.fresh = pass.fresh
  BY DEF PassOK, NoPass
<1> DEFINE Rest == /\ pass'.asked = pass.asked /\ pass'.view = pass.view /\ pass'.found = pass.found
                   /\ pass'.queue = pass.queue /\ pass'.turn = pass.turn /\ pass'.met = pass.met
                   /\ pass'.whole = pass.whole /\ pass'.todo = pass.todo
<1>3. CASE cancelled /\ runs' = [runs EXCEPT ![p] = None] /\ pass' = handled /\ over' = over
  <2>1. failed = pass.failed /\ r.phase = "failed" /\ r.stopped  BY <1>3
  <2>2. pass' = handled  BY <1>3
  <2> HIDE DEF handled, failed
  <2>3. /\ Rest /\ pass'.pc = "reap" /\ pass'.failed = pass.failed /\ pass'.fresh = pass.fresh
    BY <1>2, <2>1, <2>2
  <2> QED  BY <1>1, <1>3, <2>1, <2>3
<1>4. CASE /\ r.phase = "failed" /\ ~cancelled
           /\ runs' = [runs EXCEPT ![p] = None] /\ over' = over \ {key}
           /\ pass' = [handled EXCEPT !.fresh = @ \cup {key}]
  <2>1. failed = pass.failed \cup {key}  BY <1>4
  <2>2. /\ pass' = [handled EXCEPT !.fresh = @ \cup {key}] /\ over' = over \ {key}
        /\ runs' = [runs EXCEPT ![p] = None]
    BY <1>4
  <2> HIDE DEF handled, failed, key
  <2>3. /\ Rest /\ pass'.pc = "reap" /\ pass'.failed = pass.failed \cup {key}
        /\ pass'.fresh = pass.fresh \cup {key}
    BY <1>2, <2>1, <2>2 DEF NoPass
  <2> QED  BY <1>1, <1>4, <2>2, <2>3 DEF key
<1>5. ASSUME NEW o \in {r.checks, stored[r.tree]}, r.phase = "passed",
             runs' = [runs EXCEPT ![p].phase = "kept"], over' = over,
             pass' = [handled EXCEPT !.pc = "publish", !.tree = r.tree, !.object = o,
                         !.back = "reap"]
      PROVE  /\ Rest /\ pass'.pc = "publish" /\ pass'.tree = r.tree /\ pass'.object = o
             /\ pass'.failed = pass.failed \ {key} /\ pass'.fresh = pass.fresh
  <2>1. failed = pass.failed \ {key}  BY <1>5
  <2> DEFINE t == r.tree
  <2>2. pass' = [handled EXCEPT !.pc = "publish", !.tree = t, !.object = o, !.back = "reap"]
    BY <1>5
  <2> HIDE DEF handled, failed, key, t
  <2> QED  BY <1>2, <2>1, <2>2 DEF NoPass, t
<1>6. CASE /\ r.phase = "passed" /\ over' = over
           /\ runs' = [runs EXCEPT ![p] = None] /\ pass' = handled
  <2>1. failed = pass.failed \ {key}  BY <1>6
  <2>2. pass' = handled  BY <1>6
  <2> HIDE DEF handled, failed, key
  <2>3. /\ Rest /\ pass'.pc = "reap" /\ pass'.failed = pass.failed \ {key}
        /\ pass'.fresh = pass.fresh
    BY <1>2, <2>1, <2>2
  <2> QED  BY <1>1, <1>6, <2>3 DEF key
<1> HIDE DEF handled, failed, key, r
<1> QED  BY <1>1, <1>3, <1>4, <1>5, <1>6 DEF key, r

\* How a step changes what the scan reads and what waits for a slot.
LEMMA ScanMoves ==
  ASSUME PassOK, RunsOK, [Next]_vars
  PROVE  \/ Continues \/ Resets \/ View \/ EndScan
         \/ \E c : ReadChange(c)
<1> USE DEF At, InScan
<1>1. CASE UNCHANGED pass  BY <1>1 DEF Continues, Queued
<1>2. CASE UNCHANGED vars \/ Beside  BY <1>1, <1>2, BesideThePass DEF vars
<1>3. CASE Begins
  <2>1. PICK locks \in BOOLEAN :
           pass' = [NoPass EXCEPT !.pc = "scan", !.failed = record, !.claims = locks,
                       !.locked = locks]
    BY <1>3 DEF Begins, Start
  <2> QED  BY <2>1 DEF NoPass, Resets
<1>4. CASE Kill \/ \E saves \in BOOLEAN : End(saves)
  <2>1. pass' = NoPass  BY <1>4 DEF Kill, End
  <2> QED  BY <2>1 DEF NoPass, Resets
<1>5. CASE ReadFails
  <2>1. pass' = [NoPass EXCEPT !.pc = "admit", !.then = "settle", !.stop = TRUE,
                    !.claims = pass.claims, !.locked = pass.locked, !.failed = pass.failed,
                    !.trouble = pass.trouble]
    BY <1>5 DEF ReadFails
  <2> QED  BY <2>1 DEF NoPass, Resets
<1>6. CASE Admitted
  <2>1. /\ pass'.asked = pass.asked /\ pass'.view = pass.view /\ pass'.found = pass.found
        /\ pass'.queue = pass.queue /\ pass'.turn = {} /\ pass'.met = pass.met
        /\ pass'.fresh = pass.fresh /\ pass'.whole = pass.whole /\ pass'.todo = pass.todo
        /\ pass'.then = pass.then
        /\ pass'.pc = IF pass.then = "settle" THEN Settled ELSE pass.then
    BY <1>6 DEF Admitted, PassOK, NoPass
  <2>2. Settled \in {"wait", "scan", "end"}  BY DEF Settled
  <2>3. InScan' <=> InScan
    BY <1>6, <2>1, <2>2 DEF Admitted, PassOK
  <2> QED  BY <2>1, <2>3 DEF Continues, Queued
<1>7. CASE Reaped
  <2>1. /\ pass'.asked = pass.asked /\ pass'.view = pass.view /\ pass'.found = pass.found
        /\ pass'.queue = pass.queue /\ pass'.turn = pass.queue /\ pass'.met = pass.met
        /\ pass'.fresh = pass.fresh /\ pass'.whole = pass.whole /\ pass'.todo = pass.todo
        /\ pass'.then = pass.then /\ pass'.pc = "admit" /\ At("reap")
    BY <1>7 DEF Reaped, PassOK, NoPass
  <2> QED  BY <2>1 DEF Continues, Queued
<1>8. CASE Tick \/ \E claims \in BOOLEAN : Claim(claims)
  <2>1. /\ pass'.asked = pass.asked /\ pass'.view = pass.view /\ pass'.found = pass.found
        /\ pass'.queue = pass.queue /\ pass'.turn = pass.turn /\ pass'.met = pass.met
        /\ pass'.fresh = pass.fresh /\ pass'.whole = pass.whole /\ pass'.todo = pass.todo
        /\ pass'.pc \in {"scan", "view"} /\ pass.pc \in {"wait", "scan"}
    BY <1>8 DEF Tick, Claim, PassOK, NoPass
  <2> QED  BY <2>1 DEF Continues, Queued
<1>9. CASE PushWaits \/ \E fails, taken \in BOOLEAN : Pushes(fails, taken)
  <2> DEFINE Rest == /\ pass'.asked = pass.asked /\ pass'.view = pass.view
                     /\ pass'.found = pass.found
                     /\ pass'.queue = pass.queue /\ pass'.turn = pass.turn
                     /\ pass'.met = pass.met /\ pass.fresh \subseteq pass'.fresh
                     /\ pass'.whole = pass.whole /\ pass'.todo = pass.todo
                     /\ pass'.pc = pass.back /\ pass'.then = pass.then /\ At("publish")
  <2>1. ASSUME PushWaits  PROVE Rest
    BY <2>1 DEF PushWaits, PassOK, NoPass
  <2>2. ASSUME NEW fails \in BOOLEAN, NEW taken \in BOOLEAN, Pushes(fails, taken)  PROVE Rest
    BY <2>2, PushMoves
  <2>3. Rest  BY <1>9, <2>1, <2>2
  <2>4. InScan' <=> InScan  BY <2>3 DEF PassOK
  <2> QED  BY <2>3, <2>4 DEF Continues, Queued
<1>10. ASSUME NEW c, NotDerived(c)  PROVE Continues
  <2>1. /\ pass'.asked = pass.asked /\ pass'.view = pass.view /\ pass'.found = pass.found
        /\ pass'.queue = pass.queue /\ pass'.turn = pass.turn /\ pass'.met = pass.met
        /\ pass'.fresh = pass.fresh /\ pass'.whole = FALSE
        /\ pass'.pc = "read" /\ At("read")
    BY <1>10 DEF NotDerived, PassOK, NoPass
  <2> QED  BY <2>1 DEF Continues, Queued
<1>11. ASSUME NEW j \in pass.turn, AdmitJob(j)  PROVE Continues
  <2> DEFINE rest == [pass EXCEPT !.queue = @ \ {j}, !.turn = @ \ {j}]
  <2>1. /\ At("admit")
        /\ \/ pass' = [pass EXCEPT !.turn = @ \ {j}]
           \/ pass' = rest
           \/ pass' = [rest EXCEPT !.pc = "publish", !.tree = j.tree, !.object = stored[j.tree],
                          !.back = "admit"]
    BY <1>11 DEF AdmitJob
  <2> DEFINE t == j.tree
             o == stored[j.tree]
             Rest == /\ pass'.asked = pass.asked /\ pass'.view = pass.view
                     /\ pass'.found = pass.found
                     /\ pass'.queue \subseteq pass.queue /\ pass'.turn \subseteq pass.turn
                     /\ pass'.met = pass.met /\ pass'.fresh = pass.fresh
                     /\ pass'.whole = pass.whole /\ pass'.todo = pass.todo
                     /\ pass'.then = pass.then
                     /\ \/ pass'.pc = "admit"
                        \/ pass'.pc = "publish" /\ pass'.back = "admit"
  <2> HIDE DEF t, o
  <2>2. CASE pass' = [pass EXCEPT !.turn = @ \ {j}]
    <3>1. Rest  BY <2>1, <2>2 DEF PassOK, NoPass
    <3> QED  BY <2>1, <3>1 DEF Continues, Queued
  <2>3. CASE pass' = rest
    <3>1. Rest  BY <2>1, <2>3 DEF PassOK, NoPass
    <3> QED  BY <2>1, <3>1 DEF Continues, Queued
  <2>4. CASE pass' = [rest EXCEPT !.pc = "publish", !.tree = t, !.object = o, !.back = "admit"]
    <3>1. Rest  BY <2>1, <2>4 DEF PassOK, NoPass
    <3> QED  BY <2>1, <3>1 DEF Continues, Queued
  <2> QED  BY <2>1, <2>2, <2>3, <2>4 DEF t, o
<1>12. ASSUME NEW saves \in BOOLEAN, NEW p \in Pid, Complete(p, saves)  PROVE Continues
  <2>1. InScan' <=> InScan
    <3>1. At("read") \/ At("reap") \/ At("wait")  BY <1>12 DEF Complete
    <3> QED  BY <1>12, <3>1, CompletePass DEF PassOK
  <2>2. /\ pass'.asked = pass.asked /\ pass'.view = pass.view /\ pass'.found = pass.found
        /\ pass'.queue = pass.queue /\ pass'.turn = pass.turn /\ pass'.met = pass.met
        /\ pass'.whole = pass.whole /\ pass'.todo = pass.todo /\ pass.fresh \subseteq pass'.fresh
    BY <1>12, CompleteMoves
  <2> QED  BY <2>1, <2>2 DEF Continues, Queued
<1> QED
  BY <1>2, <1>3, <1>4, <1>5, <1>6, <1>7, <1>8, <1>9, <1>10, <1>11, <1>12, StepsAre DEF OfPass

\* Reading a change adds what it meets, and a job where it is to be built.
LEMMA ReadMoves ==
  ASSUME PassOK, NEW c, ReadChange(c)
  PROVE  LET t == pass.view[c].tree
             key == BuildKey(t, Missing(t, pass.asked))
         IN  /\ At("read") /\ c \in pass.todo /\ InScan'
             /\ pass'.asked = pass.asked /\ pass'.view = pass.view
             /\ pass'.queue = pass.queue /\ pass'.turn = pass.turn
             /\ pass'.fresh = pass.fresh /\ pass'.whole = pass.whole
             /\ pass'.todo = pass.todo \ {c} /\ pass'.failed = pass.failed
             /\ \A j \in pass'.found : j \in pass.found \/ j.asked = pass.asked
             /\ pass.met \subseteq pass'.met
             /\ \/ Assessed(t, pass.asked) \in {"covered", "running", "spent"}
                   /\ pass'.pc = "read"
                \/ /\ Assessed(t, pass.asked) = "publish" /\ PushKey(t, stored[t]) \in pass'.met
                   /\ pass'.pc = "publish" /\ pass'.tree = t /\ pass'.object = stored[t]
                \/ /\ Assessed(t, pass.asked) \in {"waits", "build"} /\ key \in pass'.met
                   /\ pass'.pc = "read"
<1> DEFINE v == pass.view[c]
           t == v.tree
           verdict == Assessed(t, pass.asked)
           key == BuildKey(t, Missing(t, pass.asked))
           o == stored[t]
           push == PushKey(t, o)
           job == [c |-> c, n |-> v.n, tree |-> v.tree, asked |-> pass.asked]
           seen == [pass EXCEPT !.todo = @ \ {c}, !.wanted = @ \cup {v.tree}]
           Rest == /\ InScan'
                   /\ pass'.asked = pass.asked /\ pass'.view = pass.view
                   /\ pass'.queue = pass.queue /\ pass'.turn = pass.turn
                   /\ pass'.fresh = pass.fresh /\ pass'.whole = pass.whole
                   /\ pass'.todo = pass.todo \ {c} /\ pass'.failed = pass.failed
                   /\ pass'.found \subseteq pass.found \cup {job}
                   /\ pass.met \subseteq pass'.met
<1>1. /\ At("read") /\ c \in pass.todo
      /\ \/ verdict \in {"covered", "running", "spent"} /\ pass' = seen
         \/ verdict = "publish" /\ pass' = [seen EXCEPT !.met = @ \cup {push}, !.pc = "publish",
                                              !.tree = t, !.object = o, !.back = "read"]
         \/ verdict = "waits" /\ pass' = [seen EXCEPT !.met = @ \cup {key}]
         \/ verdict = "build" /\ pass' = [seen EXCEPT !.met = @ \cup {key}, !.found = @ \cup {job}]
  BY DEF ReadChange
<1>2. job.asked = pass.asked  OBVIOUS
<1> HIDE DEF verdict, key, push, job
<1>3. /\ DOMAIN seen = DOMAIN NoPass /\ seen.pc = "read"
      /\ seen.asked = pass.asked /\ seen.view = pass.view
      /\ seen.queue = pass.queue /\ seen.turn = pass.turn
      /\ seen.fresh = pass.fresh /\ seen.whole = pass.whole
      /\ seen.todo = pass.todo \ {c} /\ seen.failed = pass.failed
      /\ seen.found = pass.found /\ seen.met = pass.met
  BY <1>1 DEF PassOK, NoPass, At
<1> HIDE DEF o, t, v, seen
<1>4. CASE verdict \in {"covered", "running", "spent"} /\ pass' = seen
  <2>1. Rest /\ pass'.pc = "read"  BY <1>3, <1>4 DEF InScan, At
  <2> QED  BY <1>1, <1>2, <1>4, <2>1 DEF verdict, t, v
<1>5. CASE verdict = "publish" /\ pass' = [seen EXCEPT !.met = @ \cup {push}, !.pc = "publish",
                                              !.tree = t, !.object = o, !.back = "read"]
  <2>1. Rest /\ pass'.pc = "publish" /\ pass'.tree = t /\ pass'.object = o /\ push \in pass'.met
    BY <1>3, <1>5 DEF InScan, At, NoPass
  <2> QED  BY <1>1, <1>2, <1>5, <2>1 DEF verdict, push, o, t, v
<1>6. CASE verdict = "waits" /\ pass' = [seen EXCEPT !.met = @ \cup {key}]
  <2>1. Rest /\ pass'.pc = "read" /\ key \in pass'.met
    BY <1>3, <1>6 DEF InScan, At, NoPass
  <2> QED  BY <1>1, <1>2, <1>6, <2>1 DEF verdict, key, t, v
<1>7. CASE verdict = "build" /\ pass' = [seen EXCEPT !.met = @ \cup {key}, !.found = @ \cup {job}]
  <2>1. Rest /\ pass'.pc = "read" /\ key \in pass'.met
    BY <1>3, <1>7 DEF InScan, At, NoPass
  <2> QED  BY <1>1, <1>2, <1>7, <2>1 DEF verdict, key, t, v
<1> QED  BY <1>1, <1>4, <1>5, <1>6, <1>7

\* The end of a scan leaves some of the jobs it found.
LEMMA EndScanMoves ==
  ASSUME EndScan
  PROVE  /\ At("read") /\ pass.todo = {} /\ ~InScan'
         /\ pass'.asked = {} /\ pass'.found = {}
         /\ pass'.queue \cup pass'.turn \subseteq pass.found
         /\ pass'.failed = IF pass.whole THEN Pruned ELSE pass.failed
         /\ pass'.pc = "admit" /\ over' = over
<1>1. PICK Q \in SUBSET pass.found :
           pass' = [NoPass EXCEPT !.pc = "admit", !.then = "settle", !.queue = Q, !.turn = Q,
                          !.failed = IF pass.whole THEN Pruned ELSE pass.failed,
                          !.claims = pass.claims, !.locked = pass.locked,
                          !.trouble = pass.trouble]
  BY DEF EndScan
<1> QED  BY <1>1 DEF EndScan, NoPass, InScan, At

\* What becomes of the failures the running pass knows.
LEMMA FailedMoves ==
  ASSUME PassOK, RunsOK, [Next]_vars, ~At("idle")
  PROVE  \/ pass'.failed = pass.failed /\ over \subseteq over' /\ ~At("idle")'
         \/ EndScan \/ Kill \/ \E saves \in BOOLEAN : End(saves)
         \/ \E saves \in BOOLEAN, p \in Pid : Complete(p, saves)
         \/ \E fails, taken \in BOOLEAN : Pushes(fails, taken)
<1> USE DEF At
<1> DEFINE Same == pass'.failed = pass.failed /\ over \subseteq over' /\ ~At("idle")'
<1>1. CASE UNCHANGED vars  BY <1>1 DEF vars
<1>2. CASE Beside
  <2>1. UNCHANGED pass  BY <1>2, BesideThePass
  <2>2. over \subseteq over'
    BY <1>2 DEF Beside, Policy, Mark, Toggle, Amend, Attested, Expire, Reserves, Admits, Evaluated,
       NotReserved, CheckFails, Dies, Drops, Stores, DiesStoring, GitStores, Goes, Move
  <2> QED  BY <2>1, <2>2
<1>3. CASE View \/ Admitted \/ Reaped \/ ReadFails \/ PushWaits \/ Tick
  <2>1. over' = over
    BY <1>3 DEF View, Admitted, Reaped, ReadFails, PushWaits, Tick
  <2>2. CASE View  BY <2>1, <2>2 DEF View, PassOK, NoPass
  <2>3. CASE Admitted
    <3>1. PassOK /\ pass' = [pass EXCEPT !.turn = {},
                                !.pc = IF pass.then = "settle" THEN Settled ELSE pass.then]
      BY <2>3 DEF Admitted
    <3>2. pass.then # "idle" /\ over' = over  BY <2>1, <2>3 DEF Admitted, PassOK
    <3> QED  BY <2>1, <3>1, <3>2 DEF PassOK, NoPass, Settled
  <2>4. CASE Reaped \/ Tick  BY <2>1, <2>4 DEF Reaped, Tick, PassOK, NoPass
  <2>5. CASE ReadFails  BY <2>1, <2>5 DEF ReadFails, NoPass
  <2>6. CASE PushWaits  BY <2>1, <2>6 DEF PushWaits, PassOK, NoPass
  <2> QED  BY <1>3, <2>2, <2>3, <2>4, <2>5, <2>6
<1>4. ASSUME NEW claims \in BOOLEAN, Claim(claims)  PROVE Same
  BY <1>4 DEF Claim, PassOK, NoPass
<1>5. ASSUME NEW c, ReadChange(c)  PROVE Same
  <2>1. over' = over  BY <1>5 DEF ReadChange
  <2> QED  BY <1>5, <2>1, ReadMoves
<1>6. ASSUME NEW c, NotDerived(c)  PROVE Same
  BY <1>6 DEF NotDerived, PassOK, NoPass
<1>7. ASSUME NEW j, AdmitJob(j)  PROVE Same
  <2> DEFINE rest == [pass EXCEPT !.queue = @ \ {j}, !.turn = @ \ {j}]
             t == j.tree
             o == stored[j.tree]
  <2>1. /\ At("admit") /\ over' = over
        /\ \/ pass' = [pass EXCEPT !.turn = @ \ {j}]
           \/ pass' = rest
           \/ pass' = [rest EXCEPT !.pc = "publish", !.tree = t, !.object = o, !.back = "admit"]
    BY <1>7 DEF AdmitJob
  <2> HIDE DEF t, o
  <2> QED  BY <2>1 DEF PassOK, NoPass
<1>8. ~Begins  BY DEF Begins, Start
<1> QED
  BY <1>1, <1>2, <1>3, <1>4, <1>5, <1>6, <1>7, <1>8, StepsAre DEF OfPass

\* A run that passed has stored its tree's ref, and while the pass publishes
\* a tree's, the only run about the tree is the one it will let go of.
StoredOK ==
    /\ \A p \in Pid : runs[p] # None /\ runs[p].phase \in {"passed", "kept"}
                         => stored[runs[p].tree] # {}
    /\ At("publish") =>
          /\ stored[pass.tree] # {} /\ pass.object # {}
          /\ \A p \in Pid : runs[p] # None /\ runs[p].tree = pass.tree
                               => p \in Mine /\ runs[p].phase = "kept"

\* What a policy asks, and what was once published or stored, stays so.
LEMMA OriginGrows ==
  ASSUME ValuesOK, RunTypes, JobsOK, StoredOK, PassOK, [Next]_vars
  PROVE  /\ asked \subseteq asked' /\ (asked # {} => asked' # {})
         /\ \A t \in Tree : /\ own[t] # {} => own'[t] # {}
                            /\ stored[t] # {} => stored'[t] # {}
<1> DEFINE Grows == /\ asked \subseteq asked' /\ (asked # {} => asked' # {})
                    /\ \A t \in Tree : /\ own[t] # {} => own'[t] # {}
                                       /\ stored[t] # {} => stored'[t] # {}
<1>1. CASE UNCHANGED <<asked, own, stored>>  BY <1>1
<1>2. CASE UNCHANGED vars  BY <1>1, <1>2 DEF vars, origin, disk
<1>3. CASE Policy
  <2>1. UNCHANGED <<own, stored>> /\ asked' = Check  BY <1>3 DEF Policy, Move, disk
  <2> QED  BY <2>1 DEF ValuesOK
<1>4. ASSUME NEW p \in Pid, NEW dies \in BOOLEAN, Stores(p, dies)  PROVE Grows
  <2>1. UNCHANGED <<asked, own>> /\ stored' = [stored EXCEPT ![runs[p].tree] = runs[p].checks]
    BY <1>4 DEF Stores, origin
  <2>2. runs[p].checks # {}  BY <1>4 DEF Stores, RunTypes
  <2> QED  BY <2>1, <2>2 DEF ValuesOK
<1>12. ASSUME NEW s \in storing, GitStores(s)  PROVE Grows
  <2>1. UNCHANGED <<asked, own>> /\ stored' = [stored EXCEPT ![s.tree] = s.checks]
    BY <1>12 DEF GitStores, origin
  <2>2. s.checks # {}  BY DEF ValuesOK, Ref
  <2> QED  BY <2>1, <2>2 DEF ValuesOK
<1>5. CASE Beside
  <2>1. CASE Mark \/ \E k \in record \cup pass.failed : Expire(k)
    BY <1>1, <2>1 DEF Mark, Expire, origin, disk
  <2>2. CASE \E c \in Change : Toggle(c) \/ \E t \in Tree : Amend(c, t)
    BY <1>1, <2>2 DEF Toggle, Amend, Move, disk
  <2>3. CASE \E t \in Tree, k \in Check : Attested(t, k)
    BY <1>1, <2>3 DEF Attested, Move, disk
  <2>4. ASSUME NEW p \in Pid, \/ Reserves(p) \/ Admits(p) \/ Evaluated(p) \/ NotReserved(p)
                              \/ CheckFails(p) \/ Dies(p) \/ DiesStoring(p) \/ Drops(p)
        PROVE Grows
    BY <1>1, <2>4 DEF Reserves, Admits, Evaluated, NotReserved, CheckFails, Dies, DiesStoring, Drops,
       Goes, origin, disk
  <2> QED  BY <1>3, <1>4, <1>5, <1>12, <2>1, <2>2, <2>3, <2>4 DEF Beside
<1>6. CASE Begins \/ View \/ EndScan \/ Admitted \/ Reaped \/ ReadFails \/ PushWaits \/ Tick \/ Kill
  BY <1>1, <1>6 DEF Begins, Start, View, EndScan, Admitted, Reaped, ReadFails, PushWaits, Tick, Kill,
     origin, disk
<1>7. ASSUME NEW claims, Claim(claims)  PROVE Grows
  BY <1>1, <1>7 DEF Claim, origin, disk
<1>8. ASSUME NEW c, ReadChange(c) \/ NotDerived(c)  PROVE Grows
  BY <1>1, <1>8 DEF ReadChange, NotDerived, origin, disk
<1>9. ASSUME NEW j, AdmitJob(j)  PROVE Grows
  BY <1>1, <1>9 DEF AdmitJob, origin, disk
<1>10. ASSUME NEW saves, End(saves) \/ \E p \in Pid : Complete(p, saves)  PROVE Grows
  <2>1. UNCHANGED origin  BY <1>10 DEF End, Complete
  <2>2. UNCHANGED stored  BY <1>10 DEF End, Complete, Saved, disk
  <2> QED  BY <1>1, <2>1, <2>2 DEF origin
<1>11. ASSUME NEW fails \in BOOLEAN, NEW taken \in BOOLEAN, Pushes(fails, taken)  PROVE Grows
  <2>1. /\ UNCHANGED <<asked, stored>> /\ At("publish")
        /\ own' = own \/ own' = [own EXCEPT ![pass.tree] = pass.object]
    BY <1>11 DEF Pushes, Saved, disk
  <2>2. pass.object # {}  BY <2>1 DEF StoredOK
  <2> QED  BY <2>1, <2>2 DEF ValuesOK
<1> QED
  BY <1>2, <1>5, <1>6, <1>7, <1>8, <1>9, <1>10, <1>11, StepsAre DEF OfPass

\* What a run's own steps make of it: one that has ended stays as it is, and
\* one that passes has stored what it built.
LEMMA BesideRuns ==
  ASSUME RunsOK, RunTypes, ValuesOK, Beside
  PROVE  \A p \in Pid : runs'[p] # None =>
            \/ runs'[p] = runs[p]
            \/ /\ runs[p].phase \notin {"passed", "kept"}
               /\ runs'[p].tree = runs[p].tree
               /\ runs'[p].phase # "kept"
               /\ runs'[p].phase = "passed" => stored'[runs[p].tree] # {}
<1> DEFINE Fine(p) == runs'[p] # None =>
              \/ runs'[p] = runs[p]
              \/ /\ runs[p].phase \notin {"passed", "kept"}
                 /\ runs'[p].tree = runs[p].tree
                 /\ runs'[p].phase # "kept"
                 /\ runs'[p].phase = "passed" => stored'[runs[p].tree] # {}
<1>1. CASE UNCHANGED runs  BY <1>1
<1>2. ASSUME NEW q \in Pid, NEW from, NEW to, Goes(q, from, to),
             from \notin {"passed", "kept"}, to \notin {"passed", "kept"}
      PROVE  \A p \in Pid : Fine(p)
  BY <1>2 DEF Goes, RunsOK, RunFields
<1>3. ASSUME NEW q \in Pid, NEW phase, runs[q] # None, Ends(q, phase),
             runs[q].phase \notin {"passed", "kept"}, phase # "kept",
             phase = "passed" => stored'[runs[q].tree] # {}
      PROVE  \A p \in Pid : Fine(p)
  BY <1>3 DEF Ends, RunsOK, RunFields
<1>4. ASSUME NEW q \in Pid, NEW dies \in BOOLEAN, Stores(q, dies)
      PROVE  \A p \in Pid : Fine(p)
  <2>1. /\ runs[q] # None /\ runs[q].phase = "build"
        /\ stored' = [stored EXCEPT ![runs[q].tree] = runs[q].checks]
        /\ Ends(q, IF dies THEN "failed" ELSE "passed")
    BY <1>4 DEF Stores
  <2>2. runs[q].checks # {} /\ runs[q].tree \in Tree  BY <2>1 DEF RunTypes, Run
  <2>3. stored'[runs[q].tree] # {}  BY <2>1, <2>2 DEF ValuesOK
  <2> QED  BY <1>3, <2>1, <2>3
<1>5. ASSUME NEW q \in Pid, \/ Reserves(q) \/ Admits(q) \/ Evaluated(q) \/ NotReserved(q)
                            \/ CheckFails(q) \/ Dies(q) \/ DiesStoring(q) \/ Drops(q)
      PROVE  \A p \in Pid : Fine(p)
  <2>1. CASE Reserves(q) \/ Admits(q) \/ Evaluated(q)
    BY <2>1, <1>2 DEF Reserves, Admits, Evaluated
  <2>2. CASE NotReserved(q) \/ CheckFails(q) \/ Dies(q) \/ DiesStoring(q)
    BY <2>2, <1>3 DEF NotReserved, CheckFails, Dies, DiesStoring
  <2>3. CASE Drops(q)  BY <2>3, <1>1 DEF Drops
  <2> QED  BY <1>5, <2>1, <2>2, <2>3
<1>6. CASE \/ Policy \/ Mark
           \/ \E c \in Change : Toggle(c) \/ \E t \in Tree : Amend(c, t)
           \/ \E t \in Tree, k \in Check : Attested(t, k)
           \/ \E k \in record \cup pass.failed : Expire(k)
           \/ \E s \in storing : GitStores(s)
  BY <1>6, <1>1 DEF Policy, Mark, Toggle, Amend, Attested, Expire, GitStores, Move
<1> QED  BY <1>4, <1>5, <1>6 DEF Beside

\* What the other steps of the pass make of the runs: they let go of some, and
\* start none.
LEMMA PassRuns ==
  ASSUME RunsOK, PassOK, OfPass,
         \A j : ~AdmitJob(j), \A saves \in BOOLEAN, p \in Pid : ~Complete(p, saves)
  PROVE  /\ UNCHANGED stored
         /\ \A p \in Pid : runs'[p] # None =>
               runs[p] # None /\ runs'[p].tree = runs[p].tree /\ runs'[p].phase = runs[p].phase
<1> DEFINE Goal == /\ UNCHANGED stored
                   /\ \A p \in Pid : runs'[p] # None =>
                         /\ runs[p] # None
                         /\ runs'[p].tree = runs[p].tree /\ runs'[p].phase = runs[p].phase
<1>1. CASE UNCHANGED <<runs, stored>>  BY <1>1
<1>2. CASE Begins \/ View \/ Admitted \/ Reaped \/ ReadFails \/ Tick
  BY <1>1, <1>2 DEF Begins, Start, View, Admitted, Reaped, ReadFails, Tick, disk
<1>3. CASE EndScan
  <2>1. /\ UNCHANGED stored
        /\ runs' = [p \in Pid |-> IF pass.whole /\ p \in Superseded
                                  THEN [runs[p] EXCEPT !.stopped = TRUE] ELSE runs[p]]
    BY <1>3 DEF EndScan, disk
  <2>2. \A p \in Superseded : runs[p] # None  BY DEF Superseded, Mine
  <2> QED  BY <2>1, <2>2 DEF RunsOK, RunFields
<1>4. ASSUME NEW claims \in BOOLEAN, Claim(claims)  PROVE Goal
  BY <1>1, <1>4 DEF Claim, disk
<1>5. ASSUME NEW c, ReadChange(c) \/ NotDerived(c)  PROVE Goal
  BY <1>1, <1>5 DEF ReadChange, NotDerived, disk
<1>6. CASE UNCHANGED stored /\ runs' = Published  BY <1>6 DEF Published
<1>7. CASE PushWaits \/ \E fails, taken \in BOOLEAN : Pushes(fails, taken)
  BY <1>6, <1>7 DEF PushWaits, Pushes, Saved, disk
<1>8. CASE Kill
  <2>1. /\ UNCHANGED stored
        /\ runs' = [p \in Pid |-> IF p \notin Mine \/ runs[p].phase \in {"passed", "failed", "kept"}
                                  THEN None ELSE [runs[p] EXCEPT !.mine = FALSE]]
    BY <1>8 DEF Kill, disk
  <2> QED  BY <2>1 DEF RunsOK, RunFields, Mine
<1>9. ASSUME NEW saves \in BOOLEAN, End(saves)  PROVE Goal
  BY <1>1, <1>9 DEF End, Saved
<1> QED  BY <1>2, <1>3, <1>4, <1>5, <1>7, <1>8, <1>9 DEF OfPass

\* What admit does of a job.
LEMMA AdmitMoves ==
  ASSUME PassOK, NEW j, AdmitJob(j)
  PROVE  /\ At("admit") /\ j \in pass.turn /\ UNCHANGED stored
         /\ \/ pass'.pc = "admit" /\ pass'.failed = pass.failed
            \/ /\ pass'.pc = "publish" /\ pass'.tree = j.tree
               /\ pass'.object = stored[j.tree]
               /\ Assessed(j.tree, j.asked) = "publish" /\ UNCHANGED runs
         /\ \/ UNCHANGED runs
            \/ /\ Assessed(j.tree, j.asked) = "build"
               /\ \E p \in Spawned : runs' = [runs EXCEPT ![p] = RunOf(j)]
<1> DEFINE t == j.tree
           o == stored[j.tree]
           verdict == Assessed(j.tree, j.asked)
           rest == [pass EXCEPT !.queue = @ \ {j}, !.turn = @ \ {j}]
<1>1. /\ At("admit") /\ j \in pass.turn /\ UNCHANGED stored
      /\ \/ pass' = [pass EXCEPT !.turn = @ \ {j}]
         \/ pass' = rest
         \/ /\ verdict = "publish" /\ t \notin Running
            /\ pass' = [rest EXCEPT !.pc = "publish", !.tree = t, !.object = o, !.back = "admit"]
      /\ \/ UNCHANGED runs
         \/ verdict = "build" /\ \E p \in Spawned : runs' = [runs EXCEPT ![p] = RunOf(j)]
      /\ verdict # "build" => UNCHANGED runs
  BY DEF AdmitJob, disk
<1> HIDE DEF verdict, t, o
<1>2. \/ pass'.pc = "admit" /\ pass'.failed = pass.failed
      \/ pass'.pc = "publish" /\ pass'.tree = t /\ pass'.object = o /\ verdict = "publish"
  BY <1>1 DEF PassOK, NoPass, At
<1> QED  BY <1>1, <1>2 DEF verdict, t, o

\* A pass publishes what it assessed, or what a run that passed stored.
LEMMA PublishMoves ==
  ASSUME PassOK, RunsOK, OfPass, At("publish")'
  PROVE  \/ \E c : ReadChange(c) \/ \E j : AdmitJob(j)
         \/ \E saves \in BOOLEAN, p \in Pid : Complete(p, saves)
<1> USE DEF PassOK, NoPass, At
<1>1. ~Begins /\ ~View /\ ~Admitted /\ ~Reaped /\ ~ReadFails /\ ~PushWaits /\ ~Tick /\ ~Kill
  <2>1. ~Begins /\ ~View /\ ~ReadFails /\ ~Tick /\ ~Kill
    <3>1. ~Begins  BY DEF Begins, Start
    <3>2. ~View  BY DEF View
    <3>3. ~ReadFails  BY DEF ReadFails
    <3>4. ~Tick /\ ~Kill  BY DEF Tick, Kill
    <3> QED  BY <3>1, <3>2, <3>3, <3>4
  <2>2. ~Admitted  BY DEF Admitted, Settled
  <2>3. ~Reaped /\ ~PushWaits  BY DEF Reaped, PushWaits
  <2> QED  BY <2>1, <2>2, <2>3
<1>2. ~EndScan  BY EndScanMoves
<1>3. ASSUME NEW claims \in BOOLEAN, Claim(claims)  PROVE FALSE  BY <1>3 DEF Claim
<1>4. ASSUME NEW c, NotDerived(c)  PROVE FALSE  BY <1>4 DEF NotDerived
<1>5. ASSUME NEW fails \in BOOLEAN, NEW taken \in BOOLEAN, Pushes(fails, taken)  PROVE FALSE
  <2> HIDE DEF NoPass
  <2> QED  BY <1>5, PushMoves
<1>6. ASSUME NEW saves \in BOOLEAN, End(saves)  PROVE FALSE  BY <1>6 DEF End
<1> QED  BY <1>1, <1>2, <1>3, <1>4, <1>5, <1>6 DEF OfPass

\* Every step keeps it.
LEMMA StoredOKStep ==
  ASSUME ValuesOK, RunTypes, JobsOK, RunsOK, PassOK, StoredOK, [Next]_vars
  PROVE  StoredOK'
<1> DEFINE Has == \A p \in Pid : runs'[p] # None /\ runs'[p].phase \in {"passed", "kept"}
                                    => stored'[runs'[p].tree] # {}
           Lone == At("publish")' =>
                      /\ stored'[pass'.tree] # {} /\ pass'.object # {}
                      /\ \A p \in Pid : runs'[p] # None /\ runs'[p].tree = pass'.tree
                                           => p \in Mine' /\ runs'[p].phase = "kept"
<1>1. SUFFICES Has /\ Lone  BY DEF StoredOK
<1>2. \A p \in Pid : runs[p] # None => runs[p].tree \in Tree  BY DEF RunTypes, Run
<1>3. CASE UNCHANGED vars
  BY <1>3 DEF vars, disk, StoredOK, At, Mine
<1>4. CASE Beside
  <2>1. UNCHANGED pass  BY <1>4, BesideThePass
  <2>2. \A t \in Tree : stored[t] # {} => stored'[t] # {}  BY OriginGrows
  <2>3. \A p \in Pid : runs'[p] # None =>
            \/ runs'[p] = runs[p]
            \/ /\ runs[p] # None /\ runs[p].phase \notin {"passed", "kept"}
               /\ runs'[p].tree = runs[p].tree
               /\ runs'[p].phase # "kept"
               /\ runs'[p].phase = "passed" => stored'[runs[p].tree] # {}
    BY <1>4, BesideRuns, RunsBeside DEF Thinned
  <2>4. Has  BY <1>2, <2>2, <2>3 DEF StoredOK
  <2>5. Lone
    <3> SUFFICES ASSUME At("publish")  PROVE Lone  BY <2>1 DEF At
    <3>1. stored'[pass'.tree] # {} /\ pass'.object # {}  BY <2>1, <2>2 DEF StoredOK, JobsOK
    <3>2. ASSUME NEW p \in Pid, runs'[p] # None, runs'[p].tree = pass'.tree
          PROVE  p \in Mine' /\ runs'[p].phase = "kept"
      BY <2>1, <2>3, <3>2 DEF StoredOK, Mine
    <3> QED  BY <3>1, <3>2
  <2> QED  BY <2>4, <2>5
<1>5. ASSUME NEW j, AdmitJob(j)  PROVE Has /\ Lone
  <2>1. Has
    <3>1. CASE UNCHANGED runs  BY <1>5, <3>1, AdmitMoves DEF StoredOK
    <3>2. CASE \E p \in Spawned : runs' = [runs EXCEPT ![p] = RunOf(j)]
      <4>1. RunOf(j).phase = "new"  BY DEF RunOf
      <4> QED  BY <1>5, <3>2, <4>1, AdmitMoves DEF StoredOK, RunsOK
    <3> QED  BY <1>5, <3>1, <3>2, AdmitMoves
  <2>2. Lone
    <3> SUFFICES ASSUME At("publish")'  PROVE Lone  OBVIOUS
    <3>1. /\ pass'.tree = j.tree /\ pass'.object = stored[j.tree]
          /\ UNCHANGED <<runs, stored>> /\ ~At("idle")
          /\ Assessed(j.tree, j.asked) = "publish"
      BY <1>5, AdmitMoves DEF At
    <3>2. stored[j.tree] # {} /\ j.tree \notin Running  BY <3>1 DEF Assessed
    <3>3. \A p \in Pid : runs[p] # None => runs[p].tree # j.tree
      BY <3>1, <3>2 DEF RunsOK, Running, Mine
    <3> QED  BY <3>1, <3>2, <3>3
  <2> QED  BY <2>1, <2>2
<1>6. ASSUME NEW saves \in BOOLEAN, NEW p \in Pid, Complete(p, saves)  PROVE Has /\ Lone
  <2>1. UNCHANGED stored  BY <1>6 DEF Complete, Saved, disk
  <2>2. /\ p \in Mine /\ runs[p] # None
        /\ \/ runs' = [runs EXCEPT ![p] = None] /\ pass'.pc = "reap"
           \/ /\ runs[p].phase = "passed" /\ runs' = [runs EXCEPT ![p].phase = "kept"]
              /\ pass'.tree = runs[p].tree /\ pass'.object \in {runs[p].checks, stored[runs[p].tree]}
    BY <1>6, CompleteMoves DEF Mine
  <2>3. CASE runs' = [runs EXCEPT ![p] = None] /\ pass'.pc = "reap"
    BY <2>1, <2>3 DEF StoredOK, RunsOK, At
  <2>4. CASE /\ runs[p].phase = "passed" /\ runs' = [runs EXCEPT ![p].phase = "kept"]
             /\ pass'.tree = runs[p].tree /\ pass'.object \in {runs[p].checks, stored[runs[p].tree]}
    <3>1. /\ runs'[p] # None /\ runs'[p].phase = "kept" /\ runs'[p].tree = runs[p].tree
          /\ runs'[p].mine
          /\ \A q \in Pid \ {p} : runs'[q] = runs[q]
      BY <2>2, <2>4, CheckWorkerAssumption DEF RunsOK, RunFields, Mine, RunTypes, Run
    <3>2. stored[runs[p].tree] # {} /\ runs[p].checks # {}  BY <2>2, <2>4 DEF StoredOK, RunTypes, Mine
    <3>3. Has  BY <2>1, <3>1, <3>2 DEF StoredOK
    <3>4. Lone
      BY <2>1, <2>2, <2>4, <3>1, <3>2 DEF RunsOK, OneBuilder, Mine
    <3> QED  BY <3>3, <3>4
  <2> QED  BY <2>2, <2>3, <2>4
<1>7. CASE /\ OfPass /\ \A j : ~AdmitJob(j)
           /\ \A saves \in BOOLEAN, p \in Pid : ~Complete(p, saves)
  <2>1. Has  BY <1>7, PassRuns DEF StoredOK
  <2>2. Lone
    <3> SUFFICES ASSUME At("publish")'  PROVE Lone  OBVIOUS
    <3>1. PICK c : ReadChange(c)  BY <1>7, PublishMoves
    <3> DEFINE t == pass.view[c].tree
    <3>2. /\ At("read") /\ pass'.tree = t /\ pass'.object = stored[t]
          /\ Assessed(t, pass.asked) = "publish"
      BY <3>1, ReadMoves DEF At
    <3>3. UNCHANGED <<runs, stored>>  BY <3>1 DEF ReadChange, disk
    <3>4. stored[t] # {} /\ t \notin Running  BY <3>2 DEF Assessed
    <3>5. \A p \in Pid : runs[p] # None => runs[p].tree # t
      BY <3>2, <3>4 DEF RunsOK, Running, Mine, At
    <3> QED  BY <3>2, <3>3, <3>4, <3>5
  <2> QED  BY <2>1, <2>2
<1> QED  BY <1>3, <1>4, <1>5, <1>6, <1>7, StepsAre

\* What fails in a step: the build of a run the pass handles, or its push.
LEMMA OwedMoves ==
  ASSUME ValuesOK, PassOK, RunsOK, [Next]_vars, NEW k \in owed'
  PROVE  \/ k \in owed
         \/ \E saves \in BOOLEAN, p \in Pid :
               /\ Complete(p, saves) /\ p \in Mine /\ runs[p].phase = "failed"
               /\ k = BuildKey(runs[p].tree, runs[p].checks)
               /\ k \in pass'.failed /\ k \in pass'.fresh /\ runs' = [runs EXCEPT ![p] = None]
         \/ \E taken \in BOOLEAN :
               /\ Pushes(TRUE, taken) /\ k = PushKey(pass.tree, pass.object)
               /\ k \in pass'.failed /\ k \in pass'.fresh
<1> SUFFICES ASSUME k \notin owed
             PROVE  \/ \E saves \in BOOLEAN, p \in Pid :
                          /\ Complete(p, saves) /\ p \in Mine /\ runs[p].phase = "failed"
                          /\ k = BuildKey(runs[p].tree, runs[p].checks)
                          /\ k \in pass'.failed /\ k \in pass'.fresh
                          /\ runs' = [runs EXCEPT ![p] = None]
                    \/ \E taken \in BOOLEAN :
                          /\ Pushes(TRUE, taken) /\ k = PushKey(pass.tree, pass.object)
                          /\ k \in pass'.failed /\ k \in pass'.fresh
  OBVIOUS
<1>1. ~UNCHANGED vars  BY DEF vars
<1>2. k \in Fails /\ k \notin over'
  BY <1>1 DEF Next, Owes
<1>3. /\ ~At("idle") /\ k \in pass'.failed /\ (k \in pass.failed => k \in over)
  BY <1>2 DEF Fails
<1>4. ~(pass'.failed \subseteq pass.failed /\ over \subseteq over')  BY <1>2, <1>3
<1>5. ~EndScan
  BY <1>4, EndScanMoves DEF Pruned
<1>6. ~Kill /\ \A saves \in BOOLEAN : ~End(saves)
  BY <1>3 DEF Kill, End, NoPass
<1>7. ASSUME NEW saves \in BOOLEAN, NEW p \in Pid, Complete(p, saves)
      PROVE  /\ p \in Mine /\ runs[p].phase = "failed"
             /\ k = BuildKey(runs[p].tree, runs[p].checks)
             /\ k \in pass'.failed /\ k \in pass'.fresh /\ runs' = [runs EXCEPT ![p] = None]
  <2> DEFINE key == BuildKey(runs[p].tree, runs[p].checks)
  <2>1. /\ p \in Mine
        /\ \/ pass'.failed = pass.failed /\ over' = over
           \/ /\ runs[p].phase = "failed" /\ pass'.failed = pass.failed \cup {key}
              /\ pass'.fresh = pass.fresh \cup {key} /\ over' = over \ {key}
              /\ runs' = [runs EXCEPT ![p] = None]
           \/ pass'.failed = pass.failed \ {key} /\ over' = over
    BY <1>7, CompleteMoves
  <2> HIDE DEF key
  <2> QED  BY <1>2, <1>3, <1>4, <2>1 DEF key
<1>8. ASSUME NEW fails \in BOOLEAN, NEW taken \in BOOLEAN, Pushes(fails, taken)
      PROVE  /\ Pushes(TRUE, taken) /\ k = PushKey(pass.tree, pass.object)
             /\ k \in pass'.failed /\ k \in pass'.fresh
  <2> DEFINE key == PushKey(pass.tree, pass.object)
  <2>1. /\ pass'.failed = IF fails THEN pass.failed \cup {key} ELSE pass.failed \ {key}
        /\ pass'.fresh = IF fails THEN pass.fresh \cup {key} ELSE pass.fresh
        /\ over' = IF fails THEN over \ {key} ELSE over
    BY <1>8, PushMoves
  <2> HIDE DEF key
  <2>2. fails  BY <1>4, <2>1
  <2>3. k = key /\ k \in pass'.fresh  BY <1>2, <1>3, <2>1, <2>2
  <2> QED  BY <1>3, <1>8, <2>2, <2>3 DEF key
<1> QED  BY <1>3, <1>4, <1>5, <1>6, <1>7, <1>8, FailedMoves

\* The policies.  Those the scan read and the jobs were found by are no
\* larger than origin's, which only grows.
PolicyOK ==
    /\ asked # {} /\ ((pass.asked # {}) <=> InScan)
    /\ ~InScan => pass.found = {}
    /\ pass.asked \subseteq asked
    /\ \A j \in pass.found : j.asked = pass.asked
    /\ \A j \in Queued : /\ j.asked \subseteq asked
                         /\ InScan => j.asked \subseteq pass.asked
                         /\ \A i \in Queued : i.asked = j.asked

\* These checks are asked for by each of them.
Limits(M) == /\ M \subseteq asked
             /\ InScan => M \subseteq pass.asked
             /\ \A j \in Queued : M \subseteq j.asked

\* What the runs are for is, and what a failed one was for.
LimitsOK ==
    /\ \A p \in Mine : Limits(runs[p].checks)
    /\ \A k \in owed : stored[k[2]] = {} => Limits(k[3])

\* Every step keeps the policies in order.
LEMMA PolicyOKStep ==
  ASSUME ValuesOK, RunTypes, JobsOK, RunsOK, PassOK, StoredOK, PolicyOK, [Next]_vars
  PROVE  PolicyOK'
<1>0. asked # {}  BY DEF PolicyOK
<1>1. asked \subseteq asked' /\ asked' # {}  BY <1>0, OriginGrows
<1>2. CASE Continues  BY <1>1, <1>2 DEF Continues, PolicyOK, Queued
<1>3. CASE Resets  BY <1>1, <1>3 DEF Resets, PolicyOK, Queued
<1>4. CASE View
  <2>1. /\ pass'.asked = asked /\ pass'.found = pass.found /\ pass'.queue = pass.queue
        /\ pass'.turn = pass.turn /\ asked' = asked /\ InScan' /\ ~InScan
    BY <1>4 DEF View, PassOK, NoPass, InScan, At, origin
  <2> QED  BY <1>1, <2>1 DEF PolicyOK, Queued
<1>5. CASE EndScan
  <2>1. /\ pass'.asked = {} /\ pass'.found = {} /\ ~InScan'
        /\ (pass'.queue \cup pass'.turn) \subseteq pass.found
    BY <1>5, EndScanMoves
  <2> QED  BY <1>1, <2>1 DEF PolicyOK, Queued
<1>6. ASSUME NEW c, ReadChange(c)  PROVE PolicyOK'
  <2>1. /\ InScan' /\ InScan
        /\ pass'.asked = pass.asked /\ pass'.queue = pass.queue /\ pass'.turn = pass.turn
        /\ \A j \in pass'.found : j \in pass.found \/ j.asked = pass.asked
    BY <1>6, ReadMoves DEF InScan
  <2> QED  BY <1>1, <2>1 DEF PolicyOK, Queued
<1> QED  BY <1>2, <1>3, <1>4, <1>5, <1>6, ScanMoves

\* What all of them ask for they go on asking for.
LEMMA LimitsStay ==
  ASSUME ValuesOK, RunTypes, JobsOK, RunsOK, PassOK, StoredOK, PolicyOK, [Next]_vars
  PROVE  \A M : Limits(M) => /\ M \subseteq asked'
                             /\ InScan' => M \subseteq pass'.asked
                             /\ \A j \in pass'.queue \cup pass'.turn : M \subseteq j.asked
<1> SUFFICES ASSUME NEW M, Limits(M)
             PROVE  /\ M \subseteq asked'
                    /\ InScan' => M \subseteq pass'.asked
                    /\ \A j \in pass'.queue \cup pass'.turn : M \subseteq j.asked
  OBVIOUS
<1>1. M \subseteq asked'  BY OriginGrows DEF Limits
<1>2. CASE Continues  BY <1>1, <1>2 DEF Continues, Limits, Queued
<1>3. CASE Resets  BY <1>1, <1>3 DEF Resets, Limits, Queued
<1>4. CASE View
  <2>1. /\ pass'.asked = asked /\ pass'.queue = pass.queue /\ pass'.turn = pass.turn
    BY <1>4 DEF View, PassOK, NoPass
  <2> QED  BY <1>1, <2>1 DEF Limits, Queued
<1>5. CASE EndScan
  <2>1. /\ ~InScan' /\ InScan /\ pass'.queue \cup pass'.turn \subseteq pass.found
    BY <1>5, EndScanMoves DEF InScan
  <2> QED  BY <1>1, <2>1 DEF Limits, Queued, PolicyOK
<1>6. ASSUME NEW c, ReadChange(c)
      PROVE  /\ InScan' => M \subseteq pass'.asked
             /\ \A j \in pass'.queue \cup pass'.turn : M \subseteq j.asked
  <2>1. /\ InScan
        /\ pass'.asked = pass.asked /\ pass'.queue = pass.queue /\ pass'.turn = pass.turn
    BY <1>6, ReadMoves DEF InScan
  <2> QED  BY <2>1 DEF Limits, Queued
<1> QED  BY <1>1, <1>2, <1>3, <1>4, <1>5, <1>6, ScanMoves

\* What is owed is asked for: a failure, by what it was of.
LEMMA KeysAre ==
  ASSUME ValuesOK, NEW k \in Asked
  PROVE  /\ k[2] \in Lacking /\ k = KeyOf(k[2]) /\ k[2] \in Tree
         /\ stored[k[2]] = {} => k[3] = Missing(k[2], asked)
<1>1. PICK t \in Lacking : k = KeyOf(t)  BY DEF Asked
<1>2. KeyOf(t)[2] = t
  BY DEF KeyOf, BuildKey, PushKey
<1>3. stored[t] = {} => KeyOf(t)[3] = Missing(t, asked)
  BY DEF KeyOf, BuildKey
<1>4. t \in Tree  BY <1>1 DEF Lacking, ValuesOK
<1> QED  BY <1>1, <1>2, <1>3, <1>4

\* The failures the running pass knows, or the next will read.
KnownFailures == IF At("idle") THEN record ELSE pass.failed

\* What is owed its wait is asked for, has not waited, and is known.
OwedOK ==
    /\ owed \subseteq Asked /\ owed \cap over = {}
    /\ owed \subseteq KnownFailures

\* No run is about a tree one of whose failures is owed its wait.
ApartOK == \A k \in owed, p \in Pid : runs[p] # None => runs[p].tree # k[2]

\* What the scan under way did not meet of them is yet to read, or failed
\* since it began.
MetOK ==
    InScan /\ pass.whole =>
       \A k \in owed : \/ k \in pass.met \cup pass.fresh
                       \/ \E c \in pass.todo : pass.view[c].tree = k[2]

WaitsOK == StoredOK /\ PolicyOK /\ LimitsOK /\ OwedOK /\ ApartOK /\ MetOK

\* What is owed is asked for by the policy a job or the scan has read as it is
\* by origin's: its key is the one assess looks for.
LEMMA KeyFound ==
  ASSUME ValuesOK, LimitsOK, OwedOK, NEW k \in owed,
         NEW M, M \subseteq asked, stored[k[2]] = {}, Limits(k[3]) => k[3] \subseteq M
  PROVE  k = BuildKey(k[2], Missing(k[2], M))
<1>1. /\ k = BuildKey(k[2], Missing(k[2], asked)) /\ k[3] = Missing(k[2], asked)
  BY KeysAre DEF OwedOK, KeyOf
<1>2. k[3] \subseteq M  BY DEF LimitsOK
<1>3. Missing(k[2], M) = Missing(k[2], asked)  BY <1>1, <1>2 DEF Missing
<1> QED  BY <1>1, <1>3

\* Every step keeps what the owed are.
LEMMA LimitsOKStep ==
  ASSUME ValuesOK, RunTypes, JobsOK, RunsOK, PassOK, StoredOK, PolicyOK, OwedOK, LimitsOK, [Next]_vars
  PROVE  LimitsOK'
<1> DEFINE Next2(M) == /\ M \subseteq asked'
                       /\ InScan' => M \subseteq pass'.asked
                       /\ \A j \in pass'.queue \cup pass'.turn : M \subseteq j.asked
<1>1. \A M : Limits(M) => Next2(M)  BY LimitsStay
<1>2. \A p \in Mine' : Next2(runs'[p].checks)
  <2>1. CASE Thinned
    <3>1. \A p \in Mine' : p \in Mine /\ runs'[p].checks = runs[p].checks
      BY <2>1 DEF Thinned, Mine
    <3>2. \A p \in Mine : Next2(runs[p].checks)  BY <1>1 DEF LimitsOK
    <3> HIDE DEF Next2
    <3> QED  BY <3>1, <3>2
  <2>2. ASSUME NEW j, AdmitJob(j)  PROVE \A p \in Mine' : Next2(runs'[p].checks)
    <3>1. Limits(RunOf(j).checks)
      <4>1. j \in Queued  BY <2>2, AdmitMoves DEF Queued
      <4>2. RunOf(j).checks \subseteq j.asked  BY DEF RunOf, Missing
      <4>3. j.asked \subseteq asked /\ (InScan => j.asked \subseteq pass.asked)
        BY <4>1 DEF PolicyOK
      <4>4. \A i \in Queued : i.asked = j.asked  BY <4>1 DEF PolicyOK
      <4> HIDE DEF PolicyOK
      <4> QED  BY <4>2, <4>3, <4>4 DEF Limits
    <3>2. Next2(RunOf(j).checks)  BY <1>1, <3>1
    <3>3. \A p \in Mine : Next2(runs[p].checks)  BY <1>1 DEF LimitsOK
    <3> HIDE DEF Next2
    <3>4. CASE UNCHANGED runs  BY <3>3, <3>4 DEF Mine
    <3>5. ASSUME NEW p \in Spawned, runs' = [runs EXCEPT ![p] = RunOf(j)]
          PROVE  \A q \in Mine' : Next2(runs'[q].checks)
      <4>1. p \in Pid  BY DEF Spawned
      <4>2. \A q \in Pid \ {p} : runs'[q] = runs[q]  BY <3>5, <4>1 DEF RunsOK
      <4>3. runs'[p] = RunOf(j)  BY <3>5, <4>1 DEF RunsOK
      <4> QED  BY <3>2, <3>3, <4>1, <4>2, <4>3 DEF Mine
    <3> QED  BY <2>2, <3>4, <3>5, AdmitMoves
  <2> QED  BY <2>1, <2>2, StepThins
<1>3. ASSUME NEW k \in owed', stored'[k[2]] = {}  PROVE Next2(k[3])
  <2>1. CASE k \in owed
    <3>1. k[2] \in Tree  BY <2>1, KeysAre DEF OwedOK
    <3>2. stored[k[2]] = {}  BY <1>3, <3>1, OriginGrows
    <3>3. Limits(k[3])  BY <2>1, <3>2 DEF LimitsOK
    <3> QED  BY <1>1, <3>3
  <2>2. ASSUME NEW p \in Mine, k = BuildKey(runs[p].tree, runs[p].checks)  PROVE Next2(k[3])
    <3>1. k[3] = runs[p].checks  BY <2>2 DEF BuildKey
    <3>2. Limits(runs[p].checks)  BY DEF LimitsOK
    <3> QED  BY <1>1, <3>1, <3>2
  <2>3. ASSUME NEW taken \in BOOLEAN, Pushes(TRUE, taken), k = PushKey(pass.tree, pass.object)  PROVE FALSE
    <3>1. k[2] = pass.tree  BY <2>3 DEF PushKey
    <3>2. At("publish") /\ UNCHANGED stored  BY <2>3 DEF Pushes, Saved
    <3> QED  BY <1>3, <3>1, <3>2 DEF StoredOK
  <2> QED  BY <2>1, <2>2, <2>3, OwedMoves
<1> QED  BY <1>2, <1>3 DEF LimitsOK, Limits, Queued

\* No step starts a run that a failure owed its wait is about.
LEMMA StartsWait ==
  ASSUME ValuesOK, PassOK, RunsOK, PolicyOK, LimitsOK, OwedOK, NEW j, AdmitJob(j),
         Assessed(j.tree, j.asked) = "build", NEW k \in owed
  PROVE  k[2] # j.tree
<1> SUFFICES ASSUME k[2] = j.tree  PROVE FALSE  OBVIOUS
<1>1. At("admit") /\ j \in Queued  BY AdmitMoves DEF Queued
<1>2. /\ stored[k[2]] = {}
      /\ ~Waits(BuildKey(j.tree, Missing(j.tree, j.asked)))
  BY DEF Assessed
<1>3. j.asked \subseteq asked  BY <1>1 DEF PolicyOK
<1>4. Limits(k[3]) => k[3] \subseteq j.asked  BY <1>1 DEF Limits
<1>5. k = BuildKey(j.tree, Missing(j.tree, j.asked))  BY <1>2, <1>3, <1>4, KeyFound
<1>6. k \in pass.failed /\ k \notin over  BY <1>1 DEF OwedOK, KnownFailures, At
<1> QED  BY <1>2, <1>5, <1>6 DEF Waits

\* Every step keeps them apart.
LEMMA ApartOKStep ==
  ASSUME ValuesOK, PassOK, RunsOK, StoredOK, PolicyOK, LimitsOK, OwedOK, ApartOK, [Next]_vars
  PROVE  ApartOK'
<1> SUFFICES ASSUME NEW k \in owed', NEW p \in Pid, runs'[p] # None  PROVE runs'[p].tree # k[2]
  BY DEF ApartOK
<1>1. CASE k \in owed
  <2>1. CASE Thinned  BY <1>1, <2>1 DEF Thinned, ApartOK
  <2>2. ASSUME NEW j, AdmitJob(j)  PROVE runs'[p].tree # k[2]
    <3>1. CASE UNCHANGED runs  BY <1>1, <3>1 DEF ApartOK
    <3>2. ASSUME NEW q \in Spawned, runs' = [runs EXCEPT ![q] = RunOf(j)],
                 Assessed(j.tree, j.asked) = "build"
          PROVE  runs'[p].tree # k[2]
      <4>1. RunOf(j).tree # k[2]  BY <1>1, <2>2, <3>2, StartsWait DEF RunOf
      <4> QED  BY <1>1, <3>2, <4>1 DEF ApartOK, RunsOK
    <3> QED  BY <2>2, <3>1, <3>2, AdmitMoves
  <2> QED  BY <2>1, <2>2, StepThins
<1>2. ASSUME NEW q \in Mine, k = BuildKey(runs[q].tree, runs[q].checks),
             runs' = [runs EXCEPT ![q] = None]
      PROVE  runs'[p].tree # k[2]
  <2>1. k[2] = runs[q].tree  BY <1>2 DEF BuildKey
  <2>2. q # p /\ runs'[p] = runs[p]  BY <1>2 DEF RunsOK
  <2> QED  BY <2>1, <2>2 DEF RunsOK, OneBuilder, Mine
<1>3. ASSUME NEW taken \in BOOLEAN, Pushes(TRUE, taken), k = PushKey(pass.tree, pass.object)
      PROVE  runs'[p].tree # k[2]
  <2>1. k[2] = pass.tree  BY <1>3 DEF PushKey
  <2>2. At("publish") /\ runs' = Published  BY <1>3 DEF Pushes
  <2> QED  BY <2>1, <2>2 DEF StoredOK, Published
<1> QED  BY <1>1, <1>2, <1>3, OwedMoves

\* A failure that is owed stays known until a kill or a write that fails
\* forgets it: a scan forgets only what it did not meet.
LEMMA OwedOKStep ==
  ASSUME ValuesOK, RunTypes, JobsOK, PassOK, RunsOK, WaitsOK, [Next]_vars
  PROVE  OwedOK'
<1> USE DEF WaitsOK
<1>1. CASE UNCHANGED vars
  <2>1. Asked' = Asked
    BY <1>1 DEF vars, origin, disk, Asked, KeyOf, Lacking, Missing, BuildKey, PushKey
  <2>2. KnownFailures' = KnownFailures  BY <1>1 DEF vars, disk, KnownFailures, At
  <2> QED  BY <1>1, <2>1, <2>2 DEF vars, OwedOK
<1>2. CASE Next
  <2>1. owed' = (Asked' \cap (owed \cup Fails)) \ (over' \cup Forgotten)  BY <1>2 DEF Next, Owes
  <2>2. owed' \subseteq Asked' /\ owed' \cap over' = {}  BY <2>1
  <2> SUFFICES ASSUME NEW k \in owed'  PROVE k \in KnownFailures'
    BY <2>2 DEF OwedOK
  <2>3. CASE k \notin owed
    <3>1. k \in pass'.failed /\ ~At("idle")'
      <4>1. ASSUME NEW saves \in BOOLEAN, NEW p \in Pid, Complete(p, saves)  PROVE ~At("idle")'
        BY <4>1, CompleteMoves DEF At
      <4>2. ASSUME NEW taken \in BOOLEAN, Pushes(TRUE, taken)  PROVE ~At("idle")'
        BY <4>2, PushMoves DEF PassOK, At
      <4> QED  BY <2>3, <4>1, <4>2, OwedMoves
    <3> QED  BY <3>1 DEF KnownFailures
  <2>4. CASE k \in owed /\ At("idle")
    <3>1. k \in record  BY <2>4 DEF OwedOK, KnownFailures
    <3>2. CASE Begins
      BY <3>1, <3>2 DEF Begins, Start, NoPass, KnownFailures, At
    <3>3. CASE Beside
      <4>1. UNCHANGED pass  BY <3>3, BesideThePass
      <4>2. UNCHANGED record
        BY <3>3 DEF Beside, Policy, Mark, Toggle, Amend, Attested, Expire, Reserves, Admits,
           Evaluated, NotReserved, CheckFails, Dies, Drops, Stores, DiesStoring, GitStores, Goes,
           Move, disk
      <4> QED  BY <2>4, <3>1, <4>1, <4>2 DEF KnownFailures, At
    <3>4. OfPass => Begins
      BY <2>4 DEF OfPass, View, EndScan, Admitted, Reaped, ReadFails, Claim, ReadChange,
         NotDerived, AdmitJob, Pushes, PushWaits, Tick, Kill, End, Complete, At
    <3> QED  BY <1>2, <3>2, <3>3, <3>4, StepsAre
  <2>5. CASE k \in owed /\ ~At("idle")
    <3>1. k \in pass.failed  BY <2>5 DEF OwedOK, KnownFailures
    <3>2. CASE pass'.failed = pass.failed /\ ~At("idle")'
      BY <3>1, <3>2 DEF KnownFailures
    <3>3. CASE EndScan
      <4>1. /\ At("read") /\ pass.todo = {} /\ ~At("idle")'
            /\ pass'.failed = IF pass.whole THEN Pruned ELSE pass.failed
        BY <3>3, EndScanMoves DEF At
      <4>2. pass.whole => k \in pass.met \cup pass.fresh
        BY <2>5, <4>1 DEF MetOK, InScan
      <4>3. pass.whole => k \in Pruned  BY <3>1, <4>2 DEF Pruned
      <4> QED  BY <3>1, <4>1, <4>3 DEF KnownFailures
    <3>4. CASE Kill
      <4>1. At("idle")' /\ Event /\ record' = record  BY <3>4 DEF Kill, NoPass, At, disk
      <4> QED  BY <2>1, <2>5, <4>1 DEF Forgotten, KnownFailures
    <3>5. ASSUME NEW saves \in BOOLEAN, End(saves)  PROVE k \in KnownFailures'
      <4>1. /\ At("idle")'
            /\ IF saves THEN record' = pass.failed ELSE record' = record /\ Event
        BY <3>5 DEF End, Saved, Costs, NoPass, At
      <4>2. CASE saves  BY <3>1, <4>1, <4>2 DEF KnownFailures
      <4>3. CASE ~saves
        BY <2>1, <2>5, <4>1, <4>3 DEF Forgotten, KnownFailures
      <4> QED  BY <4>2, <4>3
    <3>6. ASSUME NEW saves \in BOOLEAN, NEW p \in Pid, Complete(p, saves)
          PROVE  k \in KnownFailures'
      <4> DEFINE key == BuildKey(runs[p].tree, runs[p].checks)
      <4>1. /\ p \in Mine /\ ~At("idle")'
            /\ pass.failed \ {key} \subseteq pass'.failed
        BY <3>6, CompleteMoves DEF At
      <4>2. k[2] # runs[p].tree  BY <2>5, <4>1 DEF ApartOK, Mine
      <4>3. key[2] = runs[p].tree  BY DEF BuildKey
      <4> HIDE DEF key
      <4> QED  BY <3>1, <4>1, <4>2, <4>3 DEF KnownFailures
    <3>7. ASSUME NEW fails \in BOOLEAN, NEW taken \in BOOLEAN, Pushes(fails, taken)
          PROVE  k \in KnownFailures'
      <4> DEFINE key == PushKey(pass.tree, pass.object)
                 failed == IF fails THEN pass.failed \cup {key} ELSE pass.failed \ {key}
      <4>1. /\ At("publish") /\ (fails \/ taken)
            /\ taken => own' = [own EXCEPT ![pass.tree] = pass.object]
        BY <3>7 DEF Pushes
      <4>2. pass'.failed = failed /\ ~At("idle")'
        BY <3>7, PushMoves DEF PassOK, At
      <4> HIDE DEF key, failed
      <4>3. CASE fails  BY <3>1, <4>2, <4>3 DEF failed, KnownFailures
      <4>4. CASE ~fails
        <5>1. own'[pass.tree] # {}  BY <4>1, <4>4 DEF StoredOK, ValuesOK, JobsOK
        <5>2. PICK t \in Lacking' : k = KeyOf(t)'  BY <2>2 DEF Asked
        <5>3. k[2] \in Lacking'  BY <5>2 DEF KeyOf, BuildKey, PushKey
        <5>4. k[2] # pass.tree  BY <5>1, <5>3 DEF Lacking
        <5>5. k # key  BY <5>4 DEF key, PushKey
        <5> QED  BY <3>1, <4>2, <4>4, <5>5 DEF failed, KnownFailures
      <4> QED  BY <4>3, <4>4
    <3> QED  BY <2>5, <3>2, <3>3, <3>4, <3>5, <3>6, <3>7, FailedMoves
  <2> QED  BY <2>3, <2>4, <2>5
<1> QED  BY <1>1, <1>2

\* What a scan reads of a change whose failure is owed its wait, it meets.
LEMMA ReadMeets ==
  ASSUME ValuesOK, PassOK, RunsOK, WaitsOK, NEW c, ReadChange(c), NEW k \in owed,
         pass.view[c].tree = k[2]
  PROVE  k \in pass'.met
<1> USE DEF WaitsOK
<1> DEFINE t == k[2]
<1>1. /\ At("read") /\ InScan
      /\ \/ Assessed(t, pass.asked) \in {"covered", "running", "spent"}
         \/ Assessed(t, pass.asked) = "publish" /\ PushKey(t, stored[t]) \in pass'.met
         \/ /\ Assessed(t, pass.asked) \in {"waits", "build"}
            /\ BuildKey(t, Missing(t, pass.asked)) \in pass'.met
  BY ReadMoves DEF InScan
<1>2. t \in Lacking /\ k = KeyOf(t)  BY KeysAre DEF OwedOK
<1>3. pass.asked # {} /\ pass.asked \subseteq asked  BY <1>1 DEF PolicyOK
<1>4. Missing(t, pass.asked) # {} /\ own[t] = {}  BY <1>2, <1>3 DEF Lacking
<1>5. t \notin Running  BY DEF ApartOK, Running, Mine
<1>6. CASE stored[t] # {}
  <2>1. k = PushKey(t, stored[t])  BY <1>2, <1>6 DEF KeyOf
  <2> QED  BY <1>1, <1>4, <1>5, <1>6, <2>1 DEF Assessed
<1>7. CASE stored[t] = {}
  <2>1. Limits(k[3]) => k[3] \subseteq pass.asked  BY <1>1 DEF Limits
  <2>2. k = BuildKey(t, Missing(t, pass.asked))  BY <1>3, <1>7, <2>1, KeyFound
  <2> QED  BY <1>1, <1>4, <1>5, <1>7, <2>2 DEF Assessed
<1> QED  BY <1>6, <1>7

\* Every step keeps what is to be met.
LEMMA MetOKStep ==
  ASSUME ValuesOK, RunTypes, JobsOK, PassOK, RunsOK, WaitsOK, [Next]_vars
  PROVE  MetOK'
<1> USE DEF WaitsOK
<1> SUFFICES ASSUME InScan', pass'.whole, NEW k \in owed'
             PROVE  \/ k \in pass'.met \cup pass'.fresh
                    \/ \E c \in pass'.todo : pass'.view[c].tree = k[2]
  BY DEF MetOK
<1>1. CASE k \notin owed  BY <1>1, OwedMoves
<1>2. CASE k \in owed
  <2>1. CASE Continues  BY <1>2, <2>1 DEF Continues, MetOK
  <2>2. CASE Resets  BY <2>2 DEF Resets
  <2>3. CASE View
    <3> DEFINE ready == {c \in Change : change[c].ready}
    <3>1. pass'.todo = ready /\ pass'.view = [c \in ready |-> change[c]]
      BY <2>3 DEF View, PassOK, NoPass
    <3>2. PICK c \in ready : change[c].tree = k[2]
      BY <1>2, KeysAre DEF OwedOK, Lacking
    <3> QED  BY <3>1, <3>2
  <2>4. CASE EndScan  BY <2>4, EndScanMoves
  <2>5. ASSUME NEW c, ReadChange(c)
        PROVE  \/ k \in pass'.met \cup pass'.fresh
               \/ \E d \in pass'.todo : pass'.view[d].tree = k[2]
    <3>1. /\ InScan /\ pass.whole /\ pass'.view = pass.view
          /\ pass'.todo = pass.todo \ {c} /\ pass.met \subseteq pass'.met
          /\ pass'.fresh = pass.fresh
      BY <2>5, ReadMoves DEF InScan
    <3>2. CASE pass.view[c].tree = k[2]  BY <1>2, <2>5, <3>2, ReadMeets
    <3>3. CASE pass.view[c].tree # k[2]  BY <1>2, <3>1, <3>3 DEF MetOK
    <3> QED  BY <3>2, <3>3
  <2> QED  BY <2>1, <2>2, <2>3, <2>4, <2>5, ScanMoves
<1> QED  BY <1>1, <1>2

\* Init: what waits is what is asked for of the first tree.
LEMMA WaitsInit ==
  ASSUME Init  PROVE WaitsOK
<1>1. /\ asked # {} /\ over = {} /\ owed = record /\ pass = NoPass
      /\ \A p \in Pid : runs[p] = None
  BY DEF Init
<1>2. At("idle") /\ ~At("publish") /\ ~InScan  BY <1>1 DEF At, NoPass, InScan
<1>3. StoredOK /\ ApartOK /\ MetOK  BY <1>1, <1>2 DEF StoredOK, ApartOK, MetOK
<1>4. Queued = {} /\ pass.asked = {} /\ pass.found = {}  BY <1>1 DEF Queued, NoPass
<1>5. PolicyOK  BY <1>1, <1>2, <1>4 DEF PolicyOK
<1>6. Mine = {}  BY <1>1 DEF Mine
<1> DEFINE t == change[CHOOSE c \in Change : TRUE].tree
<1>7. record \subseteq Asked /\ \A k \in record : stored[k[2]] = {} => k[3] \subseteq asked
  <2> DEFINE first == CHOOSE c \in Change : TRUE
  <2>1. first \in Change  BY CheckWorkerAssumption
  <2> HIDE DEF first
  <2>2. PICK f \in Heads : change = [c \in Change |-> [n |-> 1, tree |-> f[c], ready |-> TRUE]]
    BY DEF Init
  <2>3. /\ t \in {change[c].tree : c \in {d \in Change : change[d].ready}} /\ t \in Tree
    BY <2>1, <2>2, CheckWorkerAssumption DEF first
  <2> HIDE DEF t
  <2>4. others[t] = {} /\ own[t] = {}  BY <2>3 DEF Init
  <2>5. Missing(t, asked) = asked  BY <2>4 DEF Missing
  <2>6. t \in Lacking  BY <1>1, <1>4, <2>3, <2>4, <2>5 DEF Lacking
  <2>7. PICK stores, failed \in BOOLEAN :
          /\ stored = [u \in Tree |-> IF u = t /\ stores THEN asked ELSE {}]
          /\ record = IF ~failed THEN {} ELSE {IF stores THEN <<"push", t, asked>>
                                               ELSE BuildKey(t, asked)}
    BY DEF Init, t
  <2>8. stored[t] = IF stores THEN asked ELSE {}  BY <2>3, <2>7
  <2>9. KeyOf(t) = IF stores THEN <<"push", t, asked>> ELSE BuildKey(t, asked)
    BY <1>1, <2>5, <2>8 DEF KeyOf, PushKey
  <2>10. \A k \in record : k = KeyOf(t) /\ k[3] = asked  BY <2>7, <2>9 DEF BuildKey
  <2> QED  BY <2>6, <2>10 DEF Asked
<1>8. LimitsOK  BY <1>1, <1>2, <1>4, <1>6, <1>7 DEF LimitsOK, Limits
<1>9. OwedOK  BY <1>1, <1>2, <1>7 DEF OwedOK, KnownFailures
<1> QED  BY <1>3, <1>5, <1>8, <1>9 DEF WaitsOK

\* Every step keeps all of it.
LEMMA WaitsOKStep ==
  ASSUME ValuesOK, RunTypes, JobsOK, PassOK, RunsOK, WaitsOK, [Next]_vars
  PROVE  WaitsOK'
<1> USE DEF WaitsOK
<1>1. StoredOK' /\ PolicyOK' /\ ApartOK'  BY StoredOKStep, PolicyOKStep, ApartOKStep
<1>2. LimitsOK'  BY LimitsOKStep
<1>3. OwedOK'  BY OwedOKStep
<1>4. MetOK'  BY MetOKStep
<1> QED  BY <1>1, <1>2, <1>3, <1>4

\* Nothing that failed is tried again before its wait is over while it stays
\* asked for, whatever the scans under way forget, in passes after a kill too
\* (worker.go, prune and the failure record).
THEOREM FailuresWait == Spec => RetriesWait
<1> DEFINE Inv == PassOK /\ RunsOK /\ LineOK
           Waiting == ValuesOK /\ JobsOK /\ RunTypes /\ WaitsOK
           Retry == /\ \A p \in Pid : runs[p] = None /\ runs'[p] # None
                          => BuildKey(runs'[p].tree, runs'[p].checks) \notin owed
                    /\ (\E fails, taken \in BOOLEAN : Pushes(fails, taken))
                          => PushKey(pass.tree, pass.object) \notin owed
<1>1. Init => Waiting  BY TypesInit, WaitsInit
<1>2. Inv /\ Waiting /\ [Next]_vars => Waiting'
  BY ValuesOKStep, JobsOKStep, RunTypesStep, WaitsOKStep
<1>3. Inv /\ Waiting /\ [Next]_vars => [Retry]_vars
  <2> SUFFICES ASSUME Inv, Waiting, [Next]_vars  PROVE Retry
    OBVIOUS
  <2>1. owed \cap over = {} /\ owed \subseteq KnownFailures  BY DEF WaitsOK, OwedOK
  <2>2. ASSUME NEW p \in Pid, runs[p] = None, runs'[p] # None
        PROVE  BuildKey(runs'[p].tree, runs'[p].checks) \notin owed
    <3>1. ~Thinned  BY <2>2 DEF Thinned
    <3>2. PICK j : AdmitJob(j)  BY <3>1, StepThins
    <3>3. PICK q \in Spawned : runs' = [runs EXCEPT ![q] = RunOf(j)]
      BY <2>2, <3>2, AdmitMoves
    <3>4. runs'[p] = RunOf(j)  BY <2>2, <3>3 DEF RunsOK
    <3>5. runs'[p].tree = j.tree /\ runs'[p].checks = Missing(j.tree, j.asked)
      BY <3>4 DEF RunOf
    <3>6. At("admit") /\ Assessed(j.tree, j.asked) = "build"
      BY <2>2, <3>2, AdmitMoves
    <3>7. ~Waits(BuildKey(j.tree, Missing(j.tree, j.asked)))  BY <3>6 DEF Assessed
    <3> QED  BY <2>1, <3>5, <3>6, <3>7 DEF KnownFailures, Waits, At
  <2>3. ASSUME NEW fails \in BOOLEAN, NEW taken \in BOOLEAN, Pushes(fails, taken)
        PROVE  PushKey(pass.tree, pass.object) \notin owed
    <3>1. At("publish") /\ ~Waits(PushKey(pass.tree, pass.object))  BY <2>3 DEF Pushes
    <3> QED  BY <2>1, <3>1 DEF KnownFailures, Waits, At
  <2> QED  BY <2>2, <2>3
<1>4. Spec => []Inv
  BY RunsInvariance, LineInvariance, PTL
<1> QED  BY <1>1, <1>2, <1>3, <1>4, PTL DEF Spec, RetriesWait
=============================================================================
