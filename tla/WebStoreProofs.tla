--------------------------- MODULE WebStoreProofs ---------------------------
(***************************************************************************)
(* Proofs about the web store, for any projects, exports, authorizations,  *)
(* readers and bounds: nothing in use is deleted, no answer outlives its   *)
(* authorization, and what is served only moves forward.                   *)
(***************************************************************************)
EXTENDS WebStore, TLAPS

-----------------------------------------------------------------------------
(***************************************************************************)
(* The inductive invariant, by parts.                                      *)
(***************************************************************************)

\* The types of the store's and the receiver's state but the repositories.
StoreType ==
    /\ authorization \in Authorization
    /\ highWater \in {0} \cup Sequence /\ current \in {0} \cup Sequence
    /\ made \subseteq Sequence /\ uploads \subseteq Sequence
    /\ up \in BOOLEAN /\ staged \in {0} \cup Sequence /\ open \in {0} \cup Sequence
    /\ op \in Op /\ authOp \in AuthOp
    /\ pruning \in {"no", "running", "returning"}
    /\ acknowledged \in 0..MaxAuthorization
    /\ faults \in 0..MaxFaults

\* A repository, staged or of a generation, is at the tip its export declares.
ReposOK ==
    /\ staging \in [Sequence -> Staged]
    /\ generations \in [Sequence -> [Project -> Nat]]
    /\ \A s \in Sequence, p \in Project :
          /\ staging[s].repos[p] \in {0, Exports[s][p]}
          /\ generations[s][p] \in {0, Exports[s][p]}
          /\ s \notin made => generations[s][p] = 0

\* The commit under way is of a sequence not accepted until Accept, and has a
\* generation from Move on; what is current was accepted and is there.
CommitOK ==
    /\ current <= highWater /\ (current # 0 => current \in made)
    /\ op.pc \in {"named", "build", "move", "accept"} => op.seq > highWater
    /\ op.pc \in {"named", "build", "move", "accept", "swap"} => op.by = "commit"
    /\ op.pc \in {"accept", "swap"} => op.seq \in made
    /\ op.pc = "swap" => op.seq = highWater

\* What an authorization's lock keeps still: the stored one is older than one
\* about to replace it, and what a prune is about to rename stays withdrawn.
LocksOK ==
    /\ authOp.pc = "hold" => authOp.next.seq > authorization.seq
    /\ authOp.pc \in {"hold", "sync"} => authOp.by = "authorize"
    /\ op.pc = "rename" => authOp.by = "prune" /\ op.names \cap authorization.names = {}
    /\ acknowledged <= authorization.seq

\* A request was allowed, holds the generation its view is of, read its tip
\* there, and once it matched is of the authorization stored.
RequestOK(q) ==
    /\ q \in Request
    /\ q.pc \notin {"idle", "writing"} => q.project \in q.auth.names
    /\ q.pc \notin {"idle", "writing", "arrived"} => q.view \in Sequence
    /\ q.pc = "opened" => q.gen \in Sequence
    /\ q.pc = "holding" => q.gen = q.view
    /\ q.pc \in {"rendered", "checking", "matched"} => q.tip \in {0, Exports[q.view][q.project]}
    /\ q.pc = "matched" => q.auth = authorization
RequestsOK == request \in [Reader -> Request] /\ \A r \in Reader : RequestOK(request[r])

StoreInv == StoreType /\ ReposOK /\ CommitOK /\ LocksOK /\ RequestsOK

-----------------------------------------------------------------------------
\* What is free, empty or not begun has its type.
LEMMA Idle ==
  /\ Free \in Op /\ Unlocked \in AuthOp /\ NoRequest \in Request
  /\ NoRepos \in [Project -> Nat] /\ Empty \in Staged
BY BoundsAssumption, ExportsAssumption
   DEF Free, Op, Unlocked, AuthOp, NoAuthorization, Authorization, NoRequest, Request, NoRepos,
       Empty, Staged

\* The end of what holds the activation lock.
LEMMA DoneIs ==
  ASSUME StoreType, Done
  PROVE  op' = Free /\ up' \in BOOLEAN /\ pruning' \in {"no", "running", "returning"}
BY DEF StoreType, Done, GivesBack, Started

\* A repository past the storage cap leaves what a failed call leaves.
LEMMA PastUsageFails ==
  ASSUME NEW p \in Project, PastUsage(p)  PROVE  CommitFails
BY DEF PastUsage, CommitFails, AtOp

\* Sequences are numbers.
LEMMA Numbers ==
  ASSUME StoreType  PROVE  highWater \in Nat /\ current \in Nat /\ op.seq \in Nat
<1>1. \A s \in {0} \cup Sequence : s \in Nat
  BY ExportsAssumption
<1>q. QED
  BY <1>1 DEF StoreType, Op

\* A selection ends, or goes on to the authorization lock.
LEMMA SelectIs ==
  ASSUME StoreType, Select
  PROVE  \/ op' = Free
         \/ op' = [op EXCEPT !.pc = "lock", !.names = Withdrawn] /\ op'.pc = "lock"
<1>1. CASE Done
  BY <1>1, DoneIs
<1>2. CASE op' = [op EXCEPT !.pc = "lock", !.names = Withdrawn]
  BY <1>2 DEF StoreType, Op
<1>q. QED
  BY <1>1, <1>2 DEF Select

\* Every step keeps the types.
LEMMA StoreStep ==
  ASSUME StoreType, CommitOK, [Next]_vars  PROVE  StoreType'
<1> USE BoundsAssumption, NamingAssumption, Idle
    DEF StoreType, Authorization, Op, AuthOp, store, memory
<1>1. ASSUME NEW s \in Sequence, Stage(s)  PROVE StoreType'
  BY <1>1 DEF Stage
<1>2. ASSUME NEW s \in Sequence, StageTooLarge(s)  PROVE StoreType'
  BY <1>2 DEF StageTooLarge, Swept, Faulty, Unused
<1>3. ASSUME NEW s \in Sequence, StageStops(s)  PROVE StoreType'
  BY <1>3 DEF StageStops, Faulty
<1>4. ASSUME NEW s \in Sequence, Commit(s)  PROVE StoreType'
  BY <1>4 DEF Commit, Free
<1>5. ASSUME NEW s \in Sequence, NEW b \in Declared(s) \cup {ExportFile}, StageBody(s, b)
      PROVE StoreType'
  BY <1>5 DEF StageBody
<1>6. CASE Named
  BY <1>6 DEF Named, AtOp
<1>7. ASSUME NEW p \in Project, Build(p)  PROVE StoreType'
  BY <1>7 DEF Build, Wanted, AtOp
<1>8. ASSUME NEW p \in Project, Incomplete(p)  PROVE StoreType'
  BY <1>8 DEF Incomplete, GivesBack, AtOp
<1>9. CASE Discard
  BY <1>9 DEF Discard, Goes, Wanted, AtOp
<1>10. CASE Move
  <2>1. op' \in Op /\ op.seq \in Sequence
    BY <1>10, ExportsAssumption DEF Move, Goes, GivesBack, AtOp, CommitOK
  <2>q. QED
    BY <1>10, <2>1 DEF Move
<1>11. CASE Accept
  BY <1>11 DEF Accept, Goes, AtOp
<1>12. CASE Swap
  BY <1>12 DEF Swap, Goes, AtOp
<1>13. CASE Prune
  BY <1>13 DEF Prune, Free
<1>14. CASE PruneEnds
  BY <1>14 DEF PruneEnds
<1>15. CASE Sweep
  <2>1. op' \in Op
    BY <1>15 DEF Sweep, Goes
  <2>2. faults' \in 0..MaxFaults
    BY <1>15 DEF Sweep, Faulty
  <2>3. made' \subseteq Sequence /\ uploads' \subseteq Sequence
    BY <1>15 DEF Sweep, Swept
  <2>q. QED
    BY <1>15, <2>1, <2>2, <2>3 DEF Sweep
<1>16. CASE Select
  <2>1. CASE Done
    BY <1>16, <2>1, DoneIs DEF Select
  <2>2. CASE op' = [op EXCEPT !.pc = "lock", !.names = Withdrawn] /\ UNCHANGED <<up, pruning>>
    <3>1. Withdrawn \subseteq Project
      BY DEF Withdrawn
    <3>2. op' \in Op
      BY <2>2, <3>1
    <3>3. UNCHANGED <<store, staged, open, authOp, acknowledged, faults>>
      BY <1>16 DEF Select
    <3>q. QED
      BY <2>2, <3>2, <3>3
  <2>q. QED
    BY <1>16, <2>1, <2>2 DEF Select
<1>17. CASE Reselect
  BY <1>17 DEF Reselect, Goes, Unlocked
<1>18. CASE RenameWithdrawn
  BY <1>18, DoneIs DEF RenameWithdrawn, GivesBack
<1>19. CASE FindsItHeld
  BY <1>19, DoneIs DEF FindsItHeld, GivesBack
<1>20. CASE OpenStore
  BY <1>20 DEF OpenStore, Free
<1>21. CASE Recover
  BY <1>21 DEF Recover, Goes, Finishes, AtOp
<1>22. ASSUME NEW a \in Signed, Authorize(a)  PROVE StoreType'
  BY <1>22 DEF Authorize, Signed
<1>23. CASE Replace
  BY <1>23 DEF Replace
<1>24. CASE Acknowledge
  BY <1>24 DEF Acknowledge, Started
<1>25. CASE CommitFails
  BY <1>25 DEF CommitFails, Faulty, GivesBack
<1>26. ASSUME NEW p \in Project, BadBundle(p)  PROVE StoreType'
  BY <1>26 DEF BadBundle, Faulty, GivesBack, Wanted, AtOp
<1>27. CASE PruneTimesOut
  BY <1>27 DEF PruneTimesOut, Faulty
<1>28. CASE AuthorizeFails
  BY <1>28 DEF AuthorizeFails, Faulty
<1>29. CASE Crash \/ Unchecked
  <2>1. op' \in Op /\ authOp' \in AuthOp
    BY <1>29 DEF Crash, Unchecked, Stops
  <2>2. faults' \in 0..MaxFaults
    BY <1>29 DEF Crash, Unchecked, Faulty
  <2>3. up' = FALSE /\ staged' = 0 /\ open' = 0 /\ pruning' = "no"
    BY <1>29 DEF Crash, Unchecked, Stops
  <2>4. UNCHANGED <<authorization, highWater, current, made, uploads, acknowledged>>
    BY <1>29 DEF Crash, Unchecked
  <2>q. QED
    BY <2>1, <2>2, <2>3, <2>4
<1>30. ASSUME NEW r \in Reader, Serve(r)  PROVE StoreType'
  <2>1. CASE Finish(r)
    BY <2>1 DEF Finish
  <2>2. CASE UNCHANGED <<store, memory, acknowledged, faults>>
    BY <2>2
  <2>q. QED
    BY <1>30, <2>1, <2>2
       DEF Serve, Beside, Check, HoldServing, Lock, Read, Render, Resolve, TakeView,
           WriteHeaders
<1>31. CASE UNCHANGED vars
  BY <1>31 DEF vars
<1>q. QED
    BY <1>1, <1>2, <1>3, <1>4, <1>5, <1>6, <1>7, <1>8, <1>9, <1>10, <1>11, <1>12, <1>13,
     <1>14, <1>15, <1>16, <1>17, <1>18, <1>19, <1>20, <1>21, <1>22, <1>23, <1>24, <1>25,
     <1>26, <1>27, <1>28, <1>29, <1>30, <1>31, PastUsageFails
     DEF Next, Upload, Committing, Pruning, Fails

\* Replacing one upload by a well-formed one keeps ReposOK.
LEMMA Restaged ==
  ASSUME ReposOK, NEW s \in Sequence, NEW new \in Staged,
         \A p \in Project : new.repos[p] \in {0, Exports[s][p]},
         staging' = [staging EXCEPT ![s] = new], UNCHANGED <<generations, made>>
  PROVE  ReposOK'
BY DEF ReposOK

\* Every step keeps each repository at the tip its export declares.
LEMMA ReposStep ==
  ASSUME StoreType, CommitOK, ReposOK, [Next]_vars  PROVE  ReposOK'
<1>s. \A s \in Sequence : staging[s] \in Staged /\ Exports[s] \in [Project -> Nat]
  BY ExportsAssumption DEF Sequence, ReposOK
<1>r. \A s \in Sequence : \A p \in Project : staging[s].repos[p] \in {0, Exports[s][p]}
  BY DEF ReposOK
<1>o. op.pc \in {"named", "build", "move"} => op.seq \in Sequence
  BY ExportsAssumption DEF StoreType, CommitOK, Op
<1>e. \A p \in Project : NoRepos[p] = 0 /\ Empty.repos[p] = 0
  BY DEF NoRepos, Empty
<1>b. ASSUME NEW s \in Sequence, NEW bodies \in SUBSET (Project \cup {ExportFile}),
             UNCHANGED <<generations, made>>, staging' = [staging EXCEPT ![s].bodies = bodies]
      PROVE  ReposOK'
  <2> DEFINE new == [staging[s] EXCEPT !.bodies = bodies]
  <2>1. new \in Staged /\ new.repos = staging[s].repos
    BY <1>s DEF Staged
  <2>2. staging' = [staging EXCEPT ![s] = new]
    BY <1>b
  <2>3. \A p \in Project : new.repos[p] \in {0, Exports[s][p]}
    BY <1>r, <2>1
  <2> HIDE DEF new
  <2>q. QED
    BY <1>b, <2>1, <2>2, <2>3, Restaged
<1>c. ASSUME NEW s \in Sequence, NEW repos \in [Project -> Nat], UNCHANGED <<generations, made>>,
                          staging' = [staging EXCEPT ![s].repos = repos], \A p \in Project :
                repos[p] \in {0, Exports[s][p]}
      PROVE  ReposOK'
  <2> DEFINE new == [staging[s] EXCEPT !.repos = repos]
  <2>1. new \in Staged /\ new.repos = repos
    BY <1>s DEF Staged
  <2>2. staging' = [staging EXCEPT ![s] = new]
    BY <1>c
  <2> HIDE DEF new
  <2>q. QED
    BY <1>c, <2>1, <2>2, Restaged
<1>5. CASE Named
  <2> DEFINE repos == [p \in Project |-> IF p \in authorization.names
                                          THEN staging[op.seq].repos[p] ELSE 0]
  <2>0. op.seq \in Sequence
    BY <1>5, <1>o DEF Named, AtOp
  <2>1. staging' = [staging EXCEPT ![op.seq].repos = repos]
    BY <1>5 DEF Named
  <2>2. repos \in [Project -> Nat] /\ \A p \in Project : repos[p] \in {0, Exports[op.seq][p]}
    BY <1>s, <1>r, <2>0 DEF Staged
  <2> HIDE DEF repos
  <2>q. QED
    BY <1>5, <1>c, <2>0, <2>1, <2>2 DEF Named
<1>6. ASSUME NEW p \in Project, Build(p)  PROVE ReposOK'
  <2> DEFINE repos == [staging[op.seq].repos EXCEPT ![p] = Exports[op.seq][p]]
  <2>0. op.seq \in Sequence
    BY <1>6, <1>o DEF Build, AtOp
  <2>1. staging' = [staging EXCEPT ![op.seq].repos = repos]
    BY <1>6 DEF Build
  <2>2. repos \in [Project -> Nat] /\ \A x \in Project : repos[x] \in {0, Exports[op.seq][x]}
    BY <1>s, <1>r, <2>0 DEF Staged
  <2> HIDE DEF repos
  <2>q. QED
    BY <1>6, <1>c, <2>0, <2>1, <2>2 DEF Build
<1>7. CASE Discard \/ \E p \in Project : BadBundle(p)
  <2>0. op.seq \in Sequence /\ UNCHANGED <<generations, made>>
    BY <1>7, <1>o DEF Discard, BadBundle, AtOp
  <2>1. PICK bodies \in SUBSET staging[op.seq].bodies :
            staging' = [staging EXCEPT ![op.seq].bodies = bodies]
    BY <1>7 DEF Discard, BadBundle
  <2>2. bodies \in SUBSET (Project \cup {ExportFile})
    BY <1>s, <2>0 DEF Staged
  <2>q. QED
    BY <1>b, <2>0, <2>1, <2>2
<1>8. ASSUME NEW s \in Sequence, StageStops(s)  PROVE ReposOK'
  <2>1. PICK older \in SUBSET (uploads \ {s}) :
            staging' = [t \in Sequence |-> IF t \in older THEN Empty ELSE staging[t]]
    BY <1>8 DEF StageStops
  <2>q. QED
    BY <1>8, <2>1, <1>e, Idle DEF StageStops, ReposOK
<1>9. CASE Move
  <2>1. PICK s \in Sequence : s = op.seq
    BY <1>9, <1>o DEF Move, AtOp
  <2>2. CASE UNCHANGED <<made, generations, staging>>
    BY <2>2 DEF ReposOK
  <2>3. CASE /\ made' = made \cup {s}
             /\ generations' = [generations EXCEPT ![s] = staging[s].repos]
             /\ staging' = [staging EXCEPT ![s] = Empty]
    <3>1. staging[s].repos \in [Project -> Nat]
      BY <1>s DEF Staged
    <3>2. /\ generations' \in [Sequence -> [Project -> Nat]] 
          /\ staging' \in [Sequence -> Staged]
      BY <2>3, <3>1, Idle DEF ReposOK
    <3>q. QED
      BY <2>3, <3>2, <1>e, <1>r DEF ReposOK
  <2>q. QED
    BY <1>9, <2>1, <2>2, <2>3 DEF Move
<1>10. ASSUME NEW s \in Sequence, Stage(s)  PROVE ReposOK'
  BY <1>10, <1>s, <1>e, <1>o, Idle DEF ReposOK, Stage
<1>11. ASSUME NEW s \in Sequence, StageTooLarge(s)  PROVE ReposOK'
  BY <1>11, <1>s, <1>e, <1>o, Idle DEF ReposOK, StageTooLarge, Swept, Unused
<1>12. ASSUME NEW s \in Sequence, NEW b \in Declared(s) \cup {ExportFile}, StageBody(s, b)
      PROVE ReposOK'
  BY <1>12, <1>s, <1>e, <1>o, Idle DEF ReposOK, StageBody, Staged, Declared
<1>13. CASE Sweep
  BY <1>13, <1>s, <1>e, <1>o, Idle DEF ReposOK, Sweep, Swept, Unused
<1>14. CASE RenameWithdrawn
  BY <1>14, <1>s, <1>e, <1>o, Idle DEF ReposOK, RenameWithdrawn, StoreType
<1>15. CASE UNCHANGED <<staging, generations, made>>
  BY <1>15 DEF ReposOK
<1>q. QED
  BY <1>5, <1>6, <1>7, <1>8, <1>9, <1>10, <1>11, <1>12, <1>13, <1>14, <1>15
     DEF Next, Upload, Committing, Pruning, Fails, Serve, vars, store, memory, Beside, Commit,
         Incomplete, Accept, Swap, Prune, PruneEnds, Select, Reselect, FindsItHeld, OpenStore,
         Recover, Authorize, Replace, Acknowledge, CommitFails, PastUsage, PruneTimesOut,
         AuthorizeFails, Crash, Unchecked, Render, TakeView, Resolve, Lock, Read, HoldServing, Check,
         WriteHeaders, Finish

\* Every step keeps what is current accepted and there.
LEMMA CommitStep ==
  ASSUME StoreType, CommitOK, [Next]_vars  PROVE  CommitOK'
<1> USE ExportsAssumption DEF CommitOK, StoreType, store, memory, Free
<1>n. highWater \in Nat /\ current \in Nat /\ op.seq \in Nat
  BY Numbers
<1>1. ASSUME NEW s \in Sequence, StageTooLarge(s)  PROVE CommitOK'
  BY <1>1, <1>n DEF Op, StageTooLarge, Swept, Unused
<1>2. ASSUME NEW s \in Sequence, Commit(s)  PROVE CommitOK'
  BY <1>2, <1>n DEF Op, Commit
<1>3. CASE Named
  BY <1>3, <1>n DEF Op, Named, AtOp
<1>4. ASSUME NEW p \in Project, Incomplete(p)  PROVE CommitOK'
  BY <1>4, <1>n DEF Op, Incomplete, GivesBack, AtOp
<1>5. CASE Discard
  BY <1>5, <1>n DEF Op, Discard, Goes, AtOp
<1>6. CASE Move
  BY <1>6, <1>n DEF Op, Move, Goes, GivesBack, AtOp
<1>7. CASE Accept
  BY <1>7, <1>n DEF Op, Accept, Goes, AtOp
<1>8. CASE Swap
  BY <1>8, <1>n DEF Op, Swap, Goes, AtOp
<1>9. CASE Prune
  BY <1>9, <1>n DEF Op, Prune
<1>10. CASE Sweep
  BY <1>10, <1>n DEF Op, Sweep, Swept, Goes, Unused
<1>11. CASE Select
  <2>1. UNCHANGED <<highWater, current, made>>
    BY <1>11 DEF Select
  <2>q. QED
    BY <1>11, <1>n, <2>1, SelectIs DEF Op
<1>12. CASE Reselect
  BY <1>12, <1>n DEF Op, Reselect, Goes
<1>13. CASE RenameWithdrawn
  BY <1>13, <1>n DEF Op, RenameWithdrawn, Done, GivesBack
<1>14. CASE FindsItHeld
  BY <1>14, <1>n DEF Op, FindsItHeld, Done, GivesBack
<1>15. CASE OpenStore
  BY <1>15, <1>n DEF Op, OpenStore
<1>16. CASE Recover
  BY <1>16, <1>n DEF Op, Recover, Goes, Finishes, AtOp
<1>17. CASE CommitFails
  BY <1>17, <1>n DEF Op, CommitFails, GivesBack
<1>18. ASSUME NEW p \in Project, BadBundle(p)  PROVE CommitOK'
  BY <1>18, <1>n DEF Op, BadBundle, GivesBack, AtOp
<1>19. CASE Crash
  BY <1>19, <1>n DEF Op, Crash, Stops
<1>20. CASE Unchecked
  BY <1>20, <1>n DEF Op, Unchecked, Stops, AtOp
<1>21. CASE UNCHANGED <<op, highWater, current, made>>
  BY <1>21
<1>q. QED
    BY <1>1, <1>2, <1>3, <1>4, <1>5, <1>6, <1>7, <1>8, <1>9, <1>10, <1>11, <1>12, <1>13,
     <1>14, <1>15, <1>16, <1>17, <1>18, <1>19, <1>20, <1>21, PastUsageFails
     DEF Next, Upload, Committing, Pruning, Fails, Serve, vars, Beside, Stage, StageStops,
         StageBody, Build, PruneEnds, Authorize, Replace, Acknowledge, PruneTimesOut,
         AuthorizeFails, Render, TakeView, Resolve, Lock, Read, HoldServing, Check,
         WriteHeaders, Finish

\* Every step keeps what the authorization lock keeps still.
LEMMA LocksStep ==
  ASSUME StoreType, LocksOK, [Next]_vars  PROVE  LocksOK'
<1> USE DEF LocksOK, StoreType, store, memory, Free, Unlocked
<1>n. authorization.seq \in Nat /\ acknowledged \in Nat
  BY BoundsAssumption DEF Authorization
<1>1. CASE Reselect
  BY <1>1, <1>n DEF Op, AuthOp, Authorization, Reselect, Goes
<1>2. CASE RenameWithdrawn
  BY <1>2, <1>n DEF Op, AuthOp, Authorization, RenameWithdrawn, Done, GivesBack
<1>3. CASE FindsItHeld
  BY <1>3, <1>n DEF Op, AuthOp, Authorization, FindsItHeld, Done, GivesBack
<1>4. ASSUME NEW a \in Signed, Authorize(a)  PROVE LocksOK'
  BY <1>4, <1>n DEF Op, AuthOp, Authorization, Authorize, Signed
<1>5. CASE Replace
  BY <1>5, <1>n DEF Op, AuthOp, Authorization, Replace
<1>6. CASE Acknowledge
  BY <1>6, <1>n DEF Op, AuthOp, Authorization, Acknowledge
<1>7. CASE AuthorizeFails
  BY <1>7, <1>n DEF Op, AuthOp, Authorization, AuthorizeFails
<1>8. CASE Crash
  BY <1>8, <1>n DEF Op, AuthOp, Authorization, Crash, Stops
<1>9. CASE Unchecked
  BY <1>9, <1>n DEF Op, AuthOp, Authorization, Unchecked, Stops, AtOp
<1>10. CASE UNCHANGED <<authOp, authorization, acknowledged>> /\ (op' = op \/ op'.pc # "rename")
  BY <1>10
<1>11. ASSUME NEW s \in Sequence, Commit(s)  PROVE LocksOK'
  BY <1>11, <1>10 DEF Op, Commit
<1>12. CASE Named
  BY <1>12, <1>10 DEF Op, Named, AtOp
<1>13. ASSUME NEW p \in Project, Incomplete(p)  PROVE LocksOK'
  BY <1>13, <1>10 DEF Op, Incomplete, GivesBack, AtOp
<1>14. CASE Discard
  BY <1>14, <1>10 DEF Op, Discard, Goes, AtOp
<1>15. CASE Move
  BY <1>15, <1>10 DEF Op, Move, Goes, GivesBack, AtOp
<1>16. CASE Accept
  BY <1>16, <1>10 DEF Op, Accept, Goes, AtOp
<1>17. CASE Swap
  BY <1>17, <1>10 DEF Op, Swap, Goes, AtOp
<1>18. CASE Prune
  BY <1>18, <1>10 DEF Op, Prune
<1>19. CASE Sweep
  BY <1>19, <1>10 DEF Op, Sweep, Goes
<1>20. CASE Select
  BY <1>20, <1>10, SelectIs DEF Select
<1>21. CASE OpenStore
  BY <1>21, <1>10 DEF Op, OpenStore
<1>22. CASE Recover
  BY <1>22, <1>10 DEF Op, Recover, Goes, AtOp
<1>23. CASE CommitFails
  BY <1>23, <1>10 DEF Op, CommitFails, GivesBack
<1>24. ASSUME NEW p \in Project, BadBundle(p)  PROVE LocksOK'
  BY <1>24, <1>10 DEF Op, BadBundle, GivesBack, AtOp
<1>q. QED
    BY <1>1, <1>2, <1>3, <1>4, <1>5, <1>6, <1>7, <1>8, <1>9, <1>10, <1>11, <1>12, <1>13,
     <1>14, <1>15, <1>16, <1>17, <1>18, <1>19, <1>20, <1>21, <1>22, <1>23, <1>24, PastUsageFails
     DEF Next, Upload, Committing, Pruning, Fails, Serve, vars, Beside, Stage, StageTooLarge,
         StageStops, StageBody, Build, PruneEnds, PruneTimesOut, Render, TakeView, Resolve,
         Lock, Read, HoldServing, Check, WriteHeaders, Finish

\* Every step keeps what a request knows.
LEMMA RequestsStep ==
  ASSUME StoreType, ReposOK, CommitOK, LocksOK, RequestsOK, [Next]_vars  PROVE  RequestsOK'
<1>0. RequestOK(NoRequest) /\ RequestOK(NoRequest)'
  BY Idle DEF RequestOK, NoRequest
<1>2. ASSUME NEW r \in Reader, NEW step, RequestOK(step), Turns(r, step), UNCHANGED authorization
      PROVE  RequestsOK'
  BY <1>2 DEF Turns, RequestsOK, RequestOK
<1>3. ASSUME NEW r \in Reader, Serve(r)  PROVE RequestsOK'
  <2>0. RequestOK(request[r]) /\ UNCHANGED authorization
    BY <1>3
       DEF RequestsOK, Serve, Beside, store, Finish, Check, HoldServing, Lock, Read, Render,
           Resolve, TakeView, WriteHeaders
  <2> USE <2>0, <1>2
  <2>1. ASSUME NEW p \in Project, Render(r, p)  PROVE RequestsOK'
    <3> DEFINE step == [NoRequest EXCEPT !.pc = "arrived", !.project = p, !.auth = authorization]
    <3>1. step \in Request
      BY Idle DEF StoreType, Request
    <3>2. RequestOK(step)
      BY <2>1, <3>1 DEF Render, RequestOK, NoRequest
    <3> HIDE DEF step
    <3>q. QED
      BY <2>1, <3>2 DEF Render, step
  <2>2. CASE TakeView(r)
    <3> DEFINE step == [request[r] EXCEPT !.pc = "viewed", !.view = current]
    <3>1. request[r] \in Request /\ request[r].pc = "arrived" /\ current \in Sequence
          /\ request[r].project \in request[r].auth.names
      BY <2>2 DEF TakeView, At, RequestOK, StoreType
    <3>2. step \in Request
      BY <3>1 DEF Request
    <3>3. RequestOK(step)
      BY <3>1, <3>2 DEF RequestOK, Request
    <3> HIDE DEF step
    <3>q. QED
      BY <2>2, <3>3 DEF TakeView, step
  <2>3. CASE Resolve(r)
    BY <2>3, <1>0, Idle, ExportsAssumption, BoundsAssumption
       DEF Resolve, At, RequestOK, Request, StoreType, CommitOK
  <2>4. CASE Lock(r)
    BY <2>4, <1>0, Idle, ExportsAssumption, BoundsAssumption DEF Lock, At, RequestOK, Request
  <2>5. CASE Read(r)
    <3> DEFINE q == request[r]  tip == generations[q.gen][q.project]
    <3>1. /\ q.view \in Sequence /\ q.gen = q.view /\ q \in Request
          /\ q.project \in q.auth.names /\ q.auth.names \subseteq Project
      BY <2>5 DEF Read, At, RequestOK, Request, Authorization
    <3>2. tip \in Nat /\ tip \in {0, Exports[q.view][q.project]}
      BY <3>1 DEF ReposOK
    <3> HIDE DEF tip
    <3>3. RequestOK([q EXCEPT !.pc = "rendered", !.gen = 0, !.tip = tip])
      BY <3>1, <3>2 DEF RequestOK, Request
    <3>q. QED
      BY <2>5, <3>3 DEF Read, tip
  <2>6. CASE HoldServing(r)
    BY <2>6, <1>0, Idle, ExportsAssumption, BoundsAssumption
       DEF HoldServing, At, RequestOK, Request
  <2>7. CASE Check(r)
    BY <2>7, <1>0, Idle, ExportsAssumption, BoundsAssumption DEF Check, At, RequestOK, Request
  <2>8. CASE WriteHeaders(r)
    BY <2>8, <1>0, Idle, ExportsAssumption, BoundsAssumption
       DEF WriteHeaders, At, RequestOK, Request, NoRequest, NoAuthorization
  <2>9. CASE Finish(r)
    BY <2>9, <1>0, Idle, ExportsAssumption, BoundsAssumption DEF Finish, At, RequestOK, Request
  <2>q. QED
    BY <1>3, <2>1, <2>2, <2>3, <2>4, <2>5, <2>6, <2>7, <2>8, <2>9 DEF Serve
<1>4. CASE UNCHANGED <<request, authorization>>
  BY <1>4 DEF RequestsOK, RequestOK
<1>5. CASE Replace
  BY <1>5 DEF Replace, Serving, RequestsOK, RequestOK
<1>q. QED
  BY <1>3, <1>4, <1>5
    
     DEF Next, vars, store, memory, Upload, Committing, Pruning, Fails, Swept, Stage,
         StageTooLarge, StageStops, Commit, StageBody, Named, Build, Incomplete, Discard,
         Move, Accept, Swap, Prune, PruneEnds, Sweep, Select, Reselect, RenameWithdrawn,
         FindsItHeld, OpenStore, Recover, Authorize, Acknowledge, CommitFails, PastUsage, BadBundle,
         PruneTimesOut, AuthorizeFails, Crash, Unchecked

\* It holds at first.
LEMMA StoreInvInit ==
  Init => StoreInv
<1> SUFFICES ASSUME Init  PROVE StoreInv
  OBVIOUS
<1>1. StoreType
  BY BoundsAssumption, Idle DEF Init, StoreType, NoAuthorization, Authorization
<1>2. ReposOK
  BY Idle DEF Init, ReposOK, Empty, NoRepos
<1>3. CommitOK
  BY DEF Init, CommitOK, Free
<1>4. LocksOK
  BY DEF Init, LocksOK, Free, Unlocked, NoAuthorization
<1>5. RequestsOK
  <2>1. RequestOK(NoRequest)
    BY Idle DEF RequestOK, NoRequest
  <2>q. QED
    BY <2>1, Idle DEF Init, RequestsOK
<1>q. QED
  BY <1>1, <1>2, <1>3, <1>4, <1>5 DEF StoreInv

\* The parts together are inductive.
LEMMA StoreInvAlways ==
  Spec => []StoreInv
<1>1. StoreInv /\ [Next]_vars => StoreInv'
  BY StoreStep, ReposStep, CommitStep, LocksStep, RequestsStep DEF StoreInv
<1>q. QED
  BY StoreInvInit, <1>1, PTL DEF Spec

\* Every variable of the store, the receiver and the server keeps its type.
THEOREM StoreTyped ==
  Spec => []TypeOK
<1>1. StoreInv => TypeOK
  BY DEF StoreInv, StoreType, ReposOK, RequestsOK, RequestOK, TypeOK
<1>q. QED
  BY StoreInvAlways, <1>1, PTL

-----------------------------------------------------------------------------
(***************************************************************************)
(* What follows.                                                           *)
(***************************************************************************)

\* Nothing a reader holds or the authorization names is deleted: a generation
\* is swept, and a repository renamed away, under the locks that keep both
\* out.
THEOREM NothingInUseIsDeleted ==
  Spec => KeptInUse
<1>1. ASSUME StoreInv, [Next]_vars  PROVE KeepsInUse
  <2> USE <1>1 DEF StoreInv
  <2>1. CASE UNCHANGED <<generations, made>>
    BY <2>1 DEF KeepsInUse
  <2>2. CASE Move
    BY <2>2 DEF KeepsInUse, Move, ReposOK
  <2>3. ASSUME NEW gone \in SUBSET Unused, Swept(gone)  PROVE KeepsInUse
    BY <2>3 DEF KeepsInUse, Swept, Unused
  <2>4. CASE RenameWithdrawn
    <3>1. op.names \cap authorization.names = {}
      BY <2>4 DEF RenameWithdrawn, LocksOK
    <3>2. \A s \in Sequence, p \in Project :
             generations'[s][p] # generations[s][p] => s = current /\ p \in op.names
      BY <2>4 DEF RenameWithdrawn, ReposOK
    <3>q. QED
      BY <2>4, <3>1, <3>2 DEF KeepsInUse, RenameWithdrawn
  <2>q. QED
    BY <2>1, <2>2, <2>3, <2>4
      
       DEF Sweep, StageTooLarge, Next, Upload, Committing, Pruning, Fails, Serve, vars, store,
           memory, Beside,
                      Stage, StageStops, Commit, StageBody, Named, Build, Incomplete, Discard,
              Accept, Swap, Prune, PruneEnds, Select, Reselect, FindsItHeld, OpenStore,
              Recover, Authorize, Replace, Acknowledge, CommitFails, PastUsage, BadBundle,
              PruneTimesOut, AuthorizeFails, Crash, Unchecked, Render, TakeView, Resolve, Lock, Read,
              HoldServing, Check, WriteHeaders, Finish
<1>q. QED
  BY StoreInvAlways, <1>1, PTL DEF Spec, KeptInUse

\* A response is one the authorization stored when its headers are written
\* allows, so one no older than the last acknowledged, and of one generation.
THEOREM AnswersAreHeld ==
  Spec => AnswersHeld
<1>1. ASSUME StoreInv, [Next]_vars  PROVE HoldsAnswers
  BY <1>1 DEF StoreInv, HoldsAnswers, LocksOK, RequestsOK, RequestOK, At
<1>q. QED
  BY StoreInvAlways, <1>1, PTL DEF Spec, AnswersHeld

\* What is served never moves back, and is always there, over crashes and
\* failures between any two steps of a commit and of a recovery.
THEOREM ServingMovesForward ==
  Spec => ServesForward
<1>1. ASSUME StoreInv, [Next]_vars  PROVE MovesForward
  <2>1. highWater \in Nat /\ current \in Nat /\ op.seq \in Nat
    BY <1>1, Numbers DEF StoreInv
  <2>2. CommitOK'
    BY <1>1, CommitStep DEF StoreInv
  <2>3. CASE UNCHANGED <<highWater, current>>
    BY <1>1, <2>1, <2>2, <2>3 DEF MovesForward, CommitOK
  <2>4. CASE Accept \/ Swap \/ Recover
    BY <1>1, <2>1, <2>2, <2>4
       DEF MovesForward, StoreInv, CommitOK, Accept, Swap, Recover, AtOp, Finishes
  <2>q. QED
    BY <1>1, <2>3, <2>4
       DEF Next, Upload, Committing, Pruning, Fails, Serve, vars, store, memory, Beside,
           Stage, StageTooLarge, StageStops, Commit, StageBody, Named, Build, Incomplete,
           Discard, Move, Prune, PruneEnds, Sweep, Select, Reselect, RenameWithdrawn,
           FindsItHeld, OpenStore, Authorize, Replace, Acknowledge, CommitFails, PastUsage,
           BadBundle, PruneTimesOut, AuthorizeFails, Crash, Unchecked, Render, TakeView, Resolve, Lock,
           Read, HoldServing, Check, WriteHeaders, Finish
<1>q. QED
  BY StoreInvAlways, <1>1, PTL DEF Spec, ServesForward
=============================================================================
