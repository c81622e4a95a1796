--------------------------- MODULE WakeLoopProofs ---------------------------
(***************************************************************************)
(* Proofs about the wake loop, for any writers and any bounds.             *)
(***************************************************************************)
EXTENDS WakeLoop, FiniteSetTheorems, TLAPS

\* Where a pass is about to read every ref.
BeforeReading == pc \in {"start", "claim", "read"}

\* What the counters have come to, against the moves there were.
Counted ==
    /\ seen <= tip /\ reading <= tip /\ promised <= tip
    /\ \A w \in Writer : writer[w] <= tip
    /\ pc = "judge" => seen <= reading

\* When the loop's variables go together: a watch that is not there was
\* said to have failed, earliest lies ahead only after a failed pass, and a
\* loop that waits owes no pass for a watch that came back.
Ordered ==
    /\ watch = 0 => pc = "start" \/ failure
    /\ hold => failed
    /\ pc = "select" /\ ~failed => ~restored

\* Of a mark that no pass has read, the due is still there, or the pass that
\* will read it is on its way.
MarkStands ==
    /\ promised > seen /\ watch = path /\ watch # 0 /\ claimed /\ (~failed \/ pc = "judge")
    => \/ BeforeReading
       \/ pc = "judge" /\ promised <= reading
       \/ watch \in due \/ restored

\* Of a due that a loop waits beside, word is on its way.
DueIsTold ==
    pc = "select" /\ watch = path /\ watch # 0 /\ watch \in due /\ claimed /\ ~failed
        => note \/ ended \/ queued # {}

\* A due that may start a pass has started none yet.
DueIsFresh ==
    /\ woken <= dues
    /\ pc \notin {"start", "claim"} /\ claimed /\ watch # 0 /\ watch \in due /\ ~restored
       => woken < dues

\* What the loop keeps to, step by step.
WakeInv == TypeOK /\ Counted /\ Ordered /\ MarkStands /\ DueIsTold /\ DueIsFresh

\* What may still happen is bounded.
Bounded == landings \in 0..MaxLandings /\ errors \in 0..MaxErrors /\ breaks \in 0..MaxBreaks

-----------------------------------------------------------------------------
\* The types hold the bounds.
LEMMA TypesBound == TypeOK => Bounded
  BY DEF TypeOK, Bounded

\* Arming the watch spends a failure or none (arm).
LEMMA ArmSpends == Arm => breaks' = breaks \/ (breaks > 0 /\ breaks' = breaks - 1)
  BY DEF Arm

\* A loop about to start has the types and owes nothing (run, before its first pass).
LEMMA InitWakeInv == Init => WakeInv
<1> SUFFICES ASSUME Init PROVE WakeInv
  OBVIOUS
<1>1. IsFiniteSet(due) /\ Cardinality(due) \in Nat
  <2>1. IsFiniteSet(1..path)
    BY FS_Interval DEF Init
  <2>2. due \subseteq 1..path
    BY DEF Init
  <2> QED BY <2>1, <2>2, FS_Subset, FS_CardinalityType
<1>2. TypeOK
  <2>1. made \in Nat /\ path \in 0..made /\ due \subseteq 1..made
    BY DEF Init
  <2>2. landings \in 0..MaxLandings /\ errors \in 0..MaxErrors /\ breaks \in 0..MaxBreaks
    BY ConstantsAssumption DEF Init
  <2>3. tip \in Nat /\ writer \in [Writer -> Nat] /\ watch \in 0..made
    BY <2>1 DEF Init
  <2> QED BY <1>1, <2>1, <2>2, <2>3 DEF Init, TypeOK
<1>3. Counted /\ Ordered /\ MarkStands /\ DueIsTold /\ DueIsFresh
  BY <1>1 DEF Init, Counted, Ordered, MarkStands, DueIsTold, DueIsFresh, BeforeReading
<1> QED BY <1>2, <1>3 DEF WakeInv

\* Every step keeps the counters of what may still happen within their bounds.
LEMMA NextBounded == Bounded /\ [Next]_vars => Bounded'
<1> SUFFICES ASSUME Bounded, [Next]_vars PROVE Bounded'
  OBVIOUS
<1> USE ConstantsAssumption DEF Bounded, disk, inotify, pass, bounds, counts
<1>1. CASE Start
  BY <1>1, ArmSpends DEF Start
<1>2. CASE Claim
  BY <1>2 DEF Claim
<1>3. CASE ReadRefs
  BY <1>3 DEF ReadRefs
<1>4. CASE PassFails
  BY <1>4 DEF PassFails
<1>5. CASE PassLands
  BY <1>5 DEF PassLands
<1>6. CASE PassEnds
  BY <1>6 DEF PassEnds
<1>7. CASE TimerPass
  BY <1>7 DEF TimerPass
<1>8. CASE Rearm
  BY <1>8, ArmSpends DEF Rearm
<1>9. CASE WatcherPass
  BY <1>9 DEF WatcherPass, Checking
<1>10. CASE DuePass
  BY <1>10 DEF DuePass, Checking, Heeded
<1>11. CASE Sleep
  BY <1>11 DEF Sleep, Checking, Heeded
<1>12. CASE Notified
  BY <1>12 DEF Notified
<1>13. CASE WatchEnds
  BY <1>13 DEF WatchEnds, Drop
<1>14. CASE DeadlinePasses
  BY <1>14 DEF DeadlinePasses, Awoken
<1>15. CASE Crash
  BY <1>15 DEF Crash
<1>16. CASE ReadEvent
  BY <1>16 DEF ReadEvent
<1>17. CASE Overflow
  BY <1>17 DEF Overflow
<1>18. CASE WatchBreaks
  BY <1>18 DEF WatchBreaks
<1>19. CASE HoldEnds
  BY <1>19 DEF HoldEnds
<1>20. CASE Ring
  BY <1>20 DEF Ring
<1>21. CASE RetryComes
  BY <1>21 DEF RetryComes
<1>22. ASSUME NEW w \in Writer, MoveRef(w) PROVE Bounded'
  BY <1>22 DEF MoveRef
<1>23. ASSUME NEW w \in Writer, Mark(w) PROVE Bounded'
  BY <1>23 DEF Mark, Latest
<1>24. ASSUME NEW w \in Writer, MarkFails(w) PROVE Bounded'
  BY <1>24 DEF MarkFails
<1>25. CASE Replace
  BY <1>25 DEF Replace
<1>26. CASE Make
  BY <1>26 DEF Make
<1>27. CASE UNCHANGED vars
  BY <1>27 DEF vars
<1> QED BY <1>1, <1>2, <1>3, <1>4, <1>5, <1>6, <1>7, <1>8, <1>9, <1>10, <1>11, <1>12,
      <1>13, <1>14, <1>15, <1>16, <1>17, <1>18, <1>19, <1>20, <1>21, <1>22, <1>23,
      <1>24, <1>25, <1>26, <1>27 DEF Next, Loop

\* Every step of the loop, its watch, its writers and its directory keeps the types.
LEMMA NextTypeOK == TypeOK /\ Bounded' /\ [Next]_vars => TypeOK'
<1> SUFFICES ASSUME TypeOK, Bounded', [Next]_vars PROVE TypeOK'
  OBVIOUS
<1> USE DEF TypeOK, Bounded, disk, inotify, pass, bounds, counts
<1>1. CASE Start
  <2>1. tip' \in Nat /\ writer' \in [Writer -> Nat] /\ made' \in Nat
    BY <1>1 DEF Start, Arm, Watched, Drop
  <2>2. path' \in 0..made' /\ due' \subseteq 1..made'
    BY <1>1 DEF Start, Arm, Watched, Drop
  <2>3. watch' \in 0..made' /\ queued' \subseteq {"due", "gone"}
    BY <1>1 DEF Start, Arm, Watched, Drop
  <2>4. note' \in BOOLEAN /\ ended' \in BOOLEAN /\ failure' \in BOOLEAN /\ restored' \in BOOLEAN
    BY <1>1 DEF Start, Arm, Watched, Drop
  <2>5. pc' \in {"start", "claim", "read", "judge", "look", "check", "select"}
    BY <1>1 DEF Start, Arm, Watched, Drop
  <2>6. reading' \in Nat /\ seen' \in Nat /\ promised' \in Nat /\ dues' \in Nat /\ woken' \in Nat
    BY <1>1 DEF Start, Arm, Watched, Drop
  <2>7. claimed' \in BOOLEAN /\ hold' \in BOOLEAN /\ rung' \in BOOLEAN /\ retry' \in BOOLEAN /\ failed' \in BOOLEAN
    BY <1>1 DEF Start, Arm, Watched, Drop
  <2> QED BY <2>1, <2>2, <2>3, <2>4, <2>5, <2>6, <2>7
<1>2. CASE Claim
  BY <1>2 DEF Claim
<1>3. CASE ReadRefs
  BY <1>3 DEF ReadRefs
<1>4. CASE PassFails
  BY <1>4 DEF PassFails
<1>5. CASE PassLands
  <2>1. tip' \in Nat /\ writer' \in [Writer -> Nat] /\ made' \in Nat
    BY <1>5 DEF PassLands
  <2>2. path' \in 0..made' /\ due' \subseteq 1..made'
    BY <1>5 DEF PassLands
  <2>3. watch' \in 0..made' /\ queued' \subseteq {"due", "gone"}
    BY <1>5 DEF PassLands
  <2>4. note' \in BOOLEAN /\ ended' \in BOOLEAN /\ failure' \in BOOLEAN /\ restored' \in BOOLEAN
    BY <1>5 DEF PassLands
  <2>5. pc' \in {"start", "claim", "read", "judge", "look", "check", "select"}
    BY <1>5 DEF PassLands
  <2>6. reading' \in Nat /\ seen' \in Nat /\ promised' \in Nat /\ dues' \in Nat /\ woken' \in Nat
    BY <1>5 DEF PassLands
  <2>7. claimed' \in BOOLEAN /\ hold' \in BOOLEAN /\ rung' \in BOOLEAN /\ retry' \in BOOLEAN /\ failed' \in BOOLEAN
    BY <1>5 DEF PassLands
  <2> QED BY <2>1, <2>2, <2>3, <2>4, <2>5, <2>6, <2>7
<1>6. CASE PassEnds
  BY <1>6 DEF PassEnds
<1>7. CASE TimerPass
  BY <1>7 DEF TimerPass
<1>8. CASE Rearm
  BY <1>8 DEF Rearm, Arm, Watched, Drop
<1>9. CASE WatcherPass
  BY <1>9 DEF WatcherPass, Checking
<1>10. CASE DuePass
  BY <1>10 DEF DuePass, Checking, Heeded
<1>11. CASE Sleep
  BY <1>11 DEF Sleep, Checking, Heeded
<1>12. CASE Notified
  BY <1>12 DEF Notified
<1>13. CASE WatchEnds
  <2>1. tip' \in Nat /\ writer' \in [Writer -> Nat] /\ made' \in Nat
    BY <1>13 DEF WatchEnds, Drop
  <2>2. path' \in 0..made' /\ due' \subseteq 1..made'
    BY <1>13 DEF WatchEnds, Drop
  <2>3. watch' \in 0..made' /\ queued' \subseteq {"due", "gone"}
    BY <1>13 DEF WatchEnds, Drop
  <2>4. note' \in BOOLEAN /\ ended' \in BOOLEAN /\ failure' \in BOOLEAN /\ restored' \in BOOLEAN
    BY <1>13 DEF WatchEnds, Drop
  <2>5. pc' \in {"start", "claim", "read", "judge", "look", "check", "select"}
    BY <1>13 DEF WatchEnds, Drop
  <2>6. reading' \in Nat /\ seen' \in Nat /\ promised' \in Nat /\ dues' \in Nat /\ woken' \in Nat
    BY <1>13 DEF WatchEnds, Drop
  <2>7. claimed' \in BOOLEAN /\ hold' \in BOOLEAN /\ rung' \in BOOLEAN /\ retry' \in BOOLEAN /\ failed' \in BOOLEAN
    BY <1>13 DEF WatchEnds, Drop
  <2> QED BY <2>1, <2>2, <2>3, <2>4, <2>5, <2>6, <2>7
<1>14. CASE DeadlinePasses
  BY <1>14 DEF DeadlinePasses, Awoken
<1>15. CASE Crash
  <2>1. tip' \in Nat /\ writer' \in [Writer -> Nat] /\ made' \in Nat
    BY <1>15 DEF Crash
  <2>2. path' \in 0..made' /\ due' \subseteq 1..made'
    BY <1>15 DEF Crash
  <2>3. watch' \in 0..made' /\ queued' \subseteq {"due", "gone"}
    BY <1>15 DEF Crash
  <2>4. note' \in BOOLEAN /\ ended' \in BOOLEAN /\ failure' \in BOOLEAN /\ restored' \in BOOLEAN
    BY <1>15 DEF Crash
  <2>5. pc' \in {"start", "claim", "read", "judge", "look", "check", "select"}
    BY <1>15 DEF Crash
  <2>6. reading' \in Nat /\ seen' \in Nat /\ promised' \in Nat /\ dues' \in Nat /\ woken' \in Nat
    BY <1>15 DEF Crash
  <2>7. claimed' \in BOOLEAN /\ hold' \in BOOLEAN /\ rung' \in BOOLEAN /\ retry' \in BOOLEAN /\ failed' \in BOOLEAN
    BY <1>15 DEF Crash
  <2> QED BY <2>1, <2>2, <2>3, <2>4, <2>5, <2>6, <2>7
<1>16. CASE ReadEvent
  <2>1. queued' \subseteq {"due", "gone"} /\ note' \in BOOLEAN /\ ended' \in BOOLEAN
    BY <1>16 DEF ReadEvent
  <2>2. UNCHANGED <<tip, writer, disk, watch, failure, restored, pc, pass, retry, bounds, counts>>
    BY <1>16 DEF ReadEvent
  <2> QED BY <2>1, <2>2
<1>17. CASE Overflow
  BY <1>17 DEF Overflow
<1>18. CASE WatchBreaks
  BY <1>18 DEF WatchBreaks
<1>19. CASE HoldEnds
  BY <1>19 DEF HoldEnds
<1>20. CASE Ring
  BY <1>20 DEF Ring
<1>21. CASE RetryComes
  BY <1>21 DEF RetryComes
<1>22. ASSUME NEW w \in Writer, MoveRef(w) PROVE TypeOK'
  BY <1>22 DEF MoveRef
<1>23. ASSUME NEW w \in Writer, Mark(w) PROVE TypeOK'
  <2>1. tip' \in Nat /\ writer' \in [Writer -> Nat] /\ made' \in Nat
    BY <1>23 DEF Mark, Latest
  <2>2. path' \in 0..made' /\ due' \subseteq 1..made'
    <3>1. path \in 1..made /\ path' = path /\ made' = made
      BY <1>23 DEF Mark, Latest
    <3>2. due' = due \/ due' = due \cup {path}
      BY <1>23 DEF Mark, Latest
    <3> QED BY <3>1, <3>2
  <2>3. watch' \in 0..made' /\ queued' \subseteq {"due", "gone"}
    BY <1>23 DEF Mark, Latest
  <2>4. note' \in BOOLEAN /\ ended' \in BOOLEAN /\ failure' \in BOOLEAN /\ restored' \in BOOLEAN
    BY <1>23 DEF Mark, Latest
  <2>5. pc' \in {"start", "claim", "read", "judge", "look", "check", "select"}
    BY <1>23 DEF Mark, Latest
  <2>6. reading' \in Nat /\ seen' \in Nat /\ promised' \in Nat /\ dues' \in Nat /\ woken' \in Nat
    BY <1>23 DEF Mark, Latest
  <2>7. claimed' \in BOOLEAN /\ hold' \in BOOLEAN /\ rung' \in BOOLEAN /\ retry' \in BOOLEAN /\ failed' \in BOOLEAN
    BY <1>23 DEF Mark, Latest
  <2> QED BY <2>1, <2>2, <2>3, <2>4, <2>5, <2>6, <2>7
<1>24. ASSUME NEW w \in Writer, MarkFails(w) PROVE TypeOK'
  BY <1>24 DEF MarkFails
<1>25. CASE Replace
  BY <1>25 DEF Replace
<1>26. CASE Make
  BY <1>26 DEF Make
<1>27. CASE UNCHANGED vars
  BY <1>27 DEF vars
<1> QED BY <1>1, <1>2, <1>3, <1>4, <1>5, <1>6, <1>7, <1>8, <1>9, <1>10, <1>11, <1>12,
      <1>13, <1>14, <1>15, <1>16, <1>17, <1>18, <1>19, <1>20, <1>21, <1>22, <1>23,
      <1>24, <1>25, <1>26, <1>27 DEF Next, Loop

\* Every step keeps what was read and marked within the moves there were: a pass
\* reads the refs as they are (reconcile), and a writer marks its own move (markDue).
LEMMA NextCounted == TypeOK /\ Counted /\ [Next]_vars => Counted'
<1> SUFFICES ASSUME TypeOK, Counted, [Next]_vars PROVE Counted'
  OBVIOUS
<1> USE DEF TypeOK, Counted, disk, inotify, pass, bounds, counts
<1>1. CASE Start
  BY <1>1 DEF Start, Arm, Watched, Drop
<1>2. CASE Claim
  BY <1>2 DEF Claim
<1>3. CASE ReadRefs
  BY <1>3 DEF ReadRefs
<1>4. CASE PassFails
  BY <1>4 DEF PassFails
<1>5. CASE PassLands
  BY <1>5 DEF PassLands
<1>6. CASE PassEnds
  BY <1>6 DEF PassEnds
<1>7. CASE TimerPass
  BY <1>7 DEF TimerPass
<1>8. CASE Rearm
  BY <1>8 DEF Rearm, Arm, Watched, Drop
<1>9. CASE WatcherPass
  BY <1>9 DEF WatcherPass, Checking
<1>10. CASE DuePass
  BY <1>10 DEF DuePass, Checking, Heeded
<1>11. CASE Sleep
  BY <1>11 DEF Sleep, Checking, Heeded
<1>12. CASE Notified
  BY <1>12 DEF Notified
<1>13. CASE WatchEnds
  BY <1>13 DEF WatchEnds, Drop
<1>14. CASE DeadlinePasses
  BY <1>14 DEF DeadlinePasses, Awoken
<1>15. CASE Crash
  BY <1>15 DEF Crash
<1>16. CASE ReadEvent
  BY <1>16 DEF ReadEvent
<1>17. CASE Overflow
  BY <1>17 DEF Overflow
<1>18. CASE WatchBreaks
  BY <1>18 DEF WatchBreaks
<1>19. CASE HoldEnds
  BY <1>19 DEF HoldEnds
<1>20. CASE Ring
  BY <1>20 DEF Ring
<1>21. CASE RetryComes
  BY <1>21 DEF RetryComes
<1>22. ASSUME NEW w \in Writer, MoveRef(w) PROVE Counted'
  BY <1>22 DEF MoveRef
<1>23. ASSUME NEW w \in Writer, Mark(w) PROVE Counted'
  BY <1>23 DEF Mark, Latest
<1>24. ASSUME NEW w \in Writer, MarkFails(w) PROVE Counted'
  BY <1>24 DEF MarkFails
<1>25. CASE Replace
  BY <1>25 DEF Replace
<1>26. CASE Make
  BY <1>26 DEF Make
<1>27. CASE UNCHANGED vars
  BY <1>27 DEF vars
<1> QED BY <1>1, <1>2, <1>3, <1>4, <1>5, <1>6, <1>7, <1>8, <1>9, <1>10, <1>11, <1>12,
      <1>13, <1>14, <1>15, <1>16, <1>17, <1>18, <1>19, <1>20, <1>21, <1>22, <1>23,
      <1>24, <1>25, <1>26, <1>27 DEF Next, Loop

\* Every step keeps the loop's variables in order: arm, fail and wait set them
\* together.
LEMMA NextOrdered == TypeOK /\ Ordered /\ [Next]_vars => Ordered'
<1> SUFFICES ASSUME TypeOK, Ordered, [Next]_vars PROVE Ordered'
  OBVIOUS
<1> USE DEF TypeOK, Ordered, disk, inotify, pass, bounds, counts
<1>1. CASE Start
  BY <1>1 DEF Start, Arm, Watched, Drop
<1>2. CASE Claim
  BY <1>2 DEF Claim
<1>3. CASE ReadRefs
  BY <1>3 DEF ReadRefs
<1>4. CASE PassFails
  BY <1>4 DEF PassFails
<1>5. CASE PassLands
  BY <1>5 DEF PassLands
<1>6. CASE PassEnds
  BY <1>6 DEF PassEnds
<1>7. CASE TimerPass
  BY <1>7 DEF TimerPass
<1>8. CASE Rearm
  BY <1>8 DEF Rearm, Arm, Watched, Drop
<1>9. CASE WatcherPass
  BY <1>9 DEF WatcherPass, Checking
<1>10. CASE DuePass
  BY <1>10 DEF DuePass, Checking, Heeded
<1>11. CASE Sleep
  BY <1>11 DEF Sleep, Checking, Heeded
<1>12. CASE Notified
  BY <1>12 DEF Notified
<1>13. CASE WatchEnds
  BY <1>13 DEF WatchEnds, Drop
<1>14. CASE DeadlinePasses
  BY <1>14 DEF DeadlinePasses, Awoken
<1>15. CASE Crash
  BY <1>15 DEF Crash
<1>16. CASE ReadEvent
  BY <1>16 DEF ReadEvent
<1>17. CASE Overflow
  BY <1>17 DEF Overflow
<1>18. CASE WatchBreaks
  BY <1>18 DEF WatchBreaks
<1>19. CASE HoldEnds
  BY <1>19 DEF HoldEnds
<1>20. CASE Ring
  BY <1>20 DEF Ring
<1>21. CASE RetryComes
  BY <1>21 DEF RetryComes
<1>22. ASSUME NEW w \in Writer, MoveRef(w) PROVE Ordered'
  BY <1>22 DEF MoveRef
<1>23. ASSUME NEW w \in Writer, Mark(w) PROVE Ordered'
  BY <1>23 DEF Mark, Latest
<1>24. ASSUME NEW w \in Writer, MarkFails(w) PROVE Ordered'
  BY <1>24 DEF MarkFails
<1>25. CASE Replace
  BY <1>25 DEF Replace
<1>26. CASE Make
  BY <1>26 DEF Make
<1>27. CASE UNCHANGED vars
  BY <1>27 DEF vars
<1> QED BY <1>1, <1>2, <1>3, <1>4, <1>5, <1>6, <1>7, <1>8, <1>9, <1>10, <1>11, <1>12,
      <1>13, <1>14, <1>15, <1>16, <1>17, <1>18, <1>19, <1>20, <1>21, <1>22, <1>23,
      <1>24, <1>25, <1>26, <1>27 DEF Next, Loop

\* Every step keeps the marks that no pass has read standing: due is removed before
\* the refs are read (claim), and a watch restored owes a pass (arm).
LEMMA NextMarkStands == TypeOK /\ Counted /\ Ordered /\ MarkStands /\ [Next]_vars => MarkStands'
<1> SUFFICES ASSUME TypeOK, Counted, Ordered, MarkStands, [Next]_vars PROVE MarkStands'
  OBVIOUS
<1> USE DEF TypeOK, Counted, Ordered, MarkStands, BeforeReading, disk, inotify, pass, bounds, counts
<1>1. CASE Start
  BY <1>1 DEF Start, Arm, Watched, Drop
<1>2. CASE Claim
  BY <1>2 DEF Claim
<1>3. CASE ReadRefs
  BY <1>3 DEF ReadRefs
<1>4. CASE PassFails
  BY <1>4 DEF PassFails
<1>5. CASE PassLands
  BY <1>5 DEF PassLands
<1>6. CASE PassEnds
  BY <1>6 DEF PassEnds
<1>7. CASE TimerPass
  BY <1>7 DEF TimerPass
<1>8. CASE Rearm
  BY <1>8 DEF Rearm, Arm, Watched, Drop
<1>9. CASE WatcherPass
  BY <1>9 DEF WatcherPass, Checking
<1>10. CASE DuePass
  BY <1>10 DEF DuePass, Checking, Heeded
<1>11. CASE Sleep
  BY <1>11 DEF Sleep, Checking, Heeded
<1>12. CASE Notified
  BY <1>12 DEF Notified
<1>13. CASE WatchEnds
  BY <1>13 DEF WatchEnds, Drop
<1>14. CASE DeadlinePasses
  BY <1>14 DEF DeadlinePasses, Awoken
<1>15. CASE Crash
  BY <1>15 DEF Crash
<1>16. CASE ReadEvent
  BY <1>16 DEF ReadEvent
<1>17. CASE Overflow
  BY <1>17 DEF Overflow
<1>18. CASE WatchBreaks
  BY <1>18 DEF WatchBreaks
<1>19. CASE HoldEnds
  BY <1>19 DEF HoldEnds
<1>20. CASE Ring
  BY <1>20 DEF Ring
<1>21. CASE RetryComes
  BY <1>21 DEF RetryComes
<1>22. ASSUME NEW w \in Writer, MoveRef(w) PROVE MarkStands'
  BY <1>22 DEF MoveRef
<1>23. ASSUME NEW w \in Writer, Mark(w) PROVE MarkStands'
  BY <1>23 DEF Mark, Latest
<1>24. ASSUME NEW w \in Writer, MarkFails(w) PROVE MarkStands'
  BY <1>24 DEF MarkFails
<1>25. CASE Replace
  BY <1>25 DEF Replace
<1>26. CASE Make
  BY <1>26 DEF Make
<1>27. CASE UNCHANGED vars
  BY <1>27 DEF vars
<1> QED BY <1>1, <1>2, <1>3, <1>4, <1>5, <1>6, <1>7, <1>8, <1>9, <1>10, <1>11, <1>12,
      <1>13, <1>14, <1>15, <1>16, <1>17, <1>18, <1>19, <1>20, <1>21, <1>22, <1>23,
      <1>24, <1>25, <1>26, <1>27 DEF Next, Loop

\* Every step keeps word of a due on its way to the loop that waits beside it: the
\* watch is in place before due is looked for (wait, notify).
LEMMA NextDueIsTold == TypeOK /\ Ordered /\ DueIsTold /\ [Next]_vars => DueIsTold'
<1> SUFFICES ASSUME TypeOK, Ordered, DueIsTold, [Next]_vars PROVE DueIsTold'
  OBVIOUS
<1> USE DEF TypeOK, Ordered, DueIsTold, disk, inotify, pass, bounds, counts
<1>1. CASE Start
  BY <1>1 DEF Start, Arm, Watched, Drop
<1>2. CASE Claim
  BY <1>2 DEF Claim
<1>3. CASE ReadRefs
  BY <1>3 DEF ReadRefs
<1>4. CASE PassFails
  BY <1>4 DEF PassFails
<1>5. CASE PassLands
  BY <1>5 DEF PassLands
<1>6. CASE PassEnds
  BY <1>6 DEF PassEnds
<1>7. CASE TimerPass
  BY <1>7 DEF TimerPass
<1>8. CASE Rearm
  BY <1>8 DEF Rearm, Arm, Watched, Drop
<1>9. CASE WatcherPass
  BY <1>9 DEF WatcherPass, Checking
<1>10. CASE DuePass
  BY <1>10 DEF DuePass, Checking, Heeded
<1>11. CASE Sleep
  BY <1>11 DEF Sleep, Checking, Heeded
<1>12. CASE Notified
  BY <1>12 DEF Notified
<1>13. CASE WatchEnds
  BY <1>13 DEF WatchEnds, Drop
<1>14. CASE DeadlinePasses
  BY <1>14 DEF DeadlinePasses, Awoken
<1>15. CASE Crash
  BY <1>15 DEF Crash
<1>16. CASE ReadEvent
  BY <1>16 DEF ReadEvent
<1>17. CASE Overflow
  BY <1>17 DEF Overflow
<1>18. CASE WatchBreaks
  BY <1>18 DEF WatchBreaks
<1>19. CASE HoldEnds
  BY <1>19 DEF HoldEnds
<1>20. CASE Ring
  BY <1>20 DEF Ring
<1>21. CASE RetryComes
  BY <1>21 DEF RetryComes
<1>22. ASSUME NEW w \in Writer, MoveRef(w) PROVE DueIsTold'
  BY <1>22 DEF MoveRef
<1>23. ASSUME NEW w \in Writer, Mark(w) PROVE DueIsTold'
  BY <1>23 DEF Mark, Latest
<1>24. ASSUME NEW w \in Writer, MarkFails(w) PROVE DueIsTold'
  BY <1>24 DEF MarkFails
<1>25. CASE Replace
  BY <1>25 DEF Replace
<1>26. CASE Make
  BY <1>26 DEF Make
<1>27. CASE UNCHANGED vars
  BY <1>27 DEF vars
<1> QED BY <1>1, <1>2, <1>3, <1>4, <1>5, <1>6, <1>7, <1>8, <1>9, <1>10, <1>11, <1>12,
      <1>13, <1>14, <1>15, <1>16, <1>17, <1>18, <1>19, <1>20, <1>21, <1>22, <1>23,
      <1>24, <1>25, <1>26, <1>27 DEF Next, Loop

\* Every step keeps a due that may start a pass unspent: a pass claims it, or none is
\* started for it before the interval is over (claim, holdDue).
LEMMA NextDueIsFresh == TypeOK /\ Ordered /\ DueIsFresh /\ [Next]_vars => DueIsFresh'
<1> SUFFICES ASSUME TypeOK, Ordered, DueIsFresh, [Next]_vars PROVE DueIsFresh'
  OBVIOUS
<1> USE DEF TypeOK, Ordered, DueIsFresh, disk, inotify, pass, bounds, counts
<1>1. CASE Start
  BY <1>1 DEF Start, Arm, Watched, Drop
<1>2. CASE Claim
  BY <1>2 DEF Claim
<1>3. CASE ReadRefs
  BY <1>3 DEF ReadRefs
<1>4. CASE PassFails
  BY <1>4 DEF PassFails
<1>5. CASE PassLands
  BY <1>5 DEF PassLands
<1>6. CASE PassEnds
  BY <1>6 DEF PassEnds
<1>7. CASE TimerPass
  BY <1>7 DEF TimerPass
<1>8. CASE Rearm
  BY <1>8 DEF Rearm, Arm, Watched, Drop
<1>9. CASE WatcherPass
  BY <1>9 DEF WatcherPass, Checking
<1>10. CASE DuePass
  BY <1>10 DEF DuePass, Checking, Heeded
<1>11. CASE Sleep
  BY <1>11 DEF Sleep, Checking, Heeded
<1>12. CASE Notified
  BY <1>12 DEF Notified
<1>13. CASE WatchEnds
  BY <1>13 DEF WatchEnds, Drop
<1>14. CASE DeadlinePasses
  BY <1>14 DEF DeadlinePasses, Awoken
<1>15. CASE Crash
  BY <1>15 DEF Crash
<1>16. CASE ReadEvent
  BY <1>16 DEF ReadEvent
<1>17. CASE Overflow
  BY <1>17 DEF Overflow
<1>18. CASE WatchBreaks
  BY <1>18 DEF WatchBreaks
<1>19. CASE HoldEnds
  BY <1>19 DEF HoldEnds
<1>20. CASE Ring
  BY <1>20 DEF Ring
<1>21. CASE RetryComes
  BY <1>21 DEF RetryComes
<1>22. ASSUME NEW w \in Writer, MoveRef(w) PROVE DueIsFresh'
  BY <1>22 DEF MoveRef
<1>23. ASSUME NEW w \in Writer, Mark(w) PROVE DueIsFresh'
  BY <1>23 DEF Mark, Latest
<1>24. ASSUME NEW w \in Writer, MarkFails(w) PROVE DueIsFresh'
  BY <1>24 DEF MarkFails
<1>25. CASE Replace
  BY <1>25 DEF Replace
<1>26. CASE Make
  BY <1>26 DEF Make
<1>27. CASE UNCHANGED vars
  BY <1>27 DEF vars
<1> QED BY <1>1, <1>2, <1>3, <1>4, <1>5, <1>6, <1>7, <1>8, <1>9, <1>10, <1>11, <1>12,
      <1>13, <1>14, <1>15, <1>16, <1>17, <1>18, <1>19, <1>20, <1>21, <1>22, <1>23,
      <1>24, <1>25, <1>26, <1>27 DEF Next, Loop

-----------------------------------------------------------------------------
\* The wake loop keeps its invariant, whatever marks, failures and replaced
\* directories there are (run and wait).
THEOREM Waking == Spec => []WakeInv
<1>1. Init => WakeInv
  BY InitWakeInv
<1>2. WakeInv /\ [Next]_vars => WakeInv'
  BY TypesBound, NextBounded, NextTypeOK, NextCounted, NextOrdered, NextMarkStands, NextDueIsTold, NextDueIsFresh
     DEF WakeInv
<1> QED BY <1>1, <1>2, PTL DEF Spec

\* Every variable of the loop keeps its type (wakeLoop's fields and its watch's).
THEOREM Typing == Spec => []TypeOK
<1>1. WakeInv => TypeOK
  BY DEF WakeInv
<1> QED BY <1>1, Waking, PTL

\* No wait of a controller in order sleeps through a mark: where it waits with
\* a marked move unread, its wakeup is on its way (wake.go, claim before pass
\* and watch before look).
THEOREM NoMarkIsSleptThrough == Spec => []AwakeToMarks
<1>1. WakeInv => AwakeToMarks
  BY DEF WakeInv, AwakeToMarks, Ordered, MarkStands, DueIsTold, BeforeReading
<1> QED BY <1>1, Waking, PTL

\* No due starts one pass after another (wake.go, holdDue and the look at due
\* on disk).
THEOREM NoDueSpins == Spec => []DuePassesAreMarked
<1>1. WakeInv => DuePassesAreMarked
  BY DEF WakeInv, DuePassesAreMarked, DueIsFresh
<1> QED BY <1>1, Waking, PTL
=============================================================================
