------------------------ MODULE RestackPromiseProofs ------------------------
(***************************************************************************)
(* Proofs about the restacker, for any changes, stacks and bounds: it      *)
(* keeps what it promises the authors (RestackPromise), a family whose     *)
(* branches moved is seen through, and it is let go only once every change *)
(* has a report of what happened.                                          *)
(***************************************************************************)
EXTENDS RestackerProofs

(***************************************************************************)
(* The invariant.                                                          *)
(***************************************************************************)

\* What the restacker did, as origin and the pass show it: a head it rebased
\* is anywhere only once its family's branches moved, and a version names its
\* operation only once it was added.
FromPushed(h) == h.by # None => h.by \in pushed
HistoryOK ==
    /\ \A b \in Change : branch[b] # None => FromPushed(branch[b])
    /\ \A c \in Change : \A e \in Range(record[c]) :
          FromPushed(e.head) /\ (e.op # 0 => <<e.op, c>> \in added)
    /\ pushed \subseteq (1..ops) \X SUBSET Change
    /\ added \subseteq (1..ops) \X Change /\ touched \subseteq (1..ops) \X Change
    /\ DOMAIN report = Change /\ \A c \in Change : IsSeq(report[c])
    /\ lost \in BOOLEAN /\ (gone # {} => lost)

\* What a family says was taken was taken, and an added version is where the
\* family put it.
TookOK(f) ==
    /\ Name(f) \in pushed => Restacks(f)
    /\ f.moved => Name(f) \in pushed
    /\ \A c \in f.added : <<f.op, c>> \in added
    /\ \A c \in Layers(f) : record[c] # <<>> /\ <<f.op, c>> \in added =>
          f.saw[c].old < Len(record[c]) /\ record[c][f.saw[c].old + 1].op = f.op
    /\ ~Restacks(f) => \A c \in Layers(f) : f.report.said[c] # "added"
    /\ DOMAIN f.report.said = Layers(f)

\* A write that waits is one that its family may still make: a version once
\* the branches moved, a report of versions that were added.
PushOK(w) ==
    /\ Name(w.f) \in pass.busy
    /\ w.kind \in {"version", "checked"} => Name(w.f) \in pushed
    /\ w.kind \in {"report", "happened"} =>
          \A d \in DOMAIN Filed(w).report.said :
              Filed(w).report.said[d] = "added" => <<w.f.op, d>> \in added

\* Unless another moved it, a family is as the restacker left it.
Touched(f) == \E c \in Layers(f) : <<f.op, c>> \in touched
LiveOK(f) == Touched(f) \/
    /\ f.tip \in line
    /\ \A c \in Layers(f) :
          /\ Name(f) \in pushed => branch[f.saw[c].branch] = f.new[c]
          /\ record[c] # <<>>
          /\ Len(record[c]) = IF <<f.op, c>> \in added THEN f.saw[c].old + 1 ELSE f.saw[c].old
          /\ f.saw[c].head \notin landed

KInv ==
    /\ IInv /\ HistoryOK
    /\ \A f \in Known : TookOK(f)
    /\ \A f \in journal \cup pass.mem : LiveOK(f)
    /\ \A w \in pass.todo : PushOK(w)

-----------------------------------------------------------------------------
(***************************************************************************)
(* What a step adds to the history.                                        *)
(***************************************************************************)

\* Only a branch push and a version's push do.
LEMMA GhostsIs ==
  ASSUME [Next]_vars
  PROVE  /\ \/ UNCHANGED <<pushed, added>>
            \/ \E w \in pass.todo : pass.pc = "push" /\ w.kind = "branches" /\ PushBranches(w)
            \/ \E w \in pass.todo : pass.pc = "push" /\ w.kind = "checked" /\ PushVersion(w)
         /\ pushed \subseteq pushed' /\ added \subseteq added'
         /\ touched' = touched \/ Else
         /\ UNCHANGED lost \/ LoseScratch
<1>1. CASE Start \/ KeepObjects \/ KeepFails \/ WriteJournal \/ LetGo
  BY <1>1 DEF Start, KeepObjects, KeepFails, WriteJournal, LetGo, ghosts
<1>2. CASE \E known \in BOOLEAN : Read(known)
  BY <1>2 DEF Read, ghosts
<1>3. ASSUME NEW w, Checked(w) \/ PushReport(w) \/ NotTaken(w)  PROVE UNCHANGED ghosts
  BY <1>3 DEF CheckHead, Checked, PushReport, NotTaken
<1>4. CASE Replace \/ Again \/ Retire \/ Plan \/ Fail \/ UNCHANGED vars
  BY <1>4 DEF Replace, Again, Retire, Plan, Fail, vars, ghosts
<1>5. CASE LoseScratch
  BY <1>5 DEF LoseScratch
<1>6. CASE Else
  BY <1>6, ElseIs
<1>7. ASSUME NEW w, PushBranches(w)
      PROVE  pushed' = pushed \cup {Name(w.f)} /\ UNCHANGED <<added, touched, lost>>
  BY <1>7 DEF PushBranches
<1>8. ASSUME NEW w, PushVersion(w)
      PROVE  added' = added \cup {<<w.f.op, w.c>>} /\ UNCHANGED <<pushed, touched, lost>>
  BY <1>8 DEF PushVersion
<1> QED  BY <1>1, <1>2, <1>3, <1>4, <1>5, <1>6, <1>7, <1>8, StepIs DEF ghosts

\* At a push, a family of the journal that shares a change with the one that
\* is pushed is that one, and any other form of it says the same.
LEMMA PushedIs ==
  ASSUME IInv, pass.pc = "push", NEW w \in pass.todo
  PROVE  /\ w.f \in journal /\ w.f \in pass.mem
         /\ \A g \in journal \cup pass.mem :
               (Layers(g) \cap Layers(w.f) # {} \/ Name(g) = Name(w.f)
                \/ \E c \in Layers(g), d \in Layers(w.f) : g.saw[c].branch = w.f.saw[d].branch)
               => g = w.f
         /\ \A g \in Known :
               Layers(g) \cap Layers(w.f) # {} \/ Name(g) = Name(w.f) => Same(w.f, g)
<1>1. PassOK /\ pass.mem = journal /\ WriteOK(w) /\ w.f \in pass.mem
  BY WriteIsOf DEF IInv, PassOK, WriteOK
<1>2. Agrees(pass.mem) /\ Mirrors(pass.mem, pass.next)
  BY <1>1 DEF PassOK, Settling
<1>3. \A g \in Known : Layers(g) # {}
  BY DEF IInv, FamiliesOK, FamilyOK, PlanOK
<1>4. ASSUME NEW g \in pass.mem,
             \/ Layers(g) \cap Layers(w.f) # {}
             \/ \E c \in Layers(g), d \in Layers(w.f) : g.saw[c].branch = w.f.saw[d].branch
      PROVE  g = w.f
  <2>1. Keys(g) \cap Keys(w.f) # {}
    <3>1. CASE Layers(g) \cap Layers(w.f) # {}
      <4>1. PICK c : c \in Layers(g) /\ c \in Layers(w.f)  BY <3>1
      <4>2. <<"change", c>> \in Keys(g) /\ <<"change", c>> \in Keys(w.f)  BY <4>1 DEF Keys
      <4> QED  BY <4>2
    <3>2. ASSUME NEW c \in Layers(g), NEW d \in Layers(w.f), g.saw[c].branch = w.f.saw[d].branch
          PROVE  Keys(g) \cap Keys(w.f) # {}
      <4>1. <<"branch", g.saw[c].branch>> \in Keys(g) /\ <<"branch", w.f.saw[d].branch>> \in Keys(w.f)
        BY DEF Keys
      <4> QED  BY <3>2, <4>1
    <3> QED  BY <1>4, <3>1, <3>2
  <2> QED  BY <1>1, <1>2, <2>1 DEF Agrees
<1>5. ASSUME NEW g, Name(g) = Name(w.f)  PROVE Layers(g) = Layers(w.f)
  BY <1>5 DEF Name
<1>6. ASSUME NEW g \in pass.mem, Name(g) = Name(w.f)  PROVE g = w.f
  BY <1>3, <1>4, <1>5, <1>6 DEF Known
<1>7. ASSUME NEW g \in Known, Layers(g) \cap Layers(w.f) # {}  PROVE Same(w.f, g)
  <2>1. PICK h \in pass.mem : Same(h, g)
    BY <1>1, <1>2 DEF Known, Mirrors, Same
  <2>2. Layers(h) = Layers(g)
    BY <2>1, SameIs
  <2>3. h = w.f
    BY <1>4, <1>7, <2>2
  <2> QED  BY <2>1, <2>3
<1>8. ASSUME NEW g \in Known, Name(g) = Name(w.f)  PROVE Same(w.f, g)
  BY <1>3, <1>5, <1>7, <1>8
<1> QED  BY <1>1, <1>4, <1>6, <1>7, <1>8

\* A family whose branch push is done had its branches moved, and a version
\* that is done was added.
LEMMA DoneWasTaken ==
  ASSUME HistoryOK, BranchesOK, RecordsOK, NEW f, NEW known,
         f.op \in Nat \ {0}, FamilyOK(f), TookOK(f)
  PROVE  /\ BranchPush(f, known) = "done" => Name(f) \in pushed
         /\ \A c \in DOMAIN f.new : Version(f, c, known) = "done" => <<f.op, c>> \in added
<1>0. /\ DOMAIN f.new \in {{}, Layers(f)} /\ Layers(f) \subseteq Change
      /\ \A c \in Layers(f) : f.saw[c].branch \in Uses[c] /\ f.saw[c].old \in Nat \ {0}
      /\ \A c \in DOMAIN f.new : IsHead(f.new[c]) /\ f.new[c].by = Name(f)
  BY DEF FamilyOK, PlanOK
<1>1. ASSUME BranchPush(f, known) = "done"  PROVE Name(f) \in pushed
  <2>1. f.moved \/ \E c \in Layers(f) : TookBranch(f, c)
    BY <1>1 DEF BranchPush
  <2>2. ASSUME NEW c \in Layers(f), TookBranch(f, c)  PROVE Name(f) \in pushed
    <3> DEFINE at == branch[f.saw[c].branch]
    <3>1. at # None /\ Reaches(f.new[c], at)
      BY <2>2 DEF TookBranch
    <3>2. f.saw[c].branch \in Change /\ c \in DOMAIN f.new
      BY <1>0, <1>1, DoneRestacks, RestackerAssumption DEF Restacks
    <3>3. f.new[c].by = Name(f) /\ Name(f) # None
      <4>1. Name(f) \in Nat \X SUBSET Change  BY <1>0 DEF Name
      <4> QED  BY <1>0, <3>2, <4>1, RestackerAssumption
    <3>4. at.by = f.new[c].by
      BY <3>1 DEF Reaches
    <3> QED  BY <3>1, <3>2, <3>3, <3>4 DEF HistoryOK, FromPushed
  <2> QED  BY <2>1, <2>2 DEF TookOK
<1>2. ASSUME NEW c \in DOMAIN f.new, Version(f, c, known) = "done"  PROVE <<f.op, c>> \in added
  <2>1. CASE c \in f.added
    BY <2>1 DEF TookOK
  <2>2. CASE TookVersion(f, c)
    <3> DEFINE k == f.saw[c].old + 1
    <3>1. Len(record[c]) >= k /\ record[c][k].op = f.op /\ c \in Change /\ k \in Nat \ {0}
      BY <1>0, <2>2 DEF TookVersion
    <3>2. record[c] \in Seq(Range(record[c]))
      BY <3>1 DEF RecordsOK, IsSeq
    <3>3. record[c][k] \in Range(record[c])
      BY <3>1, <3>2 DEF Range
    <3> QED  BY <3>1, <3>3 DEF HistoryOK
  <2>3. c \in f.added \/ TookVersion(f, c)
    BY <1>2 DEF Version
  <2> QED  BY <2>1, <2>2, <2>3
<1> QED  BY <1>1, <1>2

\* A rework keeps the rebase of the head it is made from.
LEMMA ReworkedFrom ==
  ASSUME RecordsOK, HistoryOK, NEW c \in Recorded, NEW h \in Reworked(c)
  PROVE  FromPushed(h)
<1> DEFINE a == Active(c).head
           w == a.work[c] + 1
           under == {g.head : g \in UNION {Range(record[d]) : d \in Under[c]}}
<1>1. c \in Change /\ IsHead(a) /\ FromPushed(a)
  BY ActiveIs DEF EntryOK, HistoryOK
<1>2. \/ h = [a EXCEPT !.work[c] = w]
      \/ \E g \in under :
            h = [of |-> c, tip |-> g.tip, by |-> g.by, more |-> g.more,
                 work |-> [d \in DOMAIN g.work \cup {c} |-> IF d = c THEN w ELSE g.work[d]]]
  BY DEF Reworked
<1>3. ASSUME NEW g \in under  PROVE FromPushed(g)
  <2>1. PICK d \in Under[c] : \E e \in Range(record[d]) : g = e.head
    OBVIOUS
  <2>2. d \in Change
    BY <1>1, RestackerAssumption
  <2> QED  BY <2>1, <2>2 DEF HistoryOK
<1> HIDE DEF w, a, under
<1>4. CASE h = [a EXCEPT !.work[c] = w]
  <2>1. h.by = a.by  BY <1>1, <1>4, FieldsIs
  <2> QED  BY <1>1, <2>1 DEF FromPushed
<1>5. ASSUME NEW g \in under,
             h = [of |-> c, tip |-> g.tip, by |-> g.by, more |-> g.more,
                  work |-> [d \in DOMAIN g.work \cup {c} |-> IF d = c THEN w ELSE g.work[d]]]
      PROVE  FromPushed(h)
  <2>1. h.by = g.by  BY <1>5
  <2> QED  BY <1>3, <2>1 DEF FromPushed
<1> QED  BY <1>2, <1>4, <1>5

\* A head is of the history it comes from; more history changes nothing.
LEMMA FromGrows ==
  ASSUME NEW h, FromPushed(h), pushed \subseteq pushed'
  PROVE  h.by # None => h.by \in pushed'
BY DEF FromPushed

\* A branch is moved by others to a head that descends from one recorded, or
\* by a push to the heads of the family that is pushed.
LEMMA BranchesFrom ==
  ASSUME KInv, [Next]_vars, NEW b \in Change, branch'[b] # None, branch'[b].by # None
  PROVE  branch'[b].by \in pushed'
<1>0. HistoryOK /\ RecordsOK /\ BranchesOK /\ pushed \subseteq pushed'
  BY GhostsIs DEF KInv, IInv, OriginOK
<1>1. CASE branch'[b] = branch[b]
  BY <1>0, <1>1 DEF HistoryOK, FromPushed
<1>2. ASSUME NEW w \in pass.todo, w.kind = "branches", PushBranches(w)  PROVE branch'[b].by \in pushed'
  <2>1. FamilyOK(w.f) /\ Restacks(w.f)
    BY <1>2, WriteIsOf DEF WriteOK, KInv
  <2>2. \A c \in DOMAIN w.f.new : w.f.new[c].by = Name(w.f)
    BY <2>1 DEF FamilyOK, PlanOK
  <2>3. branch'[b] = branch[b] \/ branch'[b].by = Name(w.f)
    BY <1>2, <2>1, <2>2, BranchMoves
  <2>4. Name(w.f) \in pushed'
    BY <1>2 DEF PushBranches
  <2> QED  BY <1>1, <2>3, <2>4
<1>3. CASE Else
  <2>1. ASSUME NEW c \in Change, NEW u \in Uses[c], MoveBranch(c, u)  PROVE branch'[b].by \in pushed'
    <3>1. PICK h \in Reworked(c) \cup VersionHeads(c) \cup {[Active(c).head EXCEPT !.more = TRUE], None} :
             branch' = [branch EXCEPT ![u] = h]
      BY <2>1 DEF MoveBranch
    <3>2. c \in Recorded
      BY <2>1 DEF MoveBranch, Recorded
    <3>3. h # None => FromPushed(h)
      <4>1. \A v \in VersionHeads(c) : FromPushed(v)
        BY <1>0 DEF HistoryOK, VersionHeads
      <4>2. IsHead(Active(c).head) /\ FromPushed(Active(c).head)
        BY <1>0, <3>2, <4>1, ActiveIs DEF EntryOK
      <4>3. [Active(c).head EXCEPT !.more = TRUE].by = Active(c).head.by
        BY <4>2, FieldsIs
      <4>4. FromPushed([Active(c).head EXCEPT !.more = TRUE])
        BY <4>2, <4>3 DEF FromPushed
      <4> QED  BY <1>0, <3>1, <3>2, <4>1, <4>4, ReworkedFrom
    <3>4. branch'[b] = h \/ branch'[b] = branch[b]
      BY <1>0, <3>1 DEF BranchesOK
    <3> QED  BY <1>0, <1>1, <3>3, <3>4, FromGrows
  <2>2. ASSUME NEW c \in Change, NEW u \in Uses[c],
               \/ Upload(c, u) \/ Unready(c) \/ DeleteRecord(c)
               \/ ReportElse(c) \/ File(c) \/ JudgeStale(c) \/ Land(c)
        PROVE  UNCHANGED branch
    BY <2>2 DEF Upload, Unready, DeleteRecord, ReportElse, File, JudgeStale, Land
  <2>3. ASSUME NEW kept \in BOOLEAN, MoveMain(kept)  PROVE UNCHANGED branch
    BY <2>3 DEF MoveMain
  <2>4. \A c \in Change : c \in Uses[c]
    BY RestackerAssumption
  <2> QED  BY <1>1, <1>3, <2>1, <2>2, <2>3, <2>4 DEF Else
<1>4. ASSUME NEW w, PushVersion(w) \/ PushReport(w)  PROVE UNCHANGED branch
  BY <1>4 DEF PushVersion, PushReport
<1> QED  BY <1>1, <1>2, <1>3, <1>4, OriginIs DEF origin

\* An entry of a record names a rebase and an operation that were.
EntryFrom(c, e) == /\ e.head.by # None => e.head.by \in pushed'
                   /\ e.op # 0 => <<e.op, c>> \in added'
\* A record goes on with heads of those kinds.
LEMMA RecordFrom ==
  ASSUME KInv, [Next]_vars, NEW c \in Change
  PROVE  \/ record'[c] = record[c] \/ record'[c] = <<>>
         \/ record[c] # <<>> /\ \E e : EntryFrom(c, e) /\ record'[c] = Append(record[c], e)
<1> DEFINE Grows == \/ record'[c] = record[c] \/ record'[c] = <<>>
                    \/ record[c] # <<>> /\ \E e : EntryFrom(c, e) /\ record'[c] = Append(record[c], e)
<1>0. HistoryOK /\ RecordsOK /\ BranchesOK /\ pushed \subseteq pushed'
  BY GhostsIs DEF KInv, IInv, OriginOK
<1>1. ASSUME NEW d \in Change, NEW e, record' = [record EXCEPT ![d] = Append(record[d], e)],
             record[d] # <<>>, EntryFrom(d, e)
      PROVE  Grows
  BY <1>0, <1>1 DEF RecordsOK
<1> SUFFICES Grows
  OBVIOUS
<1> HIDE DEF Grows
<1>2. ASSUME UNCHANGED record  PROVE Grows
  BY <1>2 DEF Grows
<1>3. ASSUME NEW w \in pass.todo, w.kind = "checked", PushVersion(w)
      PROVE  Grows
  <2> DEFINE d == w.c
             e == Commit(Last(record[d]).n + 1, w.f.new[d], w.f.saw[d].branch, "ready", w.f.op)
  <2>1. /\ FamilyOK(w.f) /\ d \in DOMAIN w.f.new /\ Name(w.f) \in pushed
    BY <1>3, WriteIsOf DEF WriteOK, KInv, PushOK
  <2>2. /\ d \in Change /\ w.f.new[d].by = Name(w.f) /\ w.f.saw[d].old \in Nat \ {0}
    BY <2>1 DEF FamilyOK, PlanOK
  <2>3. EntryFrom(d, e)
    BY <1>0, <1>3, <2>1, <2>2 DEF EntryFrom, Commit, PushVersion
  <2>4. Len(record[d]) = w.f.saw[d].old /\ record' = [record EXCEPT ![d] = Append(@, e)]
    BY <1>3 DEF PushVersion
  <2>5. record[d] # <<>>
    BY <2>2, <2>4, EmptyIs
  <2> HIDE DEF e, d
  <2>6. record' = [record EXCEPT ![d] = Append(record[d], e)]
    BY <2>4
  <2> QED  BY <1>1, <2>2, <2>3, <2>5, <2>6
<1>4. CASE Else
  <2>1. ASSUME NEW d \in Change, NEW b \in Uses[d], Upload(d, b)  PROVE Grows
    <3> DEFINE e == Commit(Last(record[d]).n + 1, branch[b], b, "ready", 0)
    <3>1. b \in Change
      BY RestackerAssumption
    <3>2. FromPushed(branch[b]) /\ record[d] # <<>>
      BY <1>0, <2>1, <3>1 DEF Upload, HistoryOK
    <3>3. EntryFrom(d, e)
      BY <1>0, <3>2, FromGrows DEF EntryFrom, Commit
    <3>4. record' = [record EXCEPT ![d] = Append(record[d], e)]
      BY <2>1 DEF Upload
    <3> HIDE DEF e
    <3> QED  BY <1>1, <3>2, <3>3, <3>4
  <2>2. ASSUME NEW d \in Change, Unready(d)  PROVE Grows
    <3> DEFINE l == Last(record[d])
               e == [l EXCEPT !.state = "draft", !.op = 0]
    <3>1. record[d] # <<>> /\ EntryOK(d, l) /\ FromPushed(l.head)
      BY <1>0, <2>2, LastIs DEF Unready, RecordsOK, IsSeq, HistoryOK
    <3>2. e.op = 0 /\ e.head = l.head
      BY <3>1 DEF EntryOK
    <3>3. record' = [record EXCEPT ![d] = Append(record[d], e)]
      BY <2>2 DEF Unready
    <3> HIDE DEF e, l
    <3>4. EntryFrom(d, e)
      BY <1>0, <3>1, <3>2, FromGrows DEF EntryFrom
    <3> QED  BY <1>1, <3>1, <3>3, <3>4
  <2>3. ASSUME NEW d \in Change, DeleteRecord(d)  PROVE Grows
    BY <1>0, <2>3 DEF DeleteRecord, RecordsOK, Grows
  <2>4. ASSUME NEW d \in Change, NEW b \in Uses[d],
               MoveBranch(d, b) \/ ReportElse(d) \/ File(d) \/ JudgeStale(d) \/ Land(d)
        PROVE  UNCHANGED record
    BY <2>4 DEF MoveBranch, ReportElse, File, JudgeStale, Land
  <2>5. ASSUME NEW kept \in BOOLEAN, MoveMain(kept)  PROVE UNCHANGED record
    BY <2>5 DEF MoveMain
  <2>6. \A d \in Change : d \in Uses[d]
    BY RestackerAssumption
  <2> QED  BY <1>2, <1>4, <2>1, <2>2, <2>3, <2>4, <2>5, <2>6 DEF Else
<1>5. ASSUME NEW w, PushBranches(w) \/ PushReport(w)  PROVE UNCHANGED record
  BY <1>5 DEF PushBranches, PushReport
<1> QED  BY <1>2, <1>3, <1>4, <1>5, OriginIs DEF origin

\* So each version of a record is of such a head.
LEMMA EntriesFrom ==
  ASSUME KInv, [Next]_vars, NEW c \in Change, NEW e \in Range(record'[c])
  PROVE  EntryFrom(c, e)
<1>0. HistoryOK /\ RecordsOK /\ pushed \subseteq pushed' /\ added \subseteq added'
  BY GhostsIs DEF KInv, IInv, OriginOK
<1>1. \A x \in Range(record[c]) : EntryFrom(c, x)
  BY <1>0, FromGrows DEF HistoryOK, EntryFrom
<1>2. record[c] \in Seq(Range(record[c]))
  BY <1>0 DEF RecordsOK, IsSeq
<1>3. CASE record'[c] = <<>>
  BY <1>3, EmptyIs
<1>4. ASSUME NEW x, EntryFrom(c, x), record'[c] = Append(record[c], x)  PROVE EntryFrom(c, e)
  BY <1>1, <1>2, <1>4, AppendIs
<1> QED  BY <1>1, <1>3, <1>4, RecordFrom

\* A report ref only grows, by what a write files or another does.
LEMMA ReportsGrow ==
  ASSUME KInv, [Next]_vars
  PROVE  /\ DOMAIN report' = Change
         /\ \A c \in Change : report'[c] = report[c] \/ \E r : report'[c] = Append(report[c], r)
<1>0. HistoryOK  BY DEF KInv
<1>1. ASSUME UNCHANGED report
      PROVE  /\ DOMAIN report' = Change
             /\ \A c \in Change : report'[c] = report[c] \/ \E r : report'[c] = Append(report[c], r)
  BY <1>0, <1>1 DEF HistoryOK
<1>2. ASSUME NEW d, NEW r, report' = [report EXCEPT ![d] = Append(@, r)]
      PROVE  /\ DOMAIN report' = Change
             /\ \A c \in Change : report'[c] = report[c] \/ \E x : report'[c] = Append(report[c], x)
  BY <1>0, <1>2 DEF HistoryOK
<1>3. ASSUME NEW w, PushReport(w)
      PROVE  \E r : report' = [report EXCEPT ![w.c] = Append(@, r)]
  BY <1>3 DEF PushReport
<1>4. CASE Else
  <2>1. ASSUME NEW c \in Change, ReportElse(c)
        PROVE  \E r : report' = [report EXCEPT ![c] = Append(@, r)]
    BY <2>1 DEF ReportElse
  <2>2. ASSUME NEW c \in Change, NEW b \in Uses[c],
               \/ MoveBranch(c, b) \/ Upload(c, b) \/ Unready(c) \/ DeleteRecord(c)
               \/ File(c) \/ JudgeStale(c) \/ Land(c)
        PROVE  UNCHANGED report
    BY <2>2 DEF MoveBranch, Upload, Unready, DeleteRecord, File, JudgeStale, Land
  <2>3. ASSUME NEW kept \in BOOLEAN, MoveMain(kept)  PROVE UNCHANGED report
    BY <2>3 DEF MoveMain
  <2>4. \A c \in Change : c \in Uses[c]
    BY RestackerAssumption
  <2> QED  BY <1>1, <1>2, <1>4, <2>1, <2>2, <2>3, <2>4 DEF Else
<1>5. ASSUME NEW w, PushBranches(w) \/ PushVersion(w)  PROVE UNCHANGED report
  BY <1>5 DEF PushBranches, PushVersion
<1> QED  BY <1>1, <1>2, <1>3, <1>4, <1>5, OriginIs DEF origin

\* Others touch only what an operation so far could have written.
LEMMA TouchIs ==
  ASSUME Else
  PROVE  touched \subseteq touched' /\ touched' \subseteq touched \cup ((1..ops) \X Change)
<1>1. ASSUME NEW S \in SUBSET Change, Touch(S)
      PROVE  touched \subseteq touched' /\ touched' \subseteq touched \cup ((1..ops) \X Change)
  BY <1>1 DEF Touch
<1>2. ASSUME NEW c \in Change, NEW b \in Uses[c], MoveBranch(c, b) \/ Upload(c, b)
      PROVE  \E S \in SUBSET Change : Touch(S)
  BY <1>2 DEF MoveBranch, Upload, Owners
<1>3. ASSUME NEW c \in Change, Unready(c) \/ DeleteRecord(c) \/ Land(c)
      PROVE  \E S \in SUBSET Change : Touch(S)
  BY <1>3 DEF Unready, DeleteRecord, Land
<1>4. ASSUME NEW c \in Change, ReportElse(c) \/ File(c) \/ JudgeStale(c)
      PROVE  UNCHANGED touched
  BY <1>4 DEF ReportElse, File, JudgeStale, ghosts
<1>5. ASSUME NEW kept \in BOOLEAN, MoveMain(kept)
      PROVE  UNCHANGED touched \/ Touch(Change)
  BY <1>5 DEF MoveMain
<1> QED  BY <1>1, <1>2, <1>3, <1>4, <1>5 DEF Else

\* Operations are only named anew.
LEMMA OpsGrow ==
  ASSUME IInv, [Next]_vars  PROVE  ops' = ops \/ ops' = ops + 1
<1>0. DOMAIN pass = DOMAIN IdlePass  BY DEF IInv, PassOK
<1>1. CASE Start \/ KeepObjects \/ KeepFails \/ WriteJournal \/ LetGo
  BY <1>1 DEF Start, KeepObjects, KeepFails, WriteJournal, LetGo
<1>2. CASE \E known \in BOOLEAN : Read(known)
  BY <1>2 DEF Read
<1>3. ASSUME NEW w \in pass.todo,
             PushBranches(w) \/ Checked(w) \/ PushVersion(w) \/ PushReport(w) \/ NotTaken(w)
      PROVE  ops' = ops
  BY <1>0, <1>3, PushKeeps
<1>4. CASE Replace \/ Again \/ Retire \/ Fail \/ LoseScratch \/ UNCHANGED vars
  BY <1>4 DEF Replace, Again, Retire, Fail, LoseScratch, vars, local
<1>5. CASE Plan
  BY <1>0, <1>5, PlanIs
<1>6. CASE Else
  BY <1>6, ElseIs DEF local
<1> QED  BY <1>1, <1>2, <1>3, <1>4, <1>5, <1>6, StepIs

\* What is gone is only what a lost scratch repository held.
LEMMA GoneStep ==
  ASSUME IInv, [Next]_vars  PROVE  gone' \subseteq gone \/ lost' = TRUE
<1>0. DOMAIN pass = DOMAIN IdlePass  BY DEF IInv, PassOK
<1>1. CASE Start \/ KeepObjects \/ KeepFails \/ WriteJournal \/ LetGo
  BY <1>1 DEF Start, KeepObjects, KeepFails, WriteJournal, LetGo
<1>2. CASE \E known \in BOOLEAN : Read(known)
  BY <1>2 DEF Read
<1>3. ASSUME NEW w \in pass.todo,
             PushBranches(w) \/ Checked(w) \/ PushVersion(w) \/ PushReport(w) \/ NotTaken(w)
      PROVE  gone' = gone
  BY <1>0, <1>3, PushKeeps
<1>4. CASE Replace \/ Again \/ Retire \/ Plan \/ Fail \/ LoseScratch \/ UNCHANGED vars
  BY <1>4 DEF Replace, Again, Retire, Plan, Fail, LoseScratch, vars, local
<1>5. CASE Else
  BY <1>5, ElseIs DEF local
<1> QED  BY <1>1, <1>2, <1>3, <1>4, <1>5, StepIs

\* Every step keeps what is said of the history.
LEMMA HistoryStep ==
  ASSUME KInv, [Next]_vars  PROVE  HistoryOK'
<1>0. HistoryOK /\ IInv /\ ops \in 0..MaxOps /\ MaxOps \in Nat
  BY RestackerAssumption DEF KInv, IInv, OriginOK, MainOK
<1>1. \A b \in Change : branch'[b] # None => FromPushed(branch[b])'
  BY BranchesFrom DEF FromPushed
<1>2. \A c \in Change : \A e \in Range(record'[c]) :
          (e.head.by # None => e.head.by \in pushed') /\ (e.op # 0 => <<e.op, c>> \in added')
  BY EntriesFrom DEF EntryFrom
<1>3. 1..ops \subseteq 1..ops'
  BY <1>0, OpsGrow
<1>4. pushed' \subseteq (1..ops') \X SUBSET Change
  <2>1. ASSUME NEW w \in pass.todo, PushBranches(w)
        PROVE  pushed' = pushed \cup {Name(w.f)} /\ Name(w.f) \in (1..ops) \X SUBSET Change
    <3>1. w.f.op \in 1..ops /\ Layers(w.f) \subseteq Change
      BY <1>0, WriteIsOf DEF FamilyOK, PlanOK
    <3> QED  BY <2>1, <3>1 DEF PushBranches, Name
  <2>2. pushed' = pushed \/ \E w \in pass.todo : PushBranches(w)
    <3>1. ASSUME NEW w, PushVersion(w)  PROVE pushed' = pushed
      BY <3>1 DEF PushVersion
    <3> QED  BY <3>1, GhostsIs
  <2> QED  BY <1>0, <1>3, <2>1, <2>2 DEF HistoryOK
<1>5. added' \subseteq (1..ops') \X Change
  <2>1. ASSUME NEW w \in pass.todo, w.kind = "checked", PushVersion(w)
        PROVE  added' = added \cup {<<w.f.op, w.c>>} /\ <<w.f.op, w.c>> \in (1..ops) \X Change
    <3>1. w.f.op \in 1..ops /\ w.c \in Change
      BY <1>0, <2>1, WriteIsOf DEF FamilyOK, PlanOK, WriteOK
    <3> QED  BY <2>1, <3>1 DEF PushVersion
  <2>2. added' = added \/ \E w \in pass.todo : w.kind = "checked" /\ PushVersion(w)
    <3>1. ASSUME NEW w, PushBranches(w)  PROVE added' = added
      BY <3>1 DEF PushBranches
    <3> QED  BY <3>1, GhostsIs
  <2>3. (1..ops) \X Change \subseteq (1..ops') \X Change
    BY <1>3
  <2>4. added \subseteq (1..ops) \X Change
    BY <1>0 DEF HistoryOK
  <2>5. ASSUME NEW w \in pass.todo, w.kind = "checked", PushVersion(w)
        PROVE  added' \subseteq (1..ops) \X Change
    BY <2>1, <2>4, <2>5
  <2> QED  BY <2>2, <2>3, <2>4, <2>5
<1>6. touched' \subseteq (1..ops') \X Change
  BY <1>0, <1>3, GhostsIs, TouchIs DEF HistoryOK
<1>7. /\ DOMAIN report' = Change
      /\ \A c \in Change : report'[c] \in Seq(Range(report'[c]))
  <2> SUFFICES ASSUME NEW c \in Change  PROVE report'[c] \in Seq(Range(report'[c]))
    BY ReportsGrow
  <2>1. report[c] \in Seq(Range(report[c]))
    BY <1>0 DEF HistoryOK, IsSeq
  <2>2. CASE report'[c] = report[c]
    BY <2>1, <2>2
  <2>3. ASSUME NEW r, report'[c] = Append(report[c], r)  PROVE report'[c] \in Seq(Range(report'[c]))
    BY <2>1, <2>3, AppendIs
  <2> QED  BY <2>2, <2>3, ReportsGrow
<1>8. lost' \in BOOLEAN /\ (gone' # {} => lost')
  <2>1. UNCHANGED lost \/ lost' = TRUE
    BY GhostsIs DEF LoseScratch
  <2> QED  BY <1>0, <2>1, GoneStep DEF HistoryOK
<1> QED
  BY <1>1, <1>2, <1>4, <1>5, <1>6, <1>7, <1>8 DEF HistoryOK, FromPushed, IsSeq

-----------------------------------------------------------------------------
(***************************************************************************)
(* What the families say was taken.                                        *)
(***************************************************************************)

\* Another form of a family that says the same was taken.
LEMMA TookSame ==
  ASSUME NEW f, NEW g, Same(f, g), TookOK(f), g.report = f.report,
         g.moved => Name(f) \in pushed, \A c \in g.added : <<f.op, c>> \in added
  PROVE  TookOK(g)
<1>1. /\ Layers(g) = Layers(f) /\ Name(g) = Name(f) /\ Restacks(g) = Restacks(f)
  BY SameIs
<1>2. g.op = f.op /\ g.saw = f.saw
  BY DEF Same
<1> QED  BY <1>1, <1>2 DEF TookOK

\* The push of a version puts it where its family says.
LEMMA VersionPushed ==
  ASSUME IInv, NEW w \in pass.todo, w.kind = "checked", PushVersion(w)
  PROVE  LET s == record[w.c] IN
         /\ w.c \in Layers(w.f) /\ w.c \in Change /\ w.f.saw[w.c].old \in Nat
         /\ Len(s) = w.f.saw[w.c].old
         /\ Len(record'[w.c]) = w.f.saw[w.c].old + 1
         /\ record'[w.c][w.f.saw[w.c].old + 1].op = w.f.op
         /\ added' = added \cup {<<w.f.op, w.c>>} /\ UNCHANGED <<pushed, branch>>
         /\ \A c \in Change \ {w.c} : record'[c] = record[c]
<1> DEFINE c == w.c
           s == record[c]
           e == Commit(Last(s).n + 1, w.f.new[c], w.f.saw[c].branch, "ready", w.f.op)
<1>1. RecordsOK /\ WriteOK(w) /\ FamilyOK(w.f)
  BY WriteIsOf DEF IInv, OriginOK
<1>2. c \in Layers(w.f) /\ c \in Change /\ w.f.saw[c].old \in Nat
  BY <1>1 DEF WriteOK, FamilyOK, PlanOK
<1>3. /\ Len(s) = w.f.saw[c].old /\ record' = [record EXCEPT ![c] = Append(@, e)]
      /\ added' = added \cup {<<w.f.op, w.c>>} /\ UNCHANGED <<pushed, branch>>
  BY DEF PushVersion
<1>4. s \in Seq(Range(s)) /\ DOMAIN record = Change /\ e.op = w.f.op
  BY <1>1, <1>2 DEF RecordsOK, IsSeq, Commit
<1> HIDE DEF e
<1>5. record'[c] = Append(s, e) /\ \A d \in Change \ {c} : record'[d] = record[d]
  BY <1>2, <1>3, <1>4
<1>6. Len(record'[c]) = Len(s) + 1 /\ record'[c][Len(s) + 1] = e
  BY <1>4, <1>5, AppendIs
<1> QED  BY <1>2, <1>3, <1>4, <1>5, <1>6

\* What a family says was taken stays so, whatever the step.
LEMMA TookKept ==
  ASSUME IInv, [Next]_vars, NEW f \in Known, TookOK(f)  PROVE TookOK(f)'
<1>0. FamilyOK(f) /\ RecordsOK /\ pushed \subseteq pushed' /\ added \subseteq added'
  BY GhostsIs DEF IInv, OriginOK, FamiliesOK
<1>1. Name(f) \in pushed' => Restacks(f)
  <2>1. ASSUME NEW w \in pass.todo, pass.pc = "push", w.kind = "branches", PushBranches(w), Name(f) \in pushed'
        PROVE  Restacks(f)
    <3>1. pushed' = pushed \cup {Name(w.f)} /\ Restacks(w.f)
      BY <2>1, WriteIsOf DEF PushBranches, WriteOK
    <3>2. Name(f) = Name(w.f) => Same(w.f, f)
      BY <2>1, PushedIs
    <3> QED  BY <2>1, <3>1, <3>2, SameIs DEF TookOK
  <2>2. ASSUME NEW w, PushVersion(w)  PROVE pushed' = pushed
    BY <2>2 DEF PushVersion
  <2> QED  BY <2>1, <2>2, GhostsIs DEF TookOK
<1>2. ASSUME NEW c \in Layers(f), record'[c] # <<>>, <<f.op, c>> \in added'
      PROVE  f.saw[c].old < Len(record'[c]) /\ record'[c][f.saw[c].old + 1].op = f.op
  <2>1. c \in Change /\ f.saw[c].old \in Nat
    BY <1>0 DEF FamilyOK, PlanOK
  <2>2. /\ record[c] # <<>>
        /\ Len(record[c]) \in Nat /\ Len(record'[c]) \in Nat /\ Len(record[c]) <= Len(record'[c])
        /\ \A i \in 1..Len(record[c]) : record'[c][i] = record[c][i]
    BY <1>0, <1>2, <2>1, RecordStep, VersionsGrow
  <2>3. CASE <<f.op, c>> \in added
    <3>1. f.saw[c].old < Len(record[c]) /\ record[c][f.saw[c].old + 1].op = f.op
      BY <2>2, <2>3 DEF TookOK
    <3>2. f.saw[c].old + 1 \in 1..Len(record[c])
      BY <2>1, <2>2, <3>1
    <3> QED  BY <2>1, <2>2, <3>1, <3>2
  <2>4. CASE <<f.op, c>> \notin added
    <3>1. PICK w \in pass.todo : pass.pc = "push" /\ w.kind = "checked" /\ PushVersion(w)
      <4>1. ASSUME NEW w, PushBranches(w)  PROVE added' = added
        BY <4>1 DEF PushBranches
      <4> QED  BY <1>2, <2>4, <4>1, GhostsIs
    <3>2. w.c = c /\ c \in Layers(w.f) /\ w.f.op = f.op
      BY <1>2, <2>4, <3>1, VersionPushed
    <3>3. f.saw = w.f.saw
      BY <3>1, <3>2, PushedIs DEF Same
    <3>4. Len(record'[w.c]) = w.f.saw[w.c].old + 1 /\ record'[w.c][w.f.saw[w.c].old + 1].op = w.f.op
      BY <3>1, VersionPushed
    <3> QED  BY <2>1, <3>2, <3>3, <3>4
  <2> QED  BY <2>3, <2>4
<1> QED
  BY <1>0, <1>1, <1>2 DEF TookOK, Name, Layers, Restacks

\* What the families of the next state say was taken was.
LEMMA TookStep ==
  ASSUME KInv, [Next]_vars, NEW f \in Known'  PROVE TookOK(f)'
<1>0. IInv /\ HistoryOK /\ BranchesOK /\ RecordsOK /\ LandedOK /\ tip \in 0..MaxTip
      /\ ops \in 0..MaxOps /\ MaxOps \in Nat
      /\ \A g \in Known : FamilyOK(g) /\ TookOK(g) /\ g.op \in 1..ops
  BY RestackerAssumption DEF KInv, IInv, OriginOK, MainOK, FamiliesOK
<1>1. CASE f \in Known
  BY <1>0, <1>1, TookKept
<1>2. ASSUME NEW g \in pass.mem, NEW known \in BOOLEAN, Read(known), f \in {Confirmed(g, known), NextOf(g, known)}
      PROVE  TookOK(f)'
  <2>1. g \in Known /\ FamilyOK(g) /\ TookOK(g) /\ g.op \in Nat \ {0}
    BY <1>0 DEF Known
  <2> DEFINE h == Confirmed(g, known)
  <2>2. /\ FamilyOK(h) /\ Same(g, h) /\ h.report = g.report
        /\ (BranchPush(g, known) # "done" => h = g)
        /\ (BranchPush(g, known) = "done" =>
               h.moved /\ h.added = {c \in DOMAIN g.new : Version(g, c, known) = "done"})
    BY <2>1, ConfirmedIs
  <2>3. TookOK(h)
    <3>1. CASE BranchPush(g, known) # "done"
      BY <2>1, <2>2, <3>1
    <3>2. CASE BranchPush(g, known) = "done"
      <4>1. Name(g) \in pushed /\ \A c \in h.added : <<g.op, c>> \in added
        BY <1>0, <2>1, <2>2, <3>2, DoneWasTaken
      <4> QED  BY <2>1, <2>2, <4>1, TookSame
    <3> QED  BY <3>1, <3>2
  <2>4. TookOK(f)
    <3>1. CASE f = h
      BY <2>3, <3>1
    <3>2. CASE f = Replaced(h, known)
      <4>1. BranchPush(h, known) = "done" => h.moved
        BY <2>2
      <4>2. Same(h, f) /\ f.report = h.report /\ f.moved = h.moved /\ f.added = h.added
        BY <2>2, <3>2, <4>1, ReplacedIs
      <4> QED  BY <2>3, <4>2, TookSame DEF TookOK
    <3> QED  BY <1>2, <3>1, <3>2 DEF NextOf
  <2>5. UNCHANGED <<record, pushed, added>>
    BY <1>2 DEF Read, origin, ghosts
  <2> QED  BY <2>4, <2>5 DEF TookOK, Name, Layers, Restacks
<1>3. ASSUME NEW L \in Planned(pass.mem), f = Built(L, ops + 1), ops # MaxOps, ops' = ops + 1
      PROVE  TookOK(f)'
  <2>1. ops + 1 \in 1..MaxOps
    BY <1>0, <1>3
  <2>2. L \subseteq Unlanded /\ L # {} /\ Judge(L) \in {"restack", "hold"}
    BY <1>3, PlannedIs
  <2>3. /\ DOMAIN f.report.said = L /\ ~f.moved /\ f.added = {}
        /\ ~Restacks(f) => \A c \in L : f.report.said[c] # "added"
    BY <1>0, <1>3, <2>1, <2>2, BuiltIs
  <2>4. f.op = ops + 1 /\ Layers(f) = L /\ Name(f) = <<ops + 1, L>>
    BY <1>3, BuiltKeys
  <2>5. UNCHANGED <<pushed, added>>
    <3>1. ASSUME NEW w \in pass.todo, PushBranches(w) \/ PushVersion(w)  PROVE ops' = ops
      BY <3>1 DEF PushBranches, PushVersion
    <3> QED  BY <1>0, <1>3, <3>1, GhostsIs
  <2>6. Name(f) \notin pushed' /\ \A c : <<f.op, c>> \notin added'
    BY <1>0, <2>4, <2>5 DEF HistoryOK
  <2> QED
    BY <2>3, <2>4, <2>6 DEF TookOK, Name, Layers, Restacks
<1> QED  BY <1>0, <1>1, <1>2, <1>3, KnownStep

-----------------------------------------------------------------------------
(***************************************************************************)
(* The writes that wait.                                                   *)
(***************************************************************************)

\* The writes of a pass are decided by a read, and then only taken.
LEMMA TodoIs ==
  ASSUME IInv, [Next]_vars
  PROVE  \/ pass'.todo = {}
         \/ pass'.todo \subseteq pass.todo /\ pass'.busy = pass.busy
         \/ \E known \in BOOLEAN : Read(known)
         \/ \E w \in pass.todo : w.kind = "version" /\ pass'.busy = pass.busy
               /\ pass'.todo = (pass.todo \ {w}) \cup {[w EXCEPT !.kind = "checked"]}
<1>0. DOMAIN pass = DOMAIN IdlePass /\ PassOK  BY DEF IInv, PassOK
<1>1. CASE UNCHANGED vars \/ LoseScratch \/ Else
  BY <1>1, ElseIs DEF vars, local, LoseScratch
<1>2. CASE Start
  BY <1>2, StartIs
<1>3. CASE KeepObjects \/ WriteJournal
  BY <1>0, <1>3, KeepIs, WriteIs
<1>4. CASE KeepFails \/ Fail
  BY <1>4, GivenUp DEF IdlePass
<1>5. CASE LetGo
  BY <1>0, <1>5, LetGoIs DEF IdlePass
<1>6. ASSUME NEW w \in pass.todo, pass.pc = "push",
             PushBranches(w) \/ Checked(w) \/ PushVersion(w) \/ PushReport(w) \/ NotTaken(w)
      PROVE  \/ pass'.todo \subseteq pass.todo /\ pass'.busy = pass.busy
             \/ w.kind = "version" /\ pass'.busy = pass.busy
                /\ pass'.todo = (pass.todo \ {w}) \cup {[w EXCEPT !.kind = "checked"]}
  BY <1>0, <1>6, PushKeeps DEF Checked
<1>7. CASE Replace
  BY <1>0, <1>7, ReplaceIs
<1>8. CASE Again
  BY <1>0, <1>8, AgainIs DEF PassOK, Settling
<1>9. CASE Retire
  BY <1>0, <1>9, RetireIs DEF PassOK, Settling, IdlePass
<1>10. CASE Plan
  BY <1>0, <1>10, PlanIs DEF PassOK, Settling, IdlePass
<1> QED
  BY <1>1, <1>2, <1>3, <1>4, <1>5, <1>6, <1>7, <1>8, <1>9, <1>10, StepIs

\* A version is finished once the branches are done, or with them.
LEMMA VersionFinishes ==
  ASSUME NEW f, NEW known, FamilyOK(f), NEW c \in DOMAIN f.new
  PROVE  /\ Version(f, c, known) = "finish" => BranchPush(f, known) \in {"done", "finish"}
         /\ BranchPush(f, known) \in {"done", "stop", "wait", "finish"}
         /\ Version(f, c, known) \in {"done", "stop", "wait", "finish"}
<1>1. Restacks(f)  BY DEF Restacks
<1>2. BranchPush(f, known) \in {"done", "stop", "wait", "finish"}
  BY <1>1 DEF BranchPush
<1>3. Version(f, c, known) \in {"done", "stop", "wait", "finish"}
  BY <1>2 DEF Version
<1>4. Version(f, c, known) = "finish" => BranchPush(f, known) \notin {"stop", "wait"}
  BY DEF Version
<1> QED  BY <1>2, <1>3, <1>4

\* The writes that wait in the next state may be made.
LEMMA PushesStep ==
  ASSUME KInv, [Next]_vars, NEW w \in pass'.todo  PROVE PushOK(w)'
<1>0. IInv /\ HistoryOK /\ BranchesOK /\ RecordsOK /\ DOMAIN pass = DOMAIN IdlePass
      /\ pushed \subseteq pushed' /\ added \subseteq added'
      /\ \A g \in Known : FamilyOK(g) /\ TookOK(g) /\ g.op \in Nat \ {0}
  BY GhostsIs, RestackerAssumption DEF KInv, IInv, OriginOK, PassOK, MainOK, FamiliesOK
<1>1. ASSUME w \in pass.todo, pass'.busy = pass.busy  PROVE PushOK(w)'
  BY <1>0, <1>1 DEF KInv, PushOK, Name, Layers, Filed
<1>2. ASSUME NEW v \in pass.todo, v.kind = "version", w = [v EXCEPT !.kind = "checked"], pass'.busy = pass.busy
      PROVE  PushOK(w)'
  <2>1. WriteOK(v) /\ PushOK(v)
    BY <1>0, WriteIsOf DEF KInv
  <2>2. w.f = v.f /\ w.kind = "checked"
    BY <1>2, <2>1 DEF WriteOK
  <2> QED  BY <1>0, <1>2, <2>1, <2>2 DEF PushOK, Name, Layers, Filed
<1>3. ASSUME NEW known \in BOOLEAN, Read(known)  PROVE PushOK(w)'
  <2>1. PICK f \in pass.mem : \E p \in Phase(f, known) :
           w = [f |-> Confirmed(f, known), kind |-> p[1], c |-> p[2]]
    BY <1>0, <1>3, ReadIs
  <2>2. PICK p \in Phase(f, known) : w = [f |-> Confirmed(f, known), kind |-> p[1], c |-> p[2]]
    BY <2>1
  <2>3. f \in Known /\ FamilyOK(f) /\ TookOK(f) /\ f.op \in Nat \ {0}
    BY <1>0 DEF Known
  <2>4. /\ \/ w.kind = "branches"
           \/ w.kind = "version" /\ w.c \in DOMAIN f.new /\ Version(f, w.c, known) = "finish"
                 /\ BranchPush(f, known) # "finish"
           \/ w.kind = "report" /\ w.c \in DOMAIN f.reports /\ Report(f, w.c, known) = "finish"
                 /\ BranchPush(f, known) # "finish"
                 /\ \A c \in DOMAIN f.new : Version(f, c, known) # "finish"
           \/ w.kind = "happened" /\ w.c \in DOMAIN f.happened /\ Replacement(f, w.c, known) = "finish"
    BY <2>2, PhaseIs
  <2>5. /\ w.f = Confirmed(f, known) /\ Same(f, w.f) /\ w.f.report = f.report
        /\ w.f.happened = f.happened
    BY <2>2, <2>3, ConfirmedIs
  <2>6. Name(w.f) = Name(f) /\ w.f.op = f.op
    BY <2>5, SameIs DEF Same
  <2>7. Name(w.f) \in pass'.busy
    BY <1>0, <1>3, <2>6, ReadIs
  <2>8. BranchPush(f, known) = "done" => Name(f) \in pushed
    BY <1>0, <2>3, DoneWasTaken
  <2>9. \A c \in DOMAIN f.new : Version(f, c, known) = "done" => <<f.op, c>> \in added
    BY <1>0, <2>3, DoneWasTaken
  <2>10. w.kind \in {"version", "checked"} => Name(w.f) \in pushed
    BY <2>3, <2>4, <2>6, <2>8, VersionFinishes
  <2>11. ASSUME w.kind = "report", NEW d \in DOMAIN f.report.said, f.report.said[d] = "added"
         PROVE  <<f.op, d>> \in added
    <3>1. d \in Layers(f) /\ Restacks(f)
      BY <2>3, <2>11 DEF TookOK
    <3>2. d \in DOMAIN f.new
      BY <2>3, <3>1 DEF FamilyOK, PlanOK, Restacks
    <3>3. Report(f, w.c, known) = "finish" /\ Version(f, d, known) # "finish"
      BY <2>4, <2>11, <3>2
    <3>4. Version(f, d, known) \notin {"stop", "wait"}
      BY <3>2, <3>3 DEF Report
    <3> QED  BY <2>3, <2>9, <3>2, <3>3, <3>4, VersionFinishes
  <2>12. ASSUME w.kind = "happened", NEW d \in DOMAIN f.happened[w.c].report.said,
                f.happened[w.c].report.said[d] = "added"
         PROVE  <<f.op, d>> \in added
    <3>1. w.c \in DOMAIN f.happened /\ Happened(f, known) = f.happened[w.c].report
      BY <2>4, <2>12 DEF Replacement
    <3>2. d \in Layers(f) /\ Version(f, d, known) = "done"
      BY <2>3, <2>12, <3>1, HappenedIs
    <3>3. Restacks(f)
      BY <2>3, <3>1 DEF FamilyOK, ProgressOK
    <3>4. d \in DOMAIN f.new
      BY <2>3, <3>2, <3>3 DEF FamilyOK, PlanOK, Restacks
    <3> QED  BY <2>9, <3>2, <3>4
  <2>13. w.kind = "report" => Filed(w).report = f.report
    BY <2>5 DEF Filed
  <2>14. w.kind = "happened" => Filed(w).report = f.happened[w.c].report
    BY <2>5 DEF Filed
  <2>15. w.kind \in {"report", "happened"} =>
            \A d \in DOMAIN Filed(w).report.said :
                Filed(w).report.said[d] = "added" => <<w.f.op, d>> \in added
    BY <2>6, <2>11, <2>12, <2>13, <2>14
  <2> QED  BY <1>0, <2>7, <2>10, <2>15 DEF PushOK, Name, Layers, Filed
<1> QED  BY <1>0, <1>1, <1>2, <1>3, TodoIs

-----------------------------------------------------------------------------
(***************************************************************************)
(* A family no one else moved is as it was left.                           *)
(***************************************************************************)

\* It is so of every form of it.
LEMMA LiveSame ==
  ASSUME NEW f, NEW g, Same(f, g), LiveOK(f)  PROVE LiveOK(g)
<1>1. Layers(g) = Layers(f) /\ Name(g) = Name(f)
  BY SameIs
<1>2. g.op = f.op /\ g.tip = f.tip /\ g.saw = f.saw /\ g.new = f.new
  BY DEF Same
<1> QED  BY <1>1, <1>2 DEF LiveOK, Touched

\* What others do to a family, they touch it by.
LEMMA LiveElse ==
  ASSUME IInv, Else, NEW f, FamilyOK(f), f.op \in 1..ops, LiveOK(f)  PROVE LiveOK(f)'
<1>0. /\ RecordsOK /\ BranchesOK /\ UNCHANGED <<pushed, added>> /\ touched \subseteq touched'
      /\ Layers(f) \subseteq Change /\ Layers(f) # {}
      /\ \A c \in Layers(f) : f.saw[c].branch \in Uses[c] /\ f.saw[c].head.of = c /\ f.saw[c].branch \in Change
  BY ElseIs, TouchIs, RestackerAssumption DEF IInv, OriginOK, FamilyOK, PlanOK
<1>1. ASSUME \E c \in Layers(f) : <<f.op, c>> \in touched'  PROVE LiveOK(f)'
  BY <1>1 DEF LiveOK, Touched, Layers
<1>2. ASSUME NEW S, Touch(S), S \cap Layers(f) # {}  PROVE LiveOK(f)'
  BY <1>1, <1>2 DEF Touch
<1> DEFINE Still ==
      /\ f.tip \in line => f.tip \in line'
      /\ \A c \in Layers(f) :
            /\ branch'[f.saw[c].branch] = branch[f.saw[c].branch] /\ record'[c] = record[c]
            /\ f.saw[c].head \notin landed => f.saw[c].head \notin landed'
<1>3. ASSUME Still  PROVE LiveOK(f)'
  <2>1. CASE Touched(f)
    BY <1>0, <1>1, <2>1 DEF Touched
  <2>2. CASE ~Touched(f)
    <3>1. /\ f.tip \in line'
          /\ \A c \in Layers(f) :
                /\ Name(f) \in pushed' => branch'[f.saw[c].branch] = f.new[c]
                /\ record'[c] # <<>>
                /\ Len(record'[c]) = IF <<f.op, c>> \in added' THEN f.saw[c].old + 1 ELSE f.saw[c].old
                /\ f.saw[c].head \notin landed'
      BY <1>0, <1>3, <2>2 DEF LiveOK
    <3> QED  BY <3>1 DEF LiveOK, Name, Layers
  <2> QED  BY <2>1, <2>2
<1>4. ASSUME NEW c \in Change, NEW b \in Uses[c], MoveBranch(c, b)  PROVE LiveOK(f)'
  <2>1. PICK h : branch' = [branch EXCEPT ![b] = h] /\ Touch(Owners(b))
               /\ UNCHANGED <<line, record, landed>>
    BY <1>4 DEF MoveBranch
  <2>2. CASE \E d \in Layers(f) : f.saw[d].branch = b
    <3>1. Owners(b) \cap Layers(f) # {}
      BY <1>0, <2>2 DEF Owners
    <3> QED  BY <1>2, <2>1, <3>1
  <2>3. CASE ~ \E d \in Layers(f) : f.saw[d].branch = b
    <3>1. Still
      BY <1>0, <2>1, <2>3 DEF BranchesOK
    <3> QED  BY <1>3, <3>1
  <2> QED  BY <2>2, <2>3
<1>5. ASSUME NEW c \in Change, NEW b \in Uses[c], Upload(c, b) \/ Unready(c) \/ DeleteRecord(c)
      PROVE  LiveOK(f)'
  <2>1. Touch({c}) /\ UNCHANGED <<line, branch, landed>> /\ \E s : record' = [record EXCEPT ![c] = s]
    BY <1>5 DEF Upload, Unready, DeleteRecord
  <2>2. CASE c \in Layers(f)
    BY <1>2, <2>1, <2>2
  <2>3. CASE c \notin Layers(f)
    <3>1. Still
      BY <1>0, <2>1, <2>3 DEF RecordsOK
    <3> QED  BY <1>3, <3>1
  <2> QED  BY <2>2, <2>3
<1>6. ASSUME NEW c \in Change, Land(c)  PROVE LiveOK(f)'
  <2>1. /\ Touch({c}) /\ UNCHANGED <<branch, record>> /\ line' = line \cup {tip + 1}
        /\ landed' = landed \cup {request[c]} /\ request[c] \in VersionHeads(c)
    BY <1>6 DEF Land
  <2>2. request[c].of = c
    BY <1>0, <2>1 DEF RecordsOK, VersionHeads, EntryOK
  <2>3. CASE c \in Layers(f)
    BY <1>2, <2>1, <2>3
  <2>4. CASE c \notin Layers(f)
    <3>1. Still
      BY <1>0, <2>1, <2>2, <2>4
    <3> QED  BY <1>3, <3>1
  <2> QED  BY <2>3, <2>4
<1>7. ASSUME NEW kept \in BOOLEAN, MoveMain(kept)  PROVE LiveOK(f)'
  <2>1. UNCHANGED <<branch, record, landed>> /\ (line \subseteq line' \/ Touch(Change))
    BY <1>7 DEF MoveMain
  <2>2. CASE Touch(Change)
    BY <1>0, <1>2, <2>2
  <2>3. CASE line \subseteq line'
    <3>1. Still
      BY <2>1, <2>3
    <3> QED  BY <1>3, <3>1
  <2> QED  BY <2>1, <2>2, <2>3
<1>8. ASSUME NEW c \in Change, ReportElse(c) \/ File(c) \/ JudgeStale(c)  PROVE LiveOK(f)'
  <2>1. UNCHANGED <<line, branch, record, landed>>
    BY <1>8 DEF ReportElse, File, JudgeStale
  <2>2. Still
    BY <2>1
  <2> QED  BY <1>3, <2>2
<1> HIDE DEF Still
<1>9. \A c \in Change : c \in Uses[c]
  BY RestackerAssumption
<1> QED  BY <1>4, <1>5, <1>6, <1>7, <1>8, <1>9 DEF Else

\* A push moves the family whose push it is, and no other.
LEMMA LivePush ==
  ASSUME IInv, [Next]_vars, NEW w \in pass.todo, pass.pc = "push",
         \/ w.kind = "branches" /\ PushBranches(w)
         \/ w.kind = "checked" /\ PushVersion(w),
         NEW g \in journal \cup pass.mem, NEW f, Same(g, f), FamilyOK(f), LiveOK(f)
  PROVE  LiveOK(f)'
<1>0. /\ RecordsOK /\ Layers(f) \subseteq Change /\ Layers(f) # {}
      /\ \A c \in Layers(f) : f.saw[c].branch \in Change /\ f.saw[c].old \in Nat
      /\ Layers(g) = Layers(f) /\ Name(g) = Name(f) /\ g.saw = f.saw /\ g.new = f.new /\ g.op = f.op
      /\ (Layers(g) \cap Layers(w.f) # {} \/ Name(g) = Name(w.f)
          \/ \E c \in Layers(g), d \in Layers(w.f) : g.saw[c].branch = w.f.saw[d].branch) => g = w.f
  <2>1. \A c \in Layers(f) : f.saw[c].branch \in Uses[c] /\ c \in Change
    BY DEF FamilyOK, PlanOK
  <2>2. \A c \in Layers(f) : f.saw[c].branch \in Change
    BY <2>1, RestackerAssumption
  <2>3. RecordsOK /\ Layers(f) \subseteq Change /\ Layers(f) # {} /\ \A c \in Layers(f) : f.saw[c].old \in Nat
    BY DEF IInv, OriginOK, FamilyOK, PlanOK
  <2> QED  BY <2>2, <2>3, PushedIs, SameIs DEF Same
<1>1. UNCHANGED <<line, landed, touched>>
  BY DEF PushBranches, PushVersion
<1>2. CASE Touched(f)
  BY <1>1, <1>2 DEF LiveOK, Touched, Layers
<1>3. CASE ~Touched(f) /\ w.kind = "branches" /\ PushBranches(w)
  <2>1. UNCHANGED <<record, added>> /\ pushed' = pushed \cup {Name(w.f)} /\ FamilyOK(w.f) /\ Restacks(w.f)
    BY <1>3, WriteIsOf DEF PushBranches, WriteOK
  <2>2. ASSUME NEW c \in Layers(f), Name(f) \in pushed'  PROVE branch'[f.saw[c].branch] = f.new[c]
    <3> DEFINE b == f.saw[c].branch
    <3>1. \/ branch'[b] = branch[b] /\ \A d \in Layers(w.f) : w.f.saw[d].branch # b
          \/ \E d \in Layers(w.f) : w.f.saw[d].branch = b /\ branch'[b] = w.f.new[d]
      BY <1>0, <1>3, <2>1, BranchMoves
    <3>2. CASE g = w.f
      <4>1. \A d \in Layers(w.f) : w.f.saw[d].branch = b => d = c
        BY <1>0, <2>1, <3>2 DEF FamilyOK, PlanOK
      <4> QED  BY <1>0, <3>1, <3>2, <4>1
    <3>3. CASE g # w.f
      <4>1. Name(f) \in pushed /\ \A d \in Layers(w.f) : w.f.saw[d].branch # b
        BY <1>0, <2>1, <2>2, <3>3
      <4> QED  BY <1>3, <3>1, <4>1 DEF LiveOK
    <3> QED  BY <3>2, <3>3
  <2>3. /\ f.tip \in line
        /\ \A c \in Layers(f) :
          /\ record[c] # <<>>
          /\ Len(record[c]) = IF <<f.op, c>> \in added THEN f.saw[c].old + 1 ELSE f.saw[c].old
          /\ f.saw[c].head \notin landed
    BY <1>3 DEF LiveOK
  <2> QED  BY <1>1, <2>1, <2>2, <2>3 DEF LiveOK, Touched, Layers, Name
<1>4. CASE ~Touched(f) /\ w.kind = "checked" /\ PushVersion(w)
  <2>1. /\ w.c \in Layers(w.f) /\ w.c \in Change
        /\ Len(record'[w.c]) = w.f.saw[w.c].old + 1
        /\ added' = added \cup {<<w.f.op, w.c>>} /\ UNCHANGED <<pushed, branch>>
        /\ \A c \in Change \ {w.c} : record'[c] = record[c]
    BY <1>4, VersionPushed
  <2>2. /\ f.tip \in line
        /\ \A c \in Layers(f) :
          /\ Name(f) \in pushed => branch[f.saw[c].branch] = f.new[c]
          /\ record[c] # <<>>
          /\ Len(record[c]) = IF <<f.op, c>> \in added THEN f.saw[c].old + 1 ELSE f.saw[c].old
          /\ f.saw[c].head \notin landed
    BY <1>4 DEF LiveOK
  <2>3. ASSUME NEW c \in Layers(f)
        PROVE  /\ record'[c] # <<>>
               /\ Len(record'[c]) = IF <<f.op, c>> \in added' THEN f.saw[c].old + 1 ELSE f.saw[c].old
    <3>1. CASE c = w.c
      <4>1. g = w.f /\ f.saw = w.f.saw /\ f.op = w.f.op
        BY <1>0, <2>1, <3>1
      <4>2. Len(record'[c]) = f.saw[c].old + 1 /\ <<f.op, c>> \in added'
        BY <2>1, <3>1, <4>1
      <4>3. record'[c] # <<>>
        BY <1>0, <4>2, EmptyIs
      <4> QED  BY <4>2, <4>3
    <3>2. CASE c # w.c
      <4>1. record'[c] = record[c] /\ (<<f.op, c>> \in added' <=> <<f.op, c>> \in added)
        BY <1>0, <2>1, <3>2
      <4> QED  BY <2>2, <4>1
    <3> QED  BY <3>1, <3>2
  <2> QED  BY <1>1, <2>1, <2>2, <2>3 DEF LiveOK, Touched, Layers, Name
<1> QED  BY <1>2, <1>3, <1>4

\* What a pass holds is what it held, in some form, or is planned.
LEMMA HeldStep ==
  ASSUME IInv, [Next]_vars, NEW f \in journal' \cup pass'.mem
  PROVE  \/ \E g \in journal \cup pass.mem : Same(g, f)
         \/ /\ Plan /\ UNCHANGED <<origin, ghosts>> /\ ops # MaxOps /\ ops' = ops + 1
            /\ \E L \in Planned(pass.mem) : f = Built(L, ops + 1)
<1>0. DOMAIN pass = DOMAIN IdlePass /\ PassOK  BY DEF IInv, PassOK
<1>1. \A g : Same(g, g)  BY DEF Same
<1>2. CASE UNCHANGED vars \/ LoseScratch \/ Else
  BY <1>1, <1>2, ElseIs DEF vars, local, LoseScratch
<1>3. CASE Start
  BY <1>1, <1>3, StartIs
<1>4. CASE KeepObjects \/ WriteJournal
  BY <1>0, <1>1, <1>4, KeepIs, WriteIs
<1>5. CASE KeepFails \/ Fail
  BY <1>1, <1>5, GivenUp DEF IdlePass
<1>6. CASE LetGo
  BY <1>0, <1>1, <1>6, LetGoIs DEF IdlePass
<1>7. ASSUME NEW known \in BOOLEAN, Read(known)  PROVE \E g \in journal \cup pass.mem : Same(g, f)
  <2>1. \A g \in pass.mem : FamilyOK(g)
    BY DEF IInv, FamiliesOK, Known
  <2> QED  BY <1>0, <1>1, <1>7, <2>1, ReadIs, ConfirmedIs
<1>8. ASSUME NEW w \in pass.todo, pass.pc = "push",
             PushBranches(w) \/ Checked(w) \/ PushVersion(w) \/ PushReport(w) \/ NotTaken(w)
      PROVE  \E g \in journal \cup pass.mem : Same(g, f)
  BY <1>0, <1>1, <1>8, PushKeeps
<1>9. CASE Replace
  <2>1. Mirrors(pass.mem, pass.next)
    BY <1>0, <1>9, ReplaceIs DEF PassOK, Settling
  <2> QED  BY <1>0, <1>1, <1>9, <2>1, ReplaceIs DEF Mirrors
<1>10. CASE Again
  BY <1>0, <1>1, <1>10, AgainIs
<1>11. CASE Retire
  BY <1>0, <1>1, <1>11, RetireIs DEF IdlePass
<1>12. CASE Plan
  <2>1. /\ UNCHANGED <<origin, journal, ghosts>>
        /\ \/ pass' = IdlePass
           \/ ops # MaxOps /\ ops' = ops + 1 /\ pass'.mem = pass.mem \cup NewFamilies(pass.mem, ops + 1)
    BY <1>0, <1>12, PlanIs
  <2>2. CASE f \in journal \cup pass.mem
    BY <1>1, <2>2
  <2>3. CASE f \notin journal \cup pass.mem
    <3>1. ops # MaxOps /\ ops' = ops + 1 /\ f \in NewFamilies(pass.mem, ops + 1)
      BY <2>1, <2>3 DEF IdlePass
    <3> QED  BY <1>12, <2>1, <3>1 DEF NewFamilies
  <2> QED  BY <2>2, <2>3
<1> QED
  BY <1>2, <1>3, <1>4, <1>5, <1>6, <1>7, <1>8, <1>9, <1>10, <1>11, <1>12, StepIs

\* Every step keeps what is said of a family no one else moved.
LEMMA LiveStep ==
  ASSUME KInv, [Next]_vars, NEW f \in journal' \cup pass'.mem  PROVE LiveOK(f)'
<1>0. IInv /\ HistoryOK /\ RecordsOK /\ LandedOK /\ tip \in line /\ tip \in 0..MaxTip
      /\ ops \in 0..MaxOps /\ MaxOps \in Nat
  BY RestackerAssumption DEF KInv, IInv, OriginOK, MainOK
<1>1. ASSUME NEW g \in journal \cup pass.mem, Same(g, f)  PROVE LiveOK(f)'
  <2>1. FamilyOK(f) /\ LiveOK(f) /\ f.op \in 1..ops
    <3>1. FamilyOK(f)'
      BY FamiliesStep, <1>0 DEF FamiliesOK, Known
    <3>2. FamilyOK(f)
      BY <3>1 DEF FamilyOK, PlanOK, ProgressOK, ReportsOK, ReportOK, IsHead, Layers, Restacks, Name
    <3>3. LiveOK(g) /\ g.op \in 1..ops
      BY <1>0 DEF KInv, IInv, FamiliesOK, Known
    <3> QED  BY <1>1, <3>2, <3>3, LiveSame DEF Same
  <2>2. CASE Else
    BY <1>0, <2>1, <2>2, LiveElse
  <2>3. ASSUME NEW w \in pass.todo, pass.pc = "push",
               \/ w.kind = "branches" /\ PushBranches(w)
               \/ w.kind = "checked" /\ PushVersion(w)
        PROVE  LiveOK(f)'
    BY <1>0, <1>1, <2>1, <2>3, LivePush
  <2>4. ASSUME UNCHANGED <<line, branch, record, landed, pushed, added>>, touched' = touched
        PROVE  LiveOK(f)'
    BY <2>1, <2>4 DEF LiveOK, Touched, Layers, Name
  <2>5. ASSUME NEW w, PushReport(w)  PROVE UNCHANGED <<line, branch, record, landed>>
    BY <2>5 DEF PushReport
  <2>6. UNCHANGED <<line, branch, record, landed>> \/ Else
        \/ \E w \in pass.todo : pass.pc = "push" /\
              \/ w.kind = "branches" /\ PushBranches(w)
              \/ w.kind = "checked" /\ PushVersion(w)
    <3>1. UNCHANGED origin => UNCHANGED <<line, branch, record, landed>>
      BY DEF origin
    <3>2. ASSUME NEW w \in pass.todo, pass.pc = "push",
                 \/ w.kind = "branches" /\ PushBranches(w)
                 \/ w.kind = "checked" /\ PushVersion(w)
                 \/ w.kind \in {"report", "happened"} /\ PushReport(w)
          PROVE  \/ UNCHANGED <<line, branch, record, landed>>
                 \/ w.kind = "branches" /\ PushBranches(w)
                 \/ w.kind = "checked" /\ PushVersion(w)
      BY <2>5, <3>2
    <3> QED  BY <3>1, <3>2, OriginIs
  <2> QED  BY <2>2, <2>3, <2>4, <2>6, GhostsIs
<1>2. ASSUME UNCHANGED <<origin, ghosts>>, NEW L \in Planned(pass.mem), f = Built(L, ops + 1), ops # MaxOps
      PROVE  LiveOK(f)'
  <2>1. ops + 1 \in 1..MaxOps
    BY <1>0, <1>2
  <2>2. L \subseteq Unlanded /\ L # {} /\ Judge(L) \in {"restack", "hold"}
    BY <1>2, PlannedIs
  <2>3. f.tip = tip /\ \A c \in L : f.saw[c] = Observed(c)
    BY <1>0, <1>2, <2>1, <2>2, BuiltIs
  <2>4. f.op = ops + 1 /\ Layers(f) = L /\ Name(f) = <<ops + 1, L>>
    BY <1>2, BuiltKeys
  <2>5. Name(f) \notin pushed /\ \A c : <<f.op, c>> \notin added
    BY <1>0, <2>4 DEF HistoryOK
  <2>6. ASSUME NEW c \in L
        PROVE  record[c] # <<>> /\ Len(record[c]) = f.saw[c].old /\ f.saw[c].head \notin landed
    <3>1. c \in Recorded /\ VersionHeads(c) \cap landed = {}
      BY <2>2 DEF Unlanded
    <3>2. Active(c).head \in VersionHeads(c)
      BY <1>0, <3>1, ActiveIs
    <3>3. f.saw[c].old = Len(record[c]) /\ f.saw[c].head = Active(c).head
      <4>1. f.saw[c] = Observed(c)  BY <2>3
      <4>2. Observed(c).old = Len(record[c]) /\ Observed(c).head = Active(c).head  BY DEF Observed
      <4> QED  BY <4>1, <4>2
    <3>4. record[c] # <<>>
      BY <3>1 DEF Recorded
    <3> QED  BY <3>1, <3>2, <3>3, <3>4
  <2>7. LiveOK(f)
    BY <1>0, <2>3, <2>4, <2>5, <2>6 DEF LiveOK
  <2> QED  BY <1>2, <2>7 DEF LiveOK, Touched, Layers, Name, origin, ghosts
<1> QED  BY <1>0, <1>1, <1>2, HeldStep

-----------------------------------------------------------------------------
(***************************************************************************)
(* The restacker keeps its promise.                                        *)
(***************************************************************************)
LEMMA KInvInit ==
  ASSUME Init  PROVE  KInv
<1> DEFINE first(c) == [of |-> c, tip |-> 0, by |-> None, work |-> [d \in Under[c] \cup {c} |-> 1], more |-> FALSE]
<1>1. /\ branch = [c \in Change |-> first(c)]
      /\ record = [c \in Change |-> <<Commit(1, first(c), c, "ready", 0)>>]
      /\ report = [c \in Change |-> <<>>]
      /\ journal = {} /\ pass = IdlePass /\ ops = 0 /\ gone = {}
      /\ pushed = {} /\ added = {} /\ touched = {} /\ lost = FALSE
  BY DEF Init
<1>2. \A c : first(c).by = None
  OBVIOUS
<1> HIDE DEF first
<1>3. ASSUME NEW c \in Change, NEW e \in Range(record[c])
      PROVE  FromPushed(e.head) /\ (e.op # 0 => <<e.op, c>> \in added)
  <2> DEFINE x == Commit(1, first(c), c, "ready", 0)
  <2>1. x.head = first(c) /\ x.op = 0
    BY DEF Commit
  <2> HIDE DEF x
  <2>2. record[c] = <<x>>
    BY <1>1 DEF x
  <2>3. e = x
    BY <2>2, SingleIs
  <2> QED  BY <1>2, <2>1, <2>3 DEF FromPushed
<1>4. \A b \in Change : branch[b] # None => FromPushed(branch[b])
  BY <1>1, <1>2 DEF FromPushed
<1>5. \A c \in Change : IsSeq(report[c])
  BY <1>1, EmptyIs DEF IsSeq
<1>6. HistoryOK
  BY <1>1, <1>3, <1>4, <1>5 DEF HistoryOK
<1>7. Known = {} /\ pass.todo = {} /\ journal \cup pass.mem = {}
  BY <1>1 DEF Known, IdlePass
<1> QED  BY <1>6, <1>7, InvInit DEF KInv

\* Every step keeps it.
LEMMA KInvStep ==
  ASSUME KInv, [Next]_vars  PROVE  KInv'
<1>1. IInv'
  BY OriginStep, PassStep, FamiliesStep, WritesStep DEF KInv, IInv
<1> QED  BY <1>1, HistoryStep, TookStep, LiveStep, PushesStep DEF KInv

\* Together: what origin shows of the restacker is what it did, a write waits
\* only while its family may make it, and a family that no one else moved is
\* as the restacker left it.
THEOREM KInvHolds == Spec => []KInv
BY KInvInit, KInvStep, PTL DEF Spec

\* What a report tells: the versions it says were added.
Tale(c, r) == <<c, r.op, {d \in DOMAIN r.said : r.said[d] = "added"}>>

\* What is told, report by report.
LEMMA ToldIs ==
  ASSUME NEW t
  PROVE  t \in Told <=> \E c \in Change : \E r \in Range(report[c]) : t = Tale(c, r)
BY DEF Told, Tale

\* A report that is filed is one more that is told.
LEMMA ToldGrows ==
  ASSUME DOMAIN report = Change, \A d \in Change : IsSeq(report[d]),
         NEW c \in Change, NEW r, report' = [report EXCEPT ![c] = Append(@, r)]
  PROVE  Told' = Told \cup {Tale(c, r)}
<1>1. Range(report'[c]) = Range(report[c]) \cup {r}
  <2>1. report'[c] = Append(report[c], r) /\ report[c] \in Seq(Range(report[c]))
    BY DEF IsSeq
  <2> QED  BY <2>1, AppendIs
<1>2. \A d \in Change \ {c} : report'[d] = report[d]
  OBVIOUS
<1>3. ASSUME NEW t
      PROVE  t \in Told' <=> \E d \in Change : \E x \in Range(report'[d]) : t = Tale(d, x)
  BY DEF Told, Tale
<1>4. ASSUME NEW t  PROVE t \in Told' <=> t \in Told \/ t = Tale(c, r)
  <2>1. ASSUME t \in Told'  PROVE t \in Told \/ t = Tale(c, r)
    <3>1. PICK d \in Change : \E x \in Range(report'[d]) : t = Tale(d, x)
      BY <1>3, <2>1
    <3>2. PICK x \in Range(report'[d]) : t = Tale(d, x)
      BY <3>1
    <3>3. x \in Range(report[d]) \/ (d = c /\ x = r)
      BY <1>1, <1>2, <3>2
    <3> QED  BY <3>2, <3>3, ToldIs
  <2>2. ASSUME t \in Told  PROVE t \in Told'
    <3>1. PICK d \in Change : \E x \in Range(report[d]) : t = Tale(d, x)
      BY <2>2, ToldIs
    <3>2. Range(report[d]) \subseteq Range(report'[d])
      BY <1>1, <1>2
    <3> QED  BY <1>3, <3>1, <3>2
  <2>3. Tale(c, r) \in Told'
    BY <1>1, <1>3
  <2> QED  BY <2>1, <2>2, <2>3
<1> QED  BY <1>4

\* The report a write files is one of its family's operation.
LEMMA FiledIs ==
  ASSUME IInv, NEW w \in pass.todo, w.kind \in {"report", "happened"}
  PROVE  Filed(w).report.op = w.f.op /\ w.c \in Change
<1>1. WriteOK(w) /\ FamilyOK(w.f)
  BY WriteIsOf
<1>2. CASE w.kind = "report"
  BY <1>1, <1>2 DEF WriteOK, FamilyOK, PlanOK, ReportsOK, ReportOK, Filed
<1>3. CASE w.kind = "happened"
  BY <1>1, <1>3 DEF WriteOK, FamilyOK, PlanOK, ReportsOK, ReportOK, Filed
<1> QED  BY <1>2, <1>3

\* Every step is one the promise allows, or none of them.
LEMMA PromiseStep ==
  ASSUME KInv, [Next]_vars  PROVE  [Promise!Next]_(Promise!vars)
<1> DEFINE told == {t \in Told : t[2] # 0}
<1>0. IInv /\ HistoryOK /\ RecordsOK /\ ops \in 0..MaxOps /\ MaxOps \in Nat
  BY RestackerAssumption DEF KInv, IInv, OriginOK, MainOK
<1>1. ASSUME UNCHANGED <<pushed, added, report>>  PROVE UNCHANGED Promise!vars
  <2>1. Told' = Told  BY <1>1 DEF Told
  <2> QED  BY <1>1, <2>1 DEF Promise!vars
<1>2. ASSUME NEW w \in pass.todo, w.kind = "branches", PushBranches(w)  PROVE Promise!Next
  <2>1. w.f.op \in 1..MaxOps /\ Layers(w.f) \in SUBSET Change
    BY <1>0, WriteIsOf DEF FamilyOK, PlanOK
  <2>2. pushed' = pushed \cup {<<w.f.op, Layers(w.f)>>} /\ UNCHANGED <<added, report>>
    BY <1>2 DEF PushBranches, Name
  <2>3. UNCHANGED told
    BY <2>2 DEF Told
  <2>4. Promise!Branches(w.f.op, Layers(w.f))
    BY <2>2, <2>3 DEF Promise!Branches
  <2> QED  BY <2>1, <2>4 DEF Promise!Next
<1>3. ASSUME NEW w \in pass.todo, w.kind = "checked", PushVersion(w)  PROVE Promise!Next
  <2>1. w.f.op \in 1..MaxOps /\ Layers(w.f) \in SUBSET Change /\ w.c \in Layers(w.f) /\ w.c \in Change
    BY <1>0, <1>3, WriteIsOf DEF FamilyOK, PlanOK, WriteOK
  <2>2. /\ added' = added \cup {<<w.f.op, w.c>>} /\ UNCHANGED <<pushed, report>>
        /\ Len(record[w.c]) = w.f.saw[w.c].old
    BY <1>3 DEF PushVersion
  <2>3. UNCHANGED told
    BY <2>2 DEF Told
  <2>4. <<w.f.op, w.c>> \notin added
    <3>1. TookOK(w.f) /\ w.f.saw[w.c].old \in Nat \ {0}
      BY <1>0, <2>1, WriteIsOf DEF KInv, FamilyOK, PlanOK
    <3>2. record[w.c] # <<>>
      BY <2>2, <3>1, EmptyIs
    <3> QED  BY <2>1, <2>2, <3>1, <3>2 DEF TookOK
  <2>5. <<w.f.op, Layers(w.f)>> \in pushed
    BY <1>3 DEF KInv, PushOK, Name
  <2>6. Promise!AddVersion(w.f.op, w.c)
    BY <2>1, <2>2, <2>3, <2>4, <2>5 DEF Promise!AddVersion
  <2> QED  BY <2>1, <2>6 DEF Promise!Next
<1>4. ASSUME NEW w \in pass.todo, w.kind \in {"report", "happened"}, PushReport(w)  PROVE Promise!Next
  <2> DEFINE r == Filed(w).report
             S == {d \in DOMAIN r.said : r.said[d] = "added"}
  <2>1. w.f.op \in 1..MaxOps /\ r.op = w.f.op /\ w.c \in Change
    BY <1>0, <1>4, WriteIsOf, FiledIs
  <2>2. \A d \in S : <<w.f.op, d>> \in added
    BY <1>4 DEF KInv, PushOK
  <2>3. S \in SUBSET Change
    BY <1>0, <2>2 DEF HistoryOK
  <2>4. report' = [report EXCEPT ![w.c] = Append(@, r)] /\ UNCHANGED <<pushed, added>>
    BY <1>4 DEF PushReport, ghosts
  <2>5. Told' = Told \cup {<<w.c, w.f.op, S>>}
    <3>1. Tale(w.c, r) = <<w.c, w.f.op, S>>
      BY <2>1 DEF Tale
    <3> HIDE DEF r, S
    <3> QED  BY <1>0, <2>1, <2>4, <3>1, ToldGrows DEF HistoryOK
  <2> HIDE DEF r, S
  <2>6. told' = told \cup {<<w.c, w.f.op, S>>}
    <3>1. w.f.op # 0  BY <1>0, <2>1
    <3> QED  BY <2>5, <3>1
  <2>7. Promise!Tell(w.f.op, w.c, S)
    BY <2>2, <2>4, <2>6 DEF Promise!Tell
  <2> QED  BY <2>1, <2>3, <2>7 DEF Promise!Next
<1>5. ASSUME Else  PROVE UNCHANGED Promise!vars
  <2>1. UNCHANGED <<pushed, added>>
    BY <1>5, ElseIs
  <2>2. ASSUME NEW c \in Change, ReportElse(c)  PROVE UNCHANGED Promise!vars
    <3> DEFINE r == [op |-> 0, tip |-> tip, result |-> "blocked",
                     saw |-> [d \in {c} |-> Observed(d)], said |-> [d \in {c} |-> "none"], held |-> <<>>]
    <3>1. report' = [report EXCEPT ![c] = Append(@, r)] /\ Tale(c, r)[2] = 0
      BY <2>2 DEF ReportElse, Tale
    <3> HIDE DEF r
    <3>2. Told' = Told \cup {Tale(c, r)}
      BY <1>0, <3>1, ToldGrows DEF HistoryOK
    <3>3. UNCHANGED told
      BY <3>1, <3>2
    <3> QED  BY <2>1, <3>3 DEF Promise!vars
  <2>3. ASSUME NEW c \in Change, NEW b \in Uses[c],
               \/ MoveBranch(c, b) \/ Upload(c, b) \/ Unready(c) \/ DeleteRecord(c)
               \/ File(c) \/ JudgeStale(c) \/ Land(c)
        PROVE  UNCHANGED report
    BY <2>3 DEF MoveBranch, Upload, Unready, DeleteRecord, File, JudgeStale, Land
  <2>4. ASSUME NEW kept \in BOOLEAN, MoveMain(kept)  PROVE UNCHANGED report
    BY <2>4 DEF MoveMain
  <2>5. \A c \in Change : c \in Uses[c]
    BY RestackerAssumption
  <2> QED  BY <1>1, <1>5, <2>1, <2>2, <2>3, <2>4, <2>5 DEF Else
<1>6. CASE UNCHANGED origin
  <2>1. UNCHANGED report
    BY <1>6 DEF origin
  <2> QED  BY <1>1, <1>2, <1>3, <2>1, GhostsIs
<1> QED  BY <1>2, <1>3, <1>4, <1>5, <1>6, OriginIs

\* The restacker keeps what it promises the authors: a version is added only
\* once the branches of its whole family moved, once in an operation, and a
\* report tells only of versions that were added.
THEOREM PromiseKept == Spec => KeepsPromise
<1>1. Init => Promise!Init
  <2> SUFFICES ASSUME Init  PROVE Promise!Init
    OBVIOUS
  <2>1. pushed = {} /\ added = {} /\ \A c \in Change : report[c] = <<>>
    BY DEF Init
  <2>2. Told = {}
    <3> SUFFICES ASSUME NEW t \in Told  PROVE FALSE
      OBVIOUS
    <3> QED  BY <2>1, ToldIs, EmptyIs
  <2> QED  BY <2>1, <2>2 DEF Promise!Init
<1>2. KInv /\ [Next]_vars => [Promise!Next]_(Promise!vars)
  BY PromiseStep
<1> QED  BY <1>1, <1>2, KInvHolds, PTL DEF Spec, KeepsPromise, Promise!Spec

-----------------------------------------------------------------------------
(***************************************************************************)
(* What is let go has been seen through.                                   *)
(***************************************************************************)

\* A family whose branches moved had every version added, and one that says
\* its branches moved has a report for each change.
SeenThrough(o, L) == \/ lost \/ \E c \in L : <<o, c>> \in touched
                     \/ \A c \in L : <<o, c>> \in added
Reported(f) ==
    \A c \in Layers(f) : record[c] = <<>> \/
        \E r \in Range(report[c]) : \A d \in Layers(f) :
            <<f.op, d>> \in added /\ record[d] # <<>> => d \in DOMAIN r.said /\ r.said[d] = "added"
ReportedOK(f) == f.moved => lost \/ Reported(f)
Through(f) == (Name(f) \in pushed => SeenThrough(f.op, Layers(f))) /\ ReportedOK(f)

\* The journal j still names what was moved and is not seen through.
Seen(j) == \A m \in pushed : SeenThrough(m[1], m[2]) \/ \E f \in j : Name(f) = m

\* From a read on to the decision that follows from it, a family that the
\* pass may let go is through.
Unfinished == pass.busy \cup pass.open
Acting == pass.then \in {"push", "decide"} /\ pass.pc \in {"retain", "write", "letgo", "push", "decide"}
\* The invariant: of what a pass keeps and of what it lets go.
SeenInv ==
    /\ Seen(journal) /\ (pass.pc # "idle" => Seen(pass.mem))
    /\ Acting => \A f \in pass.mem : Name(f) \in Unfinished \/ Through(f)
    /\ Settling => \A f \in pass.next : Name(f) \in Unfinished \/ Through(f)
    /\ pass.pc \in {"retain", "write"} =>
          \A f \in journal : (\E g \in pass.mem : Name(g) = Name(f)) \/ ReportedOK(f)
SInv == KInv /\ SeenInv

\* A version that no read has yet shown added is decided the same way after
\* the read is confirmed, and so is what happened.
LEMMA ConfirmedDecides ==
  ASSUME NEW f, NEW known, FamilyOK(f), BranchPush(f, known) = "done"
  PROVE  LET h == Confirmed(f, known) IN
         /\ BranchPush(h, known) = "done"
         /\ \A c \in Layers(f) : Version(h, c, known) = Version(f, c, known)
         /\ Happened(h, known) = Happened(f, known)
<1> DEFINE h == Confirmed(f, known)
<1>1. /\ Same(f, h) /\ h.report = f.report /\ h.moved
      /\ h.added = {c \in DOMAIN f.new : Version(f, c, known) = "done"}
  BY ConfirmedIs
<1>2. /\ Layers(h) = Layers(f) /\ Restacks(h) /\ Restacks(f) /\ DOMAIN f.new = Layers(f)
      /\ h.op = f.op /\ h.tip = f.tip /\ h.saw = f.saw /\ h.new = f.new
  <2>1. Restacks(f)  BY DoneRestacks
  <2>2. DOMAIN f.new = Layers(f)  BY <2>1 DEF FamilyOK, PlanOK, Restacks
  <2> QED  BY <1>1, <2>1, <2>2, SameIs DEF Same
<1> HIDE DEF h
<1>3. BranchPush(h, known) = "done"
  BY <1>1, <1>2 DEF BranchPush
<1>4. ASSUME NEW c \in Layers(f)  PROVE Version(h, c, known) = Version(f, c, known)
  <2>1. /\ TookVersion(h, c) <=> TookVersion(f, c)
        /\ RecordMoved(h, c) <=> RecordMoved(f, c)
        /\ Has(h, "version", c) <=> Has(f, "version", c)
        /\ Submitted(h) <=> Submitted(f)
        /\ HeadsOf(h) = HeadsOf(f)
    BY <1>2 DEF TookVersion, RecordMoved, Has, Submitted, HeadsOf
  <2>2. Held(h) <=> Held(f)
    BY <1>2, <2>1 DEF Held
  <2>3. CASE Version(f, c, known) = "done"
    <3>1. c \in h.added  BY <1>1, <1>2, <2>3
    <3>2. Version(h, c, known) = "done"  BY <3>1 DEF Version
    <3> QED  BY <2>3, <3>2
  <2>4. CASE Version(f, c, known) # "done"
    <3>1. c \notin h.added /\ ~TookVersion(f, c) /\ c \notin f.added
      BY <1>1, <2>4 DEF Version
    <3> QED  BY <1>2, <1>3, <2>1, <2>2, <3>1 DEF Version
  <2> QED  BY <2>3, <2>4
<1>5. Happened(h, known) = Happened(f, known)
  <2> DEFINE became(g, c) == CASE Version(g, c, known) = "done" -> "added"
                               [] Version(g, c, known) = "stop" -> "stopped"
                               [] OTHER -> "paused"
             said(g) == [c \in Layers(g) |-> became(g, c)]
  <2>1. said(h) = said(f)
    BY <1>2, <1>4
  <2> DEFINE tale(r, s, L) == [r EXCEPT !.said = s,
                 !.result = IF \A c \in L : s[c] = "added" THEN "complete" ELSE "partial"]
  <2>2. /\ Happened(h, known) = tale(h.report, said(h), Layers(h))
        /\ Happened(f, known) = tale(f.report, said(f), Layers(f))
    BY DEF Happened
  <2> HIDE DEF said, tale
  <2> QED  BY <1>1, <1>2, <2>1, <2>2
<1> QED  BY <1>3, <1>4, <1>5 DEF h

\* A version added to a record that is still there shows on a read.
LEMMA AddedShows ==
  ASSUME NEW f, NEW known, TookOK(f), NEW c \in Layers(f), RecordsOK, c \in Change,
         f.saw[c].old \in Nat, record[c] # <<>>, <<f.op, c>> \in added
  PROVE  Version(f, c, known) = "done"
<1>1. f.saw[c].old < Len(record[c]) /\ record[c][f.saw[c].old + 1].op = f.op
  BY DEF TookOK
<1>2. Len(record[c]) \in Nat
  BY LastIs DEF RecordsOK, IsSeq
<1>3. TookVersion(f, c)
  BY <1>1, <1>2 DEF TookVersion
<1> QED  BY <1>3 DEF Version

\* A family that a read finds with no write to finish, and nothing to
\* replace, is through.
LEMMA ReadSettles ==
  ASSUME KInv, NEW known, NEW f \in pass.mem,
         Phase(f, known) = {}, NextOf(f, known) = Confirmed(f, known), ~IsOpen(f, known)
  PROVE  Through(Confirmed(f, known))
<1> DEFINE h == Confirmed(f, known)
<1>0. /\ HistoryOK /\ RecordsOK /\ BranchesOK /\ FamilyOK(f) /\ TookOK(f) /\ LiveOK(f) /\ f.op \in Nat \ {0}
  BY RestackerAssumption DEF KInv, IInv, OriginOK, MainOK, FamiliesOK, Known
<1>1. /\ Same(f, h) /\ FamilyOK(h) /\ h.happened = f.happened
      /\ (BranchPush(f, known) # "done" => h = f)
      /\ (BranchPush(f, known) = "done" => h.moved)
  BY <1>0, ConfirmedIs
<1>2. Layers(h) = Layers(f) /\ Name(h) = Name(f) /\ h.op = f.op
  BY <1>1, SameIs DEF Same
<1>3. /\ Layers(f) \subseteq Change /\ Layers(f) # {}
      /\ \A c \in Layers(f) : f.saw[c].old \in Nat \ {0} /\ f.saw[c].branch \in Change
  <2>1. \A c \in Layers(f) : f.saw[c].branch \in Uses[c] /\ c \in Change
    BY <1>0 DEF FamilyOK, PlanOK
  <2> QED  BY <1>0, <2>1, RestackerAssumption DEF FamilyOK, PlanOK
<1> HIDE DEF h
<1>4. ASSUME Name(f) \in pushed, ~lost, ~Touched(f), NEW c \in Layers(f), <<f.op, c>> \notin added
      PROVE  FALSE
  <2>1. /\ f.tip \in line /\ gone = {}
        /\ \A d \in Layers(f) : branch[f.saw[d].branch] = f.new[d] /\ f.saw[d].head \notin landed
        /\ Len(record[c]) = f.saw[c].old
    BY <1>0, <1>4 DEF LiveOK, HistoryOK
  <2>2. Restacks(f) /\ c \in DOMAIN f.new /\ DOMAIN f.new = Layers(f)
    BY <1>0, <1>4 DEF TookOK, FamilyOK, PlanOK, Restacks
  <2>3. f.new[c] # None
    BY <1>0, <2>2, HeadIs DEF FamilyOK, PlanOK
  <2>4. TookBranch(f, c)
    BY <2>1, <2>3 DEF TookBranch, Reaches
  <2>5. BranchPush(f, known) = "done"
    BY <2>2, <2>4 DEF BranchPush
  <2>6. Version(f, c, known) # "done"
    BY <1>0, <1>4, <2>2, DoneWasTaken
  <2>7. ~RecordMoved(f, c) /\ Has(f, "version", c) /\ ~Submitted(f)
    BY <2>1, <2>2 DEF RecordMoved, Has, Submitted
  <2>8. Version(f, c, known) \in {"wait", "finish"}
    BY <2>1, <2>5, <2>6, <2>7 DEF Version
  <2> QED  BY <2>2, <2>5, <2>8 DEF IsOpen
<1>5. ASSUME h.moved, ~lost, NEW c \in Layers(f), record[c] # <<>>
      PROVE  \E r \in Range(report[c]) : \A d \in Layers(f) :
                 <<f.op, d>> \in added /\ record[d] # <<>> => d \in DOMAIN r.said /\ r.said[d] = "added"
  <2> DEFINE now == Happened(h, known)
  <2>1. BranchPush(f, known) = "done"
    <3>1. f.moved => BranchPush(f, known) = "done"
      BY <1>0 DEF FamilyOK, ProgressOK, BranchPush
    <3> QED  BY <1>1, <1>5, <3>1
  <2>2. /\ BranchPush(h, known) = "done" /\ now = Happened(f, known)
        /\ \A d \in Layers(f) : Version(h, d, known) = Version(f, d, known)
    BY <1>0, <2>1, ConfirmedDecides DEF h
  <2>3. /\ DOMAIN now.said = Layers(f)
        /\ \A d \in Layers(f) : now.said[d] = "added" <=> Version(f, d, known) = "done"
    BY <1>1, <1>2, <2>2, HappenedIs
  <2>4. h = Replaced(h, known)
    BY DEF NextOf, h
  <2>5. ~SaysAlready(c, now) =>
           c \in DOMAIN h.happened /\ h.happened[c] = [old |-> Len(report[c]), report |-> now]
    BY <1>1, <1>2, <1>5, <2>2, <2>4, ReplacedIs
  <2> HIDE DEF now
  <2>6. CASE SaysAlready(c, now)
    <3>1. report[c] # <<>> /\ Last(report[c]).said = now.said
      BY <2>6 DEF SaysAlready, Says
    <3>2. Last(report[c]) \in Range(report[c])
      BY <1>0, <1>3, <3>1, LastIs DEF HistoryOK, IsSeq
    <3>3. ASSUME NEW d \in Layers(f), <<f.op, d>> \in added, record[d] # <<>>
          PROVE  d \in DOMAIN now.said /\ now.said[d] = "added"
      BY <1>0, <1>3, <2>3, <3>3, AddedShows
    <3> QED  BY <3>1, <3>2, <3>3
  <2>7. CASE ~SaysAlready(c, now)
    <3>1. c \in DOMAIN f.happened /\ f.happened[c].old = Len(report[c]) /\ f.happened[c].report = now
      BY <1>1, <2>5, <2>7
    <3>2. gone = {} /\ Len(report[c]) \in Nat
      <4>1. report[c] \in Seq(Range(report[c]))
        BY <1>0, <1>3 DEF HistoryOK, IsSeq
      <4> QED  BY <1>0, <1>5, <4>1 DEF HistoryOK
    <3>3. ~TookReport(c, f.happened[c])
      BY <3>1, <3>2 DEF TookReport
    <3>4. Replacement(f, c, known) = "finish"
      BY <1>5, <2>2, <2>7, <3>1, <3>2, <3>3 DEF Replacement
    <3> QED  BY <3>1, <3>4 DEF IsOpen
  <2> QED  BY <2>6, <2>7
<1>6. Name(h) \in pushed => SeenThrough(h.op, Layers(h))
  BY <1>2, <1>4 DEF SeenThrough, Touched
<1>7. ReportedOK(h)
  BY <1>2, <1>5 DEF ReportedOK, Reported
<1> QED  BY <1>6, <1>7 DEF Through, h

\* A report that is there stays there, and a version added to a record that
\* is still there was added to one that was.
LEMMA ReportedKept ==
  ASSUME KInv, [Next]_vars, NEW f, Layers(f) \subseteq Change, ReportedOK(f),
         \A d \in Layers(f) : <<f.op, d>> \in added' => <<f.op, d>> \in added
  PROVE  ReportedOK(f)'
<1>0. HistoryOK /\ RecordsOK  BY DEF KInv, IInv, OriginOK
<1>1. lost => lost'
  BY GhostsIs DEF LoseScratch
<1>2. \A c \in Change : record[c] = <<>> => record'[c] = <<>>
  BY RecordFrom
<1>3. \A c \in Change : Range(report[c]) \subseteq Range(report'[c])
  <2> SUFFICES ASSUME NEW c \in Change  PROVE Range(report[c]) \subseteq Range(report'[c])
    OBVIOUS
  <2>1. report[c] \in Seq(Range(report[c]))
    BY <1>0 DEF HistoryOK, IsSeq
  <2>2. ASSUME NEW r, report'[c] = Append(report[c], r)  PROVE Range(report[c]) \subseteq Range(report'[c])
    BY <2>1, <2>2, AppendIs
  <2> QED  BY <2>2, ReportsGrow
<1>4. ASSUME Reported(f)
      PROVE  \A c \in Layers(f) : record'[c] = <<>> \/
                \E r \in Range(report'[c]) : \A d \in Layers(f) :
                    <<f.op, d>> \in added' /\ record'[d] # <<>> => d \in DOMAIN r.said /\ r.said[d] = "added"
  <2> SUFFICES ASSUME NEW c \in Layers(f), record'[c] # <<>>
               PROVE  \E r \in Range(report'[c]) : \A d \in Layers(f) :
                    <<f.op, d>> \in added' /\ record'[d] # <<>> => d \in DOMAIN r.said /\ r.said[d] = "added"
    OBVIOUS
  <2>1. record[c] # <<>>
    BY <1>2
  <2>2. PICK r \in Range(report[c]) : \A d \in Layers(f) :
           <<f.op, d>> \in added /\ record[d] # <<>> => d \in DOMAIN r.said /\ r.said[d] = "added"
    BY <1>4, <2>1 DEF Reported
  <2>3. r \in Range(report'[c])
    BY <1>3
  <2> QED  BY <1>2, <2>2, <2>3
<1> QED  BY <1>1, <1>4 DEF ReportedOK, Reported, Layers

\* What was touched or lost stays so.
LEMMA SeenThroughKept ==
  ASSUME [Next]_vars, NEW o, NEW L, SeenThrough(o, L)  PROVE SeenThrough(o, L)'
<1>1. lost => lost'
  BY GhostsIs DEF LoseScratch
<1>2. touched \subseteq touched' /\ added \subseteq added'
  BY GhostsIs, TouchIs
<1> QED  BY <1>1, <1>2 DEF SeenThrough

\* A family that is through stays so while its writes are not pushed.
LEMMA ThroughKept ==
  ASSUME KInv, [Next]_vars, NEW f, Layers(f) \subseteq Change, Through(f),
         Name(f) \in pushed' => Name(f) \in pushed,
         \A d \in Layers(f) : <<f.op, d>> \in added' => <<f.op, d>> \in added
  PROVE  Through(f)'
<1>1. ReportedOK(f)'
  BY ReportedKept DEF Through
<1>2. Name(f) \in pushed' => SeenThrough(f.op, Layers(f))'
  BY SeenThroughKept DEF Through
<1> QED  BY <1>1, <1>2 DEF Through, Name, Layers

\* Only a family that is tried has its writes pushed.
LEMMA SettledKept ==
  ASSUME KInv, [Next]_vars, NEW f \in Known, Name(f) \in Unfinished \/ Through(f),
         UNCHANGED <<pass.busy, pass.open>>
  PROVE  Name(f) \in Unfinished' \/ Through(f)'
<1>0. IInv /\ FamilyOK(f) /\ Layers(f) \subseteq Change
  BY DEF KInv, IInv, FamiliesOK, FamilyOK, PlanOK
<1>1. CASE Name(f) \in Unfinished
  BY <1>1 DEF Unfinished, Name, Layers
<1>2. CASE Through(f) /\ Name(f) \notin Unfinished
  <2>1. ASSUME NEW w \in pass.todo  PROVE Name(w.f) # Name(f)
    BY <1>2 DEF KInv, PushOK, Unfinished
  <2>2. Name(f) \in pushed' => Name(f) \in pushed
    <3>1. ASSUME NEW w \in pass.todo, PushBranches(w)
          PROVE  pushed' = pushed \cup {Name(w.f)} /\ Name(w.f) # Name(f)
      BY <2>1, <3>1 DEF PushBranches
    <3>2. ASSUME NEW w \in pass.todo, PushVersion(w)  PROVE pushed' = pushed
      BY <3>2 DEF PushVersion
    <3> QED  BY <3>1, <3>2, GhostsIs
  <2>3. ASSUME NEW d \in Layers(f), <<f.op, d>> \in added'  PROVE <<f.op, d>> \in added
    <3>1. ASSUME NEW w \in pass.todo, pass.pc = "push", w.kind = "checked", PushVersion(w)
          PROVE  <<f.op, d>> \in added
      <4>1. added' = added \cup {<<w.f.op, w.c>>} /\ w.c \in Layers(w.f)
        BY <1>0, <3>1, VersionPushed
      <4>2. w.c # d
        <5> SUFFICES ASSUME w.c = d  PROVE FALSE
          OBVIOUS
        <5>1. Same(w.f, f)
          BY <1>0, <3>1, <4>1, PushedIs
        <5> QED  BY <2>1, <5>1, SameIs
      <4> QED  BY <2>3, <4>1, <4>2
    <3>2. ASSUME NEW w \in pass.todo, PushBranches(w)  PROVE added' = added
      BY <3>2 DEF PushBranches
    <3> QED  BY <2>3, <3>1, <3>2, GhostsIs
  <2> QED  BY <1>0, <1>2, <2>2, <2>3, ThroughKept
<1> QED  BY <1>1, <1>2

\* The families named go on being named while every branch push is of one of
\* them.
LEMMA SeenKept ==
  ASSUME KInv, [Next]_vars, NEW j, Seen(j), \A w \in pass.todo : pass.pc = "push" => w.f \in j
  PROVE  \A m \in pushed' : SeenThrough(m[1], m[2])' \/ \E f \in j : Name(f) = m
<1> SUFFICES ASSUME NEW m \in pushed'  PROVE SeenThrough(m[1], m[2])' \/ \E f \in j : Name(f) = m
  OBVIOUS
<1>1. CASE m \in pushed
  BY <1>1, SeenThroughKept DEF Seen
<1>2. CASE m \notin pushed
  <2>1. ASSUME NEW w, PushVersion(w)  PROVE pushed' = pushed
    BY <2>1 DEF PushVersion
  <2>2. PICK w \in pass.todo : pass.pc = "push" /\ PushBranches(w)
    BY <1>2, <2>1, GhostsIs
  <2>3. m = Name(w.f)
    BY <1>2, <2>2 DEF PushBranches
  <2> QED  BY <2>2, <2>3
<1> QED  BY <1>1, <1>2

\* More families, or other forms of the same, name as much.
LEMMA SeenMore ==
  ASSUME NEW j, NEW k, Seen(j), \A f \in j : \E g \in k : Name(g) = Name(f)  PROVE Seen(k)
BY DEF Seen

\* A push of a pass is of a family of the journal.
LEMMA PushedOfJournal ==
  ASSUME IInv, NEW w \in pass.todo, pass.pc = "push"  PROVE w.f \in journal /\ w.f \in pass.mem
BY PushedIs

\* The steps that leave the pass and the journal as they are, and the pushes.
LEMMA SeenQuiet ==
  ASSUME SInv, [Next]_vars, UNCHANGED journal,
         UNCHANGED <<pass.pc, pass.then, pass.mem, pass.next, pass.busy, pass.open>>,
         pass.pc \in {"retain", "write"} => UNCHANGED <<pushed, added>>
  PROVE  SeenInv'
<1>0. KInv /\ IInv /\ SeenInv
  BY DEF SInv, KInv
<1>1. Seen(journal)'
  <2>1. \A m \in pushed' : SeenThrough(m[1], m[2])' \/ \E f \in journal : Name(f) = m
    BY <1>0, PushedOfJournal, SeenKept DEF SeenInv
  <2> QED  BY <2>1 DEF Seen, Name, Layers
<1>2. pass'.pc # "idle" => Seen(pass.mem)'
  <2>1. pass.pc # "idle" =>
           \A m \in pushed' : SeenThrough(m[1], m[2])' \/ \E f \in pass.mem : Name(f) = m
    BY <1>0, PushedOfJournal, SeenKept DEF SeenInv
  <2> QED  BY <2>1 DEF Seen, Name, Layers
<1>3. Acting' => \A f \in pass'.mem : Name(f) \in Unfinished' \/ Through(f)'
  <2>1. Acting' => Acting  BY DEF Acting
  <2> QED  BY <1>0, <2>1, SettledKept DEF SeenInv, Known
<1>4. Settling' => \A f \in pass'.next : Name(f) \in Unfinished' \/ Through(f)'
  <2>1. Settling' => Settling  BY DEF Settling
  <2> QED  BY <1>0, <2>1, SettledKept DEF SeenInv, Known
<1>5. ASSUME pass.pc \in {"retain", "write"}, NEW f \in journal
      PROVE  (\E g \in pass.mem : Name(g) = Name(f)) \/ ReportedOK(f)'
  <2>1. Layers(f) \subseteq Change
    BY <1>0 DEF IInv, FamiliesOK, FamilyOK, PlanOK, Known
  <2>2. ReportedOK(f) => ReportedOK(f)'
    BY <1>0, <1>5, <2>1, ReportedKept
  <2> QED  BY <1>0, <1>5, <2>2 DEF SeenInv
<1> QED  BY <1>1, <1>2, <1>3, <1>4, <1>5 DEF SeenInv, Name, Layers

\* The steps of a pass that leave origin alone.
LEMMA SeenStill ==
  ASSUME SInv, UNCHANGED <<origin, ghosts>>
  PROVE  /\ \A j : Seen(j) => \A m \in pushed' : SeenThrough(m[1], m[2])' \/ \E f \in j : Name(f) = m
         /\ \A f : Through(f) => Through(f)'
         /\ \A f : ReportedOK(f) => ReportedOK(f)'
<1>1. UNCHANGED <<record, report, pushed, added, touched, lost>>
  BY DEF origin, ghosts
<1> QED  BY <1>1 DEF Seen, Through, ReportedOK, Reported, SeenThrough, Name, Layers

\* What a read decides: a family it need not try again, and that it leaves
\* nothing to be done for, is through.
LEMMA SeenRead ==
  ASSUME SInv, NEW known \in BOOLEAN, Read(known)  PROVE SeenInv'
<1>0. /\ KInv /\ IInv /\ SeenInv /\ DOMAIN pass = DOMAIN IdlePass /\ pass.pc = "read" /\ pass.mem = journal
      /\ \A f \in pass.mem : FamilyOK(f)
  BY DEF SInv, KInv, IInv, PassOK, FamiliesOK, Known, Read
<1>1. /\ UNCHANGED <<origin, journal, ghosts>>
      /\ pass'.then = "push" /\ pass'.pc \in {"push", "retain"}
      /\ pass'.mem = {Confirmed(f, known) : f \in pass.mem}
      /\ pass'.next = {NextOf(f, known) : f \in pass.mem}
      /\ \A f \in pass.mem :
            /\ Phase(f, known) # {} \/ NextOf(f, known) # Confirmed(f, known) => Name(f) \in pass'.busy
            /\ IsOpen(f, known) => Name(f) \in pass'.open
  BY <1>0, ReadIs
<1>2. \A f \in pass.mem : Name(Confirmed(f, known)) = Name(f) /\ Name(NextOf(f, known)) = Name(f)
  BY <1>0, ConfirmedIs, NextIs, SameIs
<1>3. \A f \in pass.mem : \E g \in pass'.mem : Name(g) = Name(f)
  BY <1>1, <1>2
<1>4. Seen(journal)' /\ Seen(pass.mem)'
  <2>1. Seen(pass'.mem)
    BY <1>0, <1>3, SeenMore DEF SeenInv
  <2>2. /\ \A m \in pushed' : SeenThrough(m[1], m[2])' \/ \E f \in journal : Name(f) = m
        /\ \A m \in pushed' : SeenThrough(m[1], m[2])' \/ \E f \in pass'.mem : Name(f) = m
    BY <1>0, <1>1, <2>1, SeenStill DEF SeenInv
  <2> QED  BY <1>1, <2>2 DEF Seen, Name, Layers
<1>5. ASSUME NEW f \in pass.mem, NEW g \in {Confirmed(f, known), NextOf(f, known)}
      PROVE  Name(g) \in Unfinished' \/ Through(g)'
  <2>0. Name(g) = Name(f)
    BY <1>2, <1>5
  <2>1. CASE Phase(f, known) # {} \/ NextOf(f, known) # Confirmed(f, known) \/ IsOpen(f, known)
    BY <1>1, <2>0, <2>1 DEF Unfinished
  <2>2. CASE Phase(f, known) = {} /\ NextOf(f, known) = Confirmed(f, known) /\ ~IsOpen(f, known)
    <3>1. g = Confirmed(f, known)
      BY <1>5, <2>2
    <3>2. Through(g)
      BY <1>0, <2>2, <3>1, ReadSettles
    <3> QED  BY <1>1, <3>2, SeenStill
  <2> QED  BY <2>1, <2>2
<1>6. \A g \in pass'.mem \cup pass'.next : Name(g) \in Unfinished' \/ Through(g)'
  <2> SUFFICES ASSUME NEW g \in pass'.mem \cup pass'.next  PROVE Name(g) \in Unfinished' \/ Through(g)'
    OBVIOUS
  <2>1. PICK f \in pass.mem : g \in {Confirmed(f, known), NextOf(f, known)}
    BY <1>1
  <2> QED  BY <1>5, <2>1
<1>7. \A f \in journal' : \E g \in pass'.mem : Name(g) = Name(f)
  BY <1>0, <1>1, <1>3
<1> QED  BY <1>4, <1>6, <1>7 DEF SeenInv, Name, Layers

\* The replacements take the place of the families they are for.
LEMMA SeenReplace ==
  ASSUME SInv, Replace  PROVE SeenInv'
<1>0. /\ KInv /\ SeenInv /\ DOMAIN pass = DOMAIN IdlePass /\ PassOK
  BY DEF SInv, KInv, IInv, PassOK
<1>1. /\ pass.pc = "push" /\ UNCHANGED <<origin, journal, ghosts>>
      /\ pass'.then = "decide" /\ pass'.pc \in {"decide", "retain"}
      /\ pass'.mem = pass.next /\ UNCHANGED <<pass.busy, pass.open>>
  BY <1>0, ReplaceIs
<1>2. Settling /\ pass.mem = journal /\ \A f \in pass.mem : \E g \in pass.next : Name(g) = Name(f)
  <2>1. Settling /\ pass.mem = journal /\ Mirrors(pass.next, pass.mem)
    BY <1>0, <1>1 DEF PassOK, Settling
  <2>2. \A f \in pass.mem : \E g \in pass.next : Same(g, f)
    BY <2>1 DEF Mirrors
  <2> QED  BY <2>1, <2>2, SameIs
<1>3. Seen(journal)' /\ Seen(pass.mem)'
  <2>1. Seen(pass'.mem)
    BY <1>0, <1>1, <1>2, SeenMore DEF SeenInv
  <2>2. /\ \A m \in pushed' : SeenThrough(m[1], m[2])' \/ \E f \in journal : Name(f) = m
        /\ \A m \in pushed' : SeenThrough(m[1], m[2])' \/ \E f \in pass'.mem : Name(f) = m
    BY <1>0, <1>1, <2>1, SeenStill DEF SeenInv
  <2> QED  BY <1>1, <2>2 DEF Seen, Name, Layers
<1>4. ASSUME NEW f \in pass'.mem  PROVE Name(f) \in Unfinished' \/ Through(f)'
  <2>1. Name(f) \in Unfinished \/ Through(f)
    BY <1>0, <1>1, <1>2, <1>4 DEF SeenInv
  <2> QED  BY <1>1, <2>1, SeenStill DEF Unfinished
<1>5. ~Settling'
  BY <1>1 DEF Settling
<1>6. \A f \in journal' : \E g \in pass'.mem : Name(g) = Name(f)
  BY <1>1, <1>2
<1> QED  BY <1>3, <1>4, <1>5, <1>6 DEF SeenInv, Name, Layers

\* What a pass retires is through.
LEMMA RetiredThrough ==
  ASSUME SInv, Retire, NEW f \in journal, f \notin journal'  PROVE Through(f)
<1>0. /\ SeenInv /\ DOMAIN pass = DOMAIN IdlePass /\ PassOK
  BY DEF SInv, KInv, IInv, PassOK
<1>1. PICK mem \in SUBSET pass.mem :
            /\ pass.pc = "decide"
            /\ \A g \in pass.mem \ mem : Name(g) \notin pass.busy \cup pass.open
            /\ journal' = IF mem = {} THEN {} ELSE journal
  BY <1>0, RetireIs
<1>2. Acting /\ f \in pass.mem \ mem
  BY <1>0, <1>1 DEF PassOK, Acting
<1> QED  BY <1>0, <1>1, <1>2 DEF SeenInv, Unfinished

\* A pass that retires a family goes on to name the others.
LEMMA SeenRetire ==
  ASSUME SInv, Retire  PROVE SeenInv'
<1>0. /\ KInv /\ SeenInv /\ DOMAIN pass = DOMAIN IdlePass /\ PassOK
  BY DEF SInv, KInv, IInv, PassOK
<1>1. PICK mem \in SUBSET pass.mem :
            /\ pass.pc = "decide" /\ UNCHANGED <<origin, retained, gone, ops, moves, faults, ghosts>>
            /\ \A f \in pass.mem \ mem : Name(f) \notin pass.busy \cup pass.open
            /\ journal' = IF mem = {} THEN {} ELSE journal
            /\ \/ pass' = IdlePass /\ mem = pass.mem
               \/ /\ DOMAIN pass' = DOMAIN pass /\ pass'.mem = mem /\ pass'.then \in {"idle", "plan"}
                  /\ pass'.todo = pass.todo /\ pass'.next = pass.next
                  /\ pass'.pc = IF mem = {} THEN "letgo" ELSE IF mem = pass.mem THEN "plan" ELSE "retain"
  BY <1>0, RetireIs
<1>2. pass.mem = journal /\ Acting
  BY <1>0, <1>1 DEF PassOK, Acting
<1>3. \A f \in pass.mem \ mem : Through(f)
  BY <1>0, <1>1, <1>2 DEF SeenInv, Unfinished
<1>4. Seen(mem)
  <2> SUFFICES ASSUME NEW m \in pushed, ~SeenThrough(m[1], m[2])  PROVE \E f \in mem : Name(f) = m
    BY DEF Seen
  <2>1. PICK f \in pass.mem : Name(f) = m
    BY <1>0, <1>2 DEF SeenInv, Seen
  <2>2. ~Through(f)
    BY <2>1 DEF Through, Name
  <2> QED  BY <1>3, <2>1, <2>2
<1>5. Seen(journal')
  BY <1>0, <1>1, <1>4 DEF SeenInv
<1>6. Seen(journal)' /\ Seen(mem)'
  <2>1. /\ \A m \in pushed' : SeenThrough(m[1], m[2])' \/ \E f \in journal' : Name(f) = m
        /\ \A m \in pushed' : SeenThrough(m[1], m[2])' \/ \E f \in mem : Name(f) = m
    BY <1>1, <1>4, <1>5, SeenStill
  <2> QED  BY <2>1 DEF Seen, Name, Layers
<1>7. pass'.pc # "idle" => Seen(pass.mem)'
  <2>1. pass'.pc # "idle" => pass'.mem = mem
    BY <1>1 DEF IdlePass
  <2> QED  BY <1>6, <2>1 DEF Seen, Name, Layers
<1>8. ~Acting' /\ ~Settling'
  BY <1>1 DEF Acting, Settling, IdlePass
<1>9. ASSUME pass'.pc \in {"retain", "write"}, NEW f \in journal'
      PROVE  (\E g \in pass'.mem : Name(g) = Name(f)) \/ ReportedOK(f)'
  <2>1. pass'.mem = mem /\ f \in pass.mem
    BY <1>1, <1>2, <1>9 DEF IdlePass
  <2>2. CASE f \in mem
    BY <2>1, <2>2
  <2>3. CASE f \notin mem
    <3>1. ReportedOK(f)
      BY <1>3, <2>1, <2>3 DEF Through
    <3> QED  BY <1>1, <3>1, SeenStill
  <2> QED  BY <2>2, <2>3
<1> QED  BY <1>6, <1>7, <1>8, <1>9 DEF SeenInv, Name, Layers

\* Every step keeps it.
LEMMA SeenStep ==
  ASSUME SInv, [Next]_vars  PROVE SInv'
<1>0. /\ KInv /\ IInv /\ SeenInv /\ DOMAIN pass = DOMAIN IdlePass /\ PassOK
  BY DEF SInv, KInv, IInv, PassOK
<1> SUFFICES SeenInv'
  BY <1>0, KInvStep DEF SInv
<1>1. ASSUME UNCHANGED <<origin, ghosts>>
      PROVE  /\ \A j : Seen(j) => \A m \in pushed' : SeenThrough(m[1], m[2])' \/ \E f \in j : Name(f) = m
             /\ \A f : Through(f) => Through(f)'
             /\ \A f : ReportedOK(f) => ReportedOK(f)'
  BY <1>1, SeenStill
<1>2. ASSUME UNCHANGED <<journal, pass>>, pass.pc \in {"retain", "write"} => UNCHANGED <<pushed, added>>
      PROVE  SeenInv'
  BY <1>2, SeenQuiet
<1>3. CASE UNCHANGED vars \/ LoseScratch \/ Else
  <2>1. UNCHANGED <<journal, pass, pushed, added>>
    BY <1>3, ElseIs DEF vars, local, ghosts, LoseScratch
  <2> QED  BY <1>2, <2>1
<1>4. ASSUME NEW w \in pass.todo, pass.pc = "push",
             PushBranches(w) \/ Checked(w) \/ PushVersion(w) \/ PushReport(w) \/ NotTaken(w)
      PROVE  SeenInv'
  <2>1. UNCHANGED <<journal, pass.pc, pass.then, pass.mem, pass.next, pass.busy, pass.open>>
    BY <1>0, <1>4, PushKeeps
  <2> QED  BY <1>4, <2>1, SeenQuiet
<1>5. ASSUME UNCHANGED <<origin, ghosts, journal>>, ~Acting', ~Settling',
             \A f \in pass.mem : pass.pc # "idle" => f \in pass'.mem,
             pass'.pc # "idle" => pass.pc # "idle" \/ pass'.mem = journal,
             pass'.pc \in {"retain", "write"} => pass.mem = journal /\ pass.pc # "idle"
      PROVE  SeenInv'
  <2>1. Seen(journal)'
    <3>1. \A m \in pushed' : SeenThrough(m[1], m[2])' \/ \E f \in journal : Name(f) = m
      BY <1>0, <1>1, <1>5 DEF SeenInv
    <3> QED  BY <1>5, <3>1 DEF Seen, Name, Layers
  <2>2. ASSUME pass'.pc # "idle"  PROVE Seen(pass.mem)'
    <3>1. Seen(pass'.mem)
      BY <1>0, <1>5, <2>2, SeenMore DEF SeenInv
    <3>2. \A m \in pushed' : SeenThrough(m[1], m[2])' \/ \E f \in pass'.mem : Name(f) = m
      BY <1>1, <1>5, <3>1
    <3> QED  BY <3>2 DEF Seen, Name, Layers
  <2>3. pass'.pc \in {"retain", "write"} => \A f \in journal' : \E g \in pass'.mem : Name(g) = Name(f)
    BY <1>5
  <2> QED  BY <1>5, <2>1, <2>2, <2>3 DEF SeenInv, Name, Layers
<1>6. CASE Start
  BY <1>5, <1>6, StartIs DEF Acting, Settling
<1>7. CASE KeepFails \/ Fail
  <2>1. pass' = IdlePass /\ UNCHANGED <<origin, journal, ghosts>>
    BY <1>7, GivenUp
  <2>2. Seen(journal)'
    <3>1. \A m \in pushed' : SeenThrough(m[1], m[2])' \/ \E f \in journal : Name(f) = m
      BY <1>0, <1>1, <2>1 DEF SeenInv
    <3> QED  BY <2>1, <3>1 DEF Seen, Name, Layers
  <2>3. pass'.pc = "idle" /\ pass'.then = "idle"
    BY <2>1 DEF IdlePass
  <2>4. ~Acting' /\ ~Settling'
    BY <2>3 DEF Acting, Settling
  <2> QED  BY <2>2, <2>3, <2>4 DEF SeenInv
<1>8. CASE KeepObjects
  <2>1. /\ pass.pc = "retain" /\ UNCHANGED <<origin, journal, ghosts>>
        /\ pass'.pc = "write" /\ UNCHANGED <<pass.then, pass.mem, pass.next, pass.busy, pass.open>>
    BY <1>0, <1>8, KeepIs
  <2>2. (Acting' => Acting) /\ (Settling' => Settling)
    BY <2>1 DEF Acting, Settling
  <2>3. Seen(journal)' /\ Seen(pass.mem)'
    <3>1. /\ \A m \in pushed' : SeenThrough(m[1], m[2])' \/ \E f \in journal : Name(f) = m
          /\ \A m \in pushed' : SeenThrough(m[1], m[2])' \/ \E f \in pass.mem : Name(f) = m
      BY <1>0, <1>1, <2>1 DEF SeenInv
    <3> QED  BY <2>1, <3>1 DEF Seen, Name, Layers
  <2>4. Acting' => \A f \in pass'.mem : Name(f) \in Unfinished' \/ Through(f)'
    BY <1>0, <1>1, <2>1, <2>2 DEF SeenInv, Unfinished
  <2>5. Settling' => \A f \in pass'.next : Name(f) \in Unfinished' \/ Through(f)'
    BY <1>0, <1>1, <2>1, <2>2 DEF SeenInv, Unfinished
  <2>6. \A f \in journal' : (\E g \in pass'.mem : Name(g) = Name(f)) \/ ReportedOK(f)'
    BY <1>0, <1>1, <2>1 DEF SeenInv
  <2> QED  BY <2>3, <2>4, <2>5, <2>6 DEF SeenInv, Name, Layers
<1>9. CASE WriteJournal \/ LetGo
  <2>1. /\ pass.pc \in {"write", "letgo"} /\ UNCHANGED <<origin, ghosts>>
        /\ journal' = pass.mem
        /\ \/ pass' = IdlePass
           \/ /\ pass'.pc \notin {"idle", "retain", "write"}
              /\ UNCHANGED <<pass.then, pass.mem, pass.next, pass.busy, pass.open>>
              /\ pass'.pc \in {"letgo", pass.then}
    BY <1>0, <1>9, WriteIs, LetGoIs DEF PassOK
  <2>2. (Acting' => Acting /\ pass' # IdlePass) /\ (Settling' => Settling /\ pass' # IdlePass)
    BY <2>1 DEF Acting, Settling, IdlePass
  <2>3. Seen(journal)' /\ (pass'.pc # "idle" => Seen(pass.mem)')
    <3>1. \A m \in pushed' : SeenThrough(m[1], m[2])' \/ \E f \in pass.mem : Name(f) = m
      BY <1>0, <1>1, <2>1 DEF SeenInv
    <3>2. pass'.pc # "idle" => pass'.mem = pass.mem
      BY <2>1 DEF IdlePass
    <3> QED  BY <2>1, <3>1, <3>2 DEF Seen, Name, Layers
  <2>4. Acting' => \A f \in pass'.mem : Name(f) \in Unfinished' \/ Through(f)'
    BY <1>0, <1>1, <2>1, <2>2 DEF SeenInv, Unfinished
  <2>5. Settling' => \A f \in pass'.next : Name(f) \in Unfinished' \/ Through(f)'
    BY <1>0, <1>1, <2>1, <2>2 DEF SeenInv, Unfinished
  <2>6. pass'.pc \notin {"retain", "write"}
    BY <2>1 DEF IdlePass
  <2> QED  BY <2>3, <2>4, <2>5, <2>6 DEF SeenInv, Name, Layers
<1>10. CASE Again
  BY <1>0, <1>5, <1>10, AgainIs DEF Acting, Settling, PassOK
<1>11. CASE Plan
  <2>1. CASE pass' = IdlePass
    <3>1. UNCHANGED <<origin, journal, ghosts>>
      BY <1>0, <1>11, PlanIs
    <3>2. Seen(journal)'
      <4>1. \A m \in pushed' : SeenThrough(m[1], m[2])' \/ \E f \in journal : Name(f) = m
        BY <1>0, <1>1, <3>1 DEF SeenInv
      <4> QED  BY <3>1, <4>1 DEF Seen, Name, Layers
    <3>3. pass'.pc = "idle" /\ ~Acting' /\ ~Settling'
      BY <2>1 DEF Acting, Settling, IdlePass
    <3> QED  BY <3>2, <3>3 DEF SeenInv
  <2>2. CASE pass' # IdlePass
    BY <1>0, <1>5, <1>11, <2>2, PlanIs DEF Acting, Settling, PassOK
  <2> QED  BY <2>1, <2>2
<1> QED
  BY <1>3, <1>4, <1>6, <1>7, <1>8, <1>9, <1>10, <1>11, StepIs, SeenRead, SeenReplace, SeenRetire

\* It holds at first.
LEMMA SeenInit ==
  ASSUME Init  PROVE SInv
<1>1. pushed = {} /\ pass.pc = "idle" /\ pass.then = "idle" /\ journal = {}
  BY DEF Init, IdlePass
<1>2. Seen(journal) /\ ~Acting /\ ~Settling
  BY <1>1 DEF Seen, Acting, Settling
<1> QED  BY <1>1, <1>2, KInvInit DEF SInv, SeenInv

\* Together: what a pass lets go of was seen through, and has been reported.
THEOREM SInvHolds == Spec => []SInv
BY SeenInit, SeenStep, PTL DEF Spec

\* Once origin took the branches of a family, the journal on disk names it
\* until every version of it is added, whatever crashes, lost answers and
\* held requests come between, unless another moved the family first.
THEOREM MovedAreSeenThrough == Spec => []MovedIsSeenThrough
<1>1. SInv => MovedIsSeenThrough
  BY DEF SInv, SeenInv, Seen, SeenThrough, MovedIsSeenThrough
<1> QED  BY <1>1, SInvHolds, PTL

\* A family whose branches moved leaves the journal only once each change it
\* still records has a report that says of each of its versions that was
\* added that it was.
THEOREM LetGoOnceReported == Spec => LetGoReported
<1> DEFINE Gone(f) == f.moved /\ ~lost /\ ~(\E g \in journal' : Name(g) = Name(f))
<1>1. ASSUME SInv, [Next]_vars, NEW f \in journal, Gone(f)  PROVE Reported(f)
  <2>0. /\ SeenInv /\ DOMAIN pass = DOMAIN IdlePass /\ PassOK
    BY <1>1 DEF SInv, KInv, IInv, PassOK
  <2>1. f \notin journal'
    BY <1>1
  <2>2. CASE WriteJournal
    <3>1. pass.pc = "write" /\ journal' = pass.mem
      BY <2>0, <2>2, WriteIs
    <3>2. ReportedOK(f)
      BY <1>1, <2>0, <3>1 DEF SeenInv
    <3> QED  BY <1>1, <3>2 DEF ReportedOK
  <2>3. CASE Retire
    BY <1>1, <2>1, <2>3, RetiredThrough DEF Through, ReportedOK
  <2>4. ASSUME ~WriteJournal, ~Retire  PROVE UNCHANGED journal
    <3>1. CASE Start \/ KeepObjects \/ KeepFails \/ LetGo
      BY <3>1 DEF Start, KeepObjects, KeepFails, LetGo
    <3>2. CASE \E known \in BOOLEAN : Read(known)
      BY <3>2 DEF Read
    <3>3. ASSUME NEW w \in pass.todo,
                 PushBranches(w) \/ Checked(w) \/ PushVersion(w) \/ PushReport(w) \/ NotTaken(w)
          PROVE  UNCHANGED journal
      BY <2>0, <3>3, PushKeeps
    <3>4. CASE Replace \/ Again \/ Plan \/ Fail \/ LoseScratch \/ UNCHANGED vars
      BY <3>4 DEF Replace, Again, Plan, Fail, LoseScratch, vars, local
    <3>5. CASE Else
      BY <3>5, ElseIs DEF local
    <3> QED  BY <1>1, <2>4, <3>1, <3>2, <3>3, <3>4, <3>5, StepIs
  <2> QED  BY <2>1, <2>2, <2>3, <2>4
<1>2. SInv /\ [Next]_vars =>
        [\A f \in journal :
          f.moved /\ ~lost /\ ~(\E g \in journal' : Name(g) = Name(f))
          => \A c \in Layers(f) : record[c] = <<>> \/
                \E r \in Range(report[c]) : \A d \in Layers(f) :
                    <<f.op, d>> \in added /\ record[d] # <<>>
                        => d \in DOMAIN r.said /\ r.said[d] = "added"]_vars
  BY <1>1 DEF Reported
<1> QED  BY <1>2, SInvHolds, PTL DEF Spec, LetGoReported
=============================================================================
