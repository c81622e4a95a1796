--------------------------- MODULE RestackerProofs ---------------------------
(***************************************************************************)
(* Proofs about the restacker, for any changes, stacks and bounds: what    *)
(* the journal on disk names stays reachable, the journal agrees with      *)
(* itself, and the branches moved are recorded work.                       *)
(***************************************************************************)
EXTENDS Restacker, TLAPS

\* What appending to a sequence does.
LEMMA AppendIs ==
  ASSUME NEW s, s \in Seq(Range(s)), NEW x
  PROVE  /\ Append(s, x) \in Seq(Range(Append(s, x)))
         /\ Range(Append(s, x)) = Range(s) \cup {x}
         /\ Len(s) \in Nat /\ Len(Append(s, x)) = Len(s) + 1 /\ Append(s, x)[Len(s) + 1] = x
         /\ \A i \in 1..Len(s) : Append(s, x)[i] = s[i]
<1> DEFINE t == Append(s, x)
<1>1. /\ Len(s) \in Nat /\ Len(t) = Len(s) + 1 /\ t[Len(s) + 1] = x
      /\ \A i \in 1..Len(s) : t[i] = s[i]
      /\ DOMAIN s = 1..Len(s) /\ t \in Seq(Range(s) \cup {x}) /\ DOMAIN t = 1..(Len(s) + 1)
  OBVIOUS
<1>2. Range(t) = Range(s) \cup {x}
  <2>1. Range(t) \subseteq Range(s) \cup {x}
    BY <1>1 DEF Range
  <2>2. x \in Range(t)
    BY <1>1 DEF Range
  <2>3. Range(s) \subseteq Range(t)
    <3> SUFFICES ASSUME NEW i \in 1..Len(s)  PROVE s[i] \in Range(t)
      BY <1>1 DEF Range
    <3>1. t[i] = s[i] /\ i \in DOMAIN t  BY <1>1
    <3> QED  BY <3>1 DEF Range
  <2> QED  BY <2>1, <2>2, <2>3
<1> QED  BY <1>1, <1>2

\* The last of a sequence is in it.
LEMMA LastIs ==
  ASSUME NEW s, s \in Seq(Range(s)), s # <<>>
  PROVE  Last(s) \in Range(s) /\ Len(s) \in Nat \ {0} /\ s[Len(s)] = Last(s)
BY DEF Last, Range

\* A sequence of one element, and of none.
LEMMA SingleIs ==
  ASSUME NEW x
  PROVE <<x>> \in Seq(Range(<<x>>)) /\ Range(<<x>>) = {x} /\ Len(<<x>>) = 1
BY DEF Range
LEMMA EmptyIs ==
  <<>> \in Seq(Range(<<>>)) /\ Range(<<>>) = {} /\ Len(<<>>) = 0
BY DEF Range

-----------------------------------------------------------------------------
\* A head that an author amends, builds on, or adds to is a head, and so is
\* one that is rebased.
LEMMA HeadIs ==
  ASSUME NEW h, IsHead(h)
  PROVE  /\ h # None /\ h.of \in Change
         /\ DOMAIN h.work \subseteq Change
         /\ h.work \in [DOMAIN h.work -> 1..MaxWork] /\ h.of \in DOMAIN h.work
         /\ h.by = None \/ h.by \in (1..MaxOps) \X SUBSET Change
<1>1. PICK D \in SUBSET Change : h.work \in [D -> 1..MaxWork]
  BY DEF IsHead
<1>2. h.work \in UNION {[E -> Nat] : E \in SUBSET Change}
  <2>1. h.work \in [D -> Nat]  BY <1>1
  <2> QED  BY <2>1
<1>3. h.by \in {None} \cup (Nat \X SUBSET Change)
  BY DEF IsHead
<1>4. h \in [of : Change, tip : Nat, by : {None} \cup (Nat \X SUBSET Change),
             work : UNION {[E -> Nat] : E \in SUBSET Change}, more : BOOLEAN]
  <2> HIDE DEF IsHead
  <2>1. /\ h = [of |-> h.of, tip |-> h.tip, by |-> h.by, work |-> h.work, more |-> h.more]
        /\ h.of \in Change /\ h.tip \in Nat /\ h.more \in BOOLEAN
    BY RestackerAssumption DEF IsHead
  <2> QED  BY <1>2, <1>3, <2>1
<1> QED  BY <1>1, <1>4, RestackerAssumption DEF IsHead

\* What makes a head.
LEMMA HeadOf ==
  ASSUME NEW c \in Change, NEW t \in 0..MaxTip, NEW m \in BOOLEAN,
         NEW by, by = None \/ by \in (1..MaxOps) \X SUBSET Change,
         NEW D, c \in D, D \subseteq Under[c] \cup {c}, NEW work \in [D -> 1..MaxWork]
  PROVE  IsHead([of |-> c, tip |-> t, by |-> by, work |-> work, more |-> m])
<1>1. D \in SUBSET Change  BY RestackerAssumption
<1>2. work \in UNION {[E -> 1..MaxWork] : E \in SUBSET Change}  BY <1>1
<1>3. DOMAIN work = D  OBVIOUS
<1> QED  BY <1>2, <1>3 DEF IsHead

\* The fields of a head.
LEMMA FieldsIs ==
  ASSUME NEW h, IsHead(h)
  PROVE  /\ h = [of |-> h.of, tip |-> h.tip, by |-> h.by, work |-> h.work, more |-> h.more]
         /\ h.tip \in 0..MaxTip /\ h.more \in BOOLEAN
         /\ DOMAIN h.work \subseteq Under[h.of] \cup {h.of}
BY DEF IsHead

\* Commits added on top of a head make a head.
LEMMA MoreIsHead ==
  ASSUME NEW h, IsHead(h)
  PROVE  IsHead([h EXCEPT !.more = TRUE])
<1> DEFINE g == [h EXCEPT !.more = TRUE]
           k == [of |-> h.of, tip |-> h.tip, by |-> h.by, work |-> h.work, more |-> TRUE]
<1>1. DOMAIN h = {"of", "tip", "by", "work", "more"}
  BY FieldsIs
<1>2. g.of = k.of /\ g.tip = k.tip /\ g.by = k.by /\ g.work = k.work /\ g.more = k.more
  BY <1>1
<1>3. \A x \in DOMAIN g : g[x] = k[x]
  BY <1>1, <1>2
<1>4. g = k
  BY <1>1, <1>3, Zenon
<1>5. IsHead(k)  BY HeadIs, FieldsIs, HeadOf
<1> QED  BY <1>4, <1>5

\* So does an amended change.
LEMMA AmendedIsHead ==
  ASSUME NEW h, IsHead(h), NEW w \in 1..MaxWork
  PROVE  IsHead([h EXCEPT !.work[h.of] = w])
<1> DEFINE work == [h.work EXCEPT ![h.of] = w]
           g == [of |-> h.of, tip |-> h.tip, by |-> h.by, work |-> work, more |-> h.more]
<1>1. [h EXCEPT !.work[h.of] = w] = g  BY FieldsIs
<1>2. work \in [DOMAIN h.work -> 1..MaxWork]  BY HeadIs
<1>3. IsHead(g)
  <2> HIDE DEF work
  <2> QED  BY <1>2, HeadIs, FieldsIs, HeadOf
<1> QED  BY <1>1, <1>3

\* So does a change built on another head of a change under it.
LEMMA BuiltOnIsHead ==
  ASSUME NEW g, IsHead(g), NEW c \in Change, g.of \in Under[c], NEW w \in 1..MaxWork
  PROVE  IsHead([of |-> c, tip |-> g.tip, by |-> g.by, more |-> g.more,
                 work |-> [d \in DOMAIN g.work \cup {c} |-> IF d = c THEN w ELSE g.work[d]]])
<1> DEFINE D == DOMAIN g.work \cup {c}
           work == [d \in D |-> IF d = c THEN w ELSE g.work[d]]
<1>1. work \in [D -> 1..MaxWork]
  BY HeadIs
<1>2. c \in D /\ D \subseteq Under[c] \cup {c}
  BY FieldsIs, RestackerAssumption
<1> HIDE DEF work, D
<1>3. IsHead([of |-> c, tip |-> g.tip, by |-> g.by, work |-> work, more |-> g.more])
  BY <1>1, <1>2, FieldsIs, HeadIs, HeadOf
<1> QED  BY <1>3 DEF work, D

\* So does a rebase, which is named for the family it is of.
LEMMA PreparedIsHead ==
  ASSUME NEW h, IsHead(h), tip \in 0..MaxTip, h.of \notin CutUnder(h),
         NEW by \in (1..MaxOps) \X SUBSET Change
  PROVE  IsHead(Prepared(h, by)) /\ Prepared(h, by).by = by
<1> DEFINE D == DOMAIN h.work \ CutUnder(h)
           work == Restrict(h.work, D)
<1>1. work = [d \in D |-> h.work[d]]
  BY DEF Restrict
<1>2. work \in [D -> 1..MaxWork]
  BY <1>1, HeadIs
<1>3. h.of \in D /\ D \subseteq Under[h.of] \cup {h.of}
  BY HeadIs, FieldsIs
<1> HIDE DEF work, D
<1>4. IsHead([of |-> h.of, tip |-> tip, by |-> by, work |-> work, more |-> h.more])
  BY <1>2, <1>3, FieldsIs, HeadIs, HeadOf
<1> QED  BY <1>4 DEF Prepared, work, D
-----------------------------------------------------------------------------
(***************************************************************************)
(* The invariant.                                                          *)
(***************************************************************************)
\* A sequence of what is in it.
IsSeq(s) == s \in Seq(Range(s))

\* Main, the bounds, and what origin holds.
MainOK ==
    /\ tip \in 0..MaxTip /\ tip \in line /\ line \subseteq 0..tip
    /\ ops \in 0..MaxOps /\ moves \in 0..MaxMoves /\ faults \in 0..MaxFaults
BranchesOK == DOMAIN branch = Change /\ \A b \in Change : branch[b] # None => IsHead(branch[b])
EntryOK(c, e) ==
    /\ DOMAIN e = {"n", "head", "branch", "state", "op"}
    /\ IsHead(e.head) /\ e.head.of = c /\ e.branch \in Uses[c]
RecordsOK ==
    /\ DOMAIN record = Change
    /\ \A c \in Change : IsSeq(record[c]) /\ \A e \in Range(record[c]) : EntryOK(c, e)
LandedOK == \A h \in landed : IsHead(h) /\ (record[h.of] = <<>> \/ h \in VersionHeads(h.of))

\* What a family says of itself.
ReportOK(f, r) ==
    /\ DOMAIN r = {"op", "tip", "result", "saw", "said", "held"}
    /\ r.op = f.op
PlanOK(f) ==
    /\ Layers(f) \subseteq Change /\ Layers(f) # {}
    /\ \A c \in Layers(f) : /\ f.saw[c].old \in Nat \ {0} /\ f.saw[c].branch \in Uses[c]
                            /\ IsHead(f.saw[c].head) /\ f.saw[c].head.of = c
    /\ DOMAIN f.new \in {{}, Layers(f)}
    /\ \A c \in DOMAIN f.new : IsHead(f.new[c]) /\ f.new[c].of = c /\ f.new[c].by = Name(f)
    /\ Restacks(f) => \A c, d \in Layers(f) : c # d => f.saw[c].branch # f.saw[d].branch
ProgressOK(f) ==
    /\ f.moved \in BOOLEAN /\ f.added \subseteq DOMAIN f.new
    /\ f.moved \/ (f.added = {} /\ DOMAIN f.happened = {})
    /\ f.moved => Restacks(f)
ReportsOK(f) ==
    /\ DOMAIN f.reports \subseteq Layers(f) /\ ReportOK(f, f.report)
    /\ DOMAIN f.happened \subseteq Layers(f)
    /\ \A c \in DOMAIN f.happened : ReportOK(f, f.happened[c].report)
    /\ f.report.result = "complete" <=> Restacks(f)
FamilyOK(f) ==
    /\ DOMAIN f = {"op", "tip", "saw", "new", "report", "reports", "happened", "moved", "added"}
    /\ PlanOK(f) /\ ProgressOK(f) /\ ReportsOK(f)

\* A change it observed is still recorded as it was, however it went on, or
\* its record is gone.
SawOK(f) ==
    \A c \in Layers(f) : record[c] # <<>> =>
        f.saw[c].old <= Len(record[c]) /\ f.saw[c].head \in VersionHeads(c)

\* Two forms of one family: only what became of its writes differs.
Same(f, g) == f.op = g.op /\ f.tip = g.tip /\ f.saw = g.saw /\ f.new = g.new
Mirrors(j, k) == \A g \in k : \E f \in j : Same(f, g)

\* The steps of a pass between a read of origin and what it decides.
Settling == pass.pc = "push" \/ (pass.then = "push" /\ pass.pc \in {"retain", "write", "letgo"})
PassOK ==
    /\ DOMAIN pass = DOMAIN IdlePass
    /\ pass.pc \in {"idle", "read", "push", "decide", "plan", "retain", "write", "letgo"}
    /\ pass.then \in {"idle", "push", "decide", "read", "plan"}
    /\ pass.pc = "idle" => pass = IdlePass
    /\ pass.pc \in {"read", "plan", "push", "decide", "letgo"} => pass.mem = journal
    /\ pass.pc = "push" => pass.then = "push"
    /\ pass.pc = "decide" => pass.then = "decide"
    /\ Agrees(pass.mem) /\ Agrees(journal)
    /\ Settling => Agrees(pass.next) /\ Mirrors(pass.mem, pass.next) /\ Mirrors(pass.next, pass.mem)
    /\ pass.todo # {} => Settling

Known == journal \cup pass.mem \cup pass.next
FamiliesOK == \A f \in Known : f.op \in 1..ops /\ FamilyOK(f) /\ SawOK(f)

\* Each write waiting to be pushed is one of a family of the journal.
WriteOK(w) ==
    /\ DOMAIN w = {"f", "kind", "c"} /\ w.f \in pass.mem
    /\ w.kind = "branches" => Restacks(w.f)
    /\ w.kind \in {"version", "checked"} => w.c \in DOMAIN w.f.new
    /\ w.kind = "report" => w.c \in DOMAIN w.f.reports
    /\ w.kind = "happened" => w.c \in DOMAIN w.f.happened
WritesOK == \A w \in pass.todo : WriteOK(w)

OriginOK == MainOK /\ BranchesOK /\ RecordsOK /\ LandedOK
IInv == OriginOK /\ PassOK /\ FamiliesOK /\ WritesOK

-----------------------------------------------------------------------------
(***************************************************************************)
(* What a step leaves alone.                                               *)
(***************************************************************************)

\* Everyone else leaves the pass, the journal and what is retained alone.
LEMMA ElseIs ==
  ASSUME Else
  PROVE  UNCHANGED <<local, faults, pushed, added, lost>> /\ Move
<1>1. ASSUME NEW c \in Change, NEW b \in Uses[c], MoveBranch(c, b) \/ Upload(c, b)
      PROVE  UNCHANGED <<local, faults, pushed, added, lost>> /\ Move
  BY <1>1 DEF MoveBranch, Upload
<1>2. ASSUME NEW c \in Change, Unready(c) \/ DeleteRecord(c) \/ Land(c)
      PROVE  UNCHANGED <<local, faults, pushed, added, lost>> /\ Move
  BY <1>2 DEF Unready, DeleteRecord, Land
<1>3. ASSUME NEW c \in Change, ReportElse(c) \/ File(c) \/ JudgeStale(c)
      PROVE  UNCHANGED <<local, faults, pushed, added, lost>> /\ Move
  BY <1>3 DEF ReportElse, File, JudgeStale, ghosts
<1>4. ASSUME NEW kept \in BOOLEAN, MoveMain(kept)
      PROVE  UNCHANGED <<local, faults, pushed, added, lost>> /\ Move
  BY <1>4 DEF MoveMain
<1> QED  BY <1>1, <1>2, <1>3, <1>4 DEF Else

\* A restack's version is checked before it is pushed.
Checked(w) == w.kind = "version" /\ CheckHead(w)

\* A push takes a write that waits, and is one of four.
LEMMA PushIs ==
  ASSUME Push
  PROVE  \E w \in pass.todo : /\ pass.pc = "push"
            /\ \/ w.kind = "branches" /\ PushBranches(w)
               \/ Checked(w)
               \/ w.kind = "checked" /\ PushVersion(w)
               \/ w.kind \in {"report", "happened"} /\ PushReport(w)
BY DEF Push, Turns, Checked

\* What a step may be.
LEMMA StepIs ==
  ASSUME [Next]_vars
  PROVE  \/ UNCHANGED vars
         \/ Start \/ KeepObjects \/ KeepFails \/ WriteJournal \/ LetGo
         \/ \E known \in BOOLEAN : Read(known)
         \/ \E w \in pass.todo : /\ pass.pc = "push"
              /\ \/ w.kind = "branches" /\ PushBranches(w)
                 \/ Checked(w)
                 \/ w.kind = "checked" /\ PushVersion(w)
                 \/ w.kind \in {"report", "happened"} /\ PushReport(w)
                 \/ NotTaken(w)
         \/ Replace \/ Again \/ Retire \/ Plan \/ Fail \/ LoseScratch \/ Else
<1>1. CASE Refuse
  <2>1. \E w \in pass.todo : pass.pc = "push" /\ NotTaken(w)
    BY <1>1 DEF Refuse, Turns
  <2> QED  BY <2>1
<1>2. CASE Push  BY <1>2, PushIs
<1> QED  BY <1>1, <1>2 DEF Next, Restack

-----------------------------------------------------------------------------
(***************************************************************************)
(* What a read makes of a family.                                          *)
(***************************************************************************)

\* Only a family that is restacked has its branches moved.
LEMMA DoneRestacks ==
  ASSUME NEW f, NEW known, BranchPush(f, known) = "done"  PROVE  Restacks(f)
BY DEF BranchPush

\* The same family keeps its name, its keys and its plan.
LEMMA SameIs ==
  ASSUME NEW f, NEW g, Same(f, g)
  PROVE  /\ Layers(g) = Layers(f) /\ Name(g) = Name(f) /\ Keys(g) = Keys(f)
         /\ Restacks(g) = Restacks(f)
         /\ PlanOK(f) => PlanOK(g)
         /\ SawOK(f) => SawOK(g)
<1>1. /\ Layers(g) = Layers(f) /\ Name(g) = Name(f) /\ Keys(g) = Keys(f)
      /\ Restacks(g) = Restacks(f)
  BY DEF Same, Layers, Name, Keys, Restacks
<1>2. g.op = f.op /\ g.saw = f.saw /\ g.new = f.new
  BY DEF Same
<1>3. PlanOK(f) => PlanOK(g)
  BY <1>1, <1>2 DEF PlanOK
<1>4. SawOK(f) => SawOK(g)
  BY <1>1, <1>2 DEF SawOK
<1> QED  BY <1>1, <1>3, <1>4

\* A confirmed family is the same, and moved when its branches were taken.
LEMMA ConfirmedIs ==
  ASSUME NEW f, NEW known, FamilyOK(f)
  PROVE  LET g == Confirmed(f, known) IN
         /\ FamilyOK(g) /\ Same(f, g)
         /\ g.report = f.report /\ g.reports = f.reports /\ g.happened = f.happened
         /\ BranchPush(f, known) # "done" => g = f
         /\ BranchPush(f, known) = "done" =>
               g.moved /\ g.added = {c \in DOMAIN f.new : Version(f, c, known) = "done"}
<1> DEFINE taken == {c \in DOMAIN f.new : Version(f, c, known) = "done"}
           g == [f EXCEPT !.moved = TRUE, !.added = taken]
<1>1. CASE BranchPush(f, known) # "done"
  BY <1>1 DEF Confirmed, Same
<1>2. CASE BranchPush(f, known) = "done"
  <2>1. Confirmed(f, known) = g  BY <1>2 DEF Confirmed
  <2>2. taken \subseteq DOMAIN f.new  OBVIOUS
  <2> HIDE DEF taken
  <2>3. /\ DOMAIN g = DOMAIN f /\ g.moved = TRUE /\ g.added = taken
        /\ g.op = f.op /\ g.tip = f.tip /\ g.saw = f.saw /\ g.new = f.new /\ g.report = f.report
        /\ g.reports = f.reports /\ g.happened = f.happened
    BY DEF FamilyOK
  <2>4. Same(f, g)  BY <2>3 DEF Same
  <2> HIDE DEF g
  <2>5. Restacks(f) /\ Restacks(g) /\ Layers(g) = Layers(f) /\ PlanOK(g)
    BY <1>2, <2>4, SameIs, DoneRestacks DEF FamilyOK
  <2>7. ProgressOK(g)
    BY <2>2, <2>3, <2>5 DEF ProgressOK
  <2>8. ReportsOK(g)
    BY <2>3, <2>5 DEF ReportsOK, ReportOK, FamilyOK
  <2>9. FamilyOK(g)
    BY <2>3, <2>5, <2>7, <2>8 DEF FamilyOK
  <2>6. /\ FamilyOK(g) /\ Same(f, g) /\ g.moved /\ g.added = taken
        /\ g.report = f.report /\ g.reports = f.reports /\ g.happened = f.happened
    BY <2>3, <2>4, <2>9
  <2> QED  BY <1>2, <2>1, <2>6 DEF taken
<1> QED  BY <1>1, <1>2

\* What happened is said of each layer, by the same operation.
LEMMA HappenedIs ==
  ASSUME NEW f, NEW known, FamilyOK(f)
  PROVE  LET r == Happened(f, known) IN
         /\ ReportOK(f, r) /\ DOMAIN r.said = Layers(f)
         /\ \A c \in Layers(f) : r.said[c] = "added" <=> Version(f, c, known) = "done"
<1> DEFINE said == [c \in Layers(f) |-> CASE Version(f, c, known) = "done" -> "added"
                       [] Version(f, c, known) = "stop" -> "stopped"
                       [] OTHER -> "paused"]
           result == IF \A c \in Layers(f) : said[c] = "added" THEN "complete" ELSE "partial"
           r == [f.report EXCEPT !.said = said, !.result = result]
<1>1. Happened(f, known) = r
  BY DEF Happened
<1>2. \A c \in Layers(f) : said[c] = "added" <=> Version(f, c, known) = "done"
  OBVIOUS
<1>3. DOMAIN said = Layers(f)
  OBVIOUS
<1> HIDE DEF said, result
<1>4. DOMAIN r = DOMAIN f.report /\ r.said = said /\ r.op = f.report.op
  BY DEF FamilyOK, ReportsOK, ReportOK
<1> HIDE DEF r
<1>5. ReportOK(f, r)  BY <1>4 DEF FamilyOK, ReportsOK, ReportOK
<1> QED  BY <1>1, <1>2, <1>3, <1>4, <1>5

\* A family with its reports replaced is the same.
LEMMA ReplacedIs ==
  ASSUME NEW f, NEW known, FamilyOK(f), BranchPush(f, known) = "done" => f.moved
  PROVE  LET g == Replaced(f, known) IN
         /\ FamilyOK(g) /\ Same(f, g)
         /\ g.report = f.report /\ g.reports = f.reports
         /\ g.moved = f.moved /\ g.added = f.added
         /\ BranchPush(f, known) # "done" => g = f
         /\ BranchPush(f, known) = "done" =>
               \A c \in Layers(f) : record[c] # <<>> /\ ~SaysAlready(c, Happened(f, known)) =>
                   c \in DOMAIN g.happened /\ g.happened[c] = [old |-> Len(report[c]), report |-> Happened(f, known)]
         /\ \A c \in DOMAIN g.happened :
               \/ /\ c \in DOMAIN f.happened /\ g.happened[c] = f.happened[c]
               \/ g.happened[c].report = Happened(f, known)
<1> DEFINE now == Happened(f, known)
           needed == {c \in Layers(f) : record[c] # <<>> /\ ~SaysAlready(c, now)}
           happened == [c \in needed \cup DOMAIN f.happened |->
                 IF c \in needed THEN [old |-> Len(report[c]), report |-> now] ELSE f.happened[c]]
           g == [f EXCEPT !.happened = happened]
<1>1. CASE BranchPush(f, known) # "done"
  BY <1>1 DEF Replaced, Same
<1>2. CASE BranchPush(f, known) = "done"
  <2>1. Replaced(f, known) = g
    BY <1>2 DEF Replaced, FamilyOK
  <2>2. /\ \A c \in needed : c \in DOMAIN happened /\ happened[c] = [old |-> Len(report[c]), report |-> now]
        /\ \A c \in DOMAIN happened :
              (c \in DOMAIN f.happened /\ happened[c] = f.happened[c]) \/ happened[c].report = now
        /\ DOMAIN happened \subseteq Layers(f)
    BY DEF FamilyOK, ReportsOK
  <2>3. \A c \in Layers(f) : record[c] # <<>> /\ ~SaysAlready(c, now) => c \in needed
    OBVIOUS
  <2> HIDE DEF happened, needed
  <2>4. /\ DOMAIN g = DOMAIN f /\ g.moved = f.moved /\ g.added = f.added
        /\ g.op = f.op /\ g.tip = f.tip /\ g.saw = f.saw /\ g.new = f.new /\ g.report = f.report
        /\ g.reports = f.reports /\ g.happened = happened
    BY DEF FamilyOK
  <2>5. Same(f, g)  BY <2>4 DEF Same
  <2> HIDE DEF g, now
  <2>6. ReportOK(f, now)  BY HappenedIs DEF now
  <2>7. \A c \in DOMAIN happened : ReportOK(g, happened[c].report)
    BY <2>2, <2>4, <2>6 DEF FamilyOK, ReportsOK, ReportOK
  <2>9. (Restacks(g) <=> Restacks(f)) /\ Layers(g) = Layers(f) /\ PlanOK(g)
    BY <2>5, SameIs DEF FamilyOK
  <2>10. ReportsOK(g)
    BY <2>2, <2>4, <2>7, <2>9 DEF ReportsOK, ReportOK, FamilyOK
  <2>11. ProgressOK(g)
    BY <1>2, <2>4, <2>9 DEF ProgressOK, FamilyOK
  <2>8. FamilyOK(g)
    BY <2>4, <2>9, <2>10, <2>11 DEF FamilyOK
  <2> QED  BY <1>2, <2>1, <2>2, <2>3, <2>4, <2>5, <2>8 DEF now
<1> QED  BY <1>1, <1>2

-----------------------------------------------------------------------------
(***************************************************************************)
(* The steps of a pass.                                                    *)
(***************************************************************************)

\* What is next for a family once a read has been acted on.
NextOf(f, known) == IF Phase(f, known) # {} THEN Confirmed(f, known)
                    ELSE Replaced(Confirmed(f, known), known)

\* A read settles each family by itself, on what origin shows.
LEMMA ReadIs ==
  ASSUME NEW known, Read(known), DOMAIN pass = DOMAIN IdlePass
  PROVE  /\ pass.pc = "read" /\ UNCHANGED <<origin, journal, retained, ops, moves, ghosts>>
         /\ gone' \subseteq gone
         /\ DOMAIN pass' = DOMAIN pass /\ pass'.then = "push" /\ pass'.pc \in {"push", "retain"}
         /\ pass'.pc = "push" => pass'.mem = pass.mem
         /\ pass'.mem = {Confirmed(f, known) : f \in pass.mem}
         /\ pass'.next = {NextOf(f, known) : f \in pass.mem}
         /\ pass'.todo = UNION {{[f |-> Confirmed(f, known), kind |-> w[1], c |-> w[2]] :
                                     w \in Phase(f, known)} : f \in pass.mem}
         /\ \A f \in pass.mem :
               /\ Phase(f, known) # {} \/ NextOf(f, known) # Confirmed(f, known) => Name(f) \in pass'.busy
               /\ IsOpen(f, known) => Name(f) \in pass'.open
         /\ known \/ faults > 0
         /\ faults' = IF known THEN faults ELSE faults - 1
<1> DEFINE j == pass.mem
           sure == {Confirmed(f, known) : f \in j}
           tried == {f \in j : Phase(f, known) # {}}
           step(f) == IF f \in tried THEN Confirmed(f, known) ELSE Replaced(Confirmed(f, known), known)
           next == {step(f) : f \in j}
           todo == UNION {{[f |-> Confirmed(f, known), kind |-> w[1], c |-> w[2]] :
                                            w \in Phase(f, known)} : f \in j}
           busy == {Name(f) : f \in {g \in j : g \in tried \/ step(g) # Confirmed(g, known)}}
           open == {Name(f) : f \in {g \in j : IsOpen(g, known)}}
           pc == IF sure = j THEN "push" ELSE "retain"
           read == [pass EXCEPT !.mem = sure, !.next = next, !.todo = todo,
                        !.busy = busy, !.open = open, !.pc = pc, !.then = "push"]
<1>1. /\ pass' = read /\ pass.pc = "read" /\ UNCHANGED <<origin, journal, retained, ops, moves, ghosts>>
      /\ gone' \subseteq gone
      /\ known \/ faults > 0
      /\ faults' = IF known THEN faults ELSE faults - 1
  BY DEF Read
<1>2. /\ DOMAIN read = DOMAIN pass /\ read.then = "push" /\ read.pc = pc /\ read.mem = sure
      /\ read.next = next /\ read.todo = todo /\ read.busy = busy /\ read.open = open
  <2> HIDE DEF sure, next, todo, busy, open, pc
  <2> QED  BY DEF IdlePass
<1>3. \A f \in j : step(f) = NextOf(f, known)
  BY DEF NextOf
<1>4. next = {NextOf(f, known) : f \in pass.mem}
  BY <1>3
<1>5. \A f \in j : Phase(f, known) # {} \/ NextOf(f, known) # Confirmed(f, known) => Name(f) \in busy
  BY <1>3
<1>6. \A f \in j : IsOpen(f, known) => Name(f) \in open
  OBVIOUS
<1>7. pc \in {"push", "retain"} /\ (pc = "push" => sure = j)
  OBVIOUS
<1> HIDE DEF read, next, busy, open, pc, tried, step
<1> QED  BY <1>1, <1>2, <1>4, <1>5, <1>6, <1>7

\* A push changes the pass by the write it takes; a version it checked is
\* taken the next time.
LEMMA PushKeeps ==
  ASSUME DOMAIN pass = DOMAIN IdlePass, NEW w, w \in pass.todo,
         PushBranches(w) \/ Checked(w) \/ PushVersion(w) \/ PushReport(w) \/ NotTaken(w)
  PROVE  /\ UNCHANGED <<journal, retained, gone, ops, moves, touched, lost>>
         /\ DOMAIN pass' = DOMAIN pass /\ pass'.pc = pass.pc /\ pass'.then = pass.then
         /\ pass'.mem = pass.mem /\ pass'.next = pass.next
         /\ pass'.busy = pass.busy /\ pass'.open = pass.open
         /\ \/ pass'.todo = pass.todo \ {w}
            \/ Checked(w) /\ pass'.todo = (pass.todo \ {w}) \cup {[w EXCEPT !.kind = "checked"]}
<1>1. ASSUME Answered(w)
      PROVE  /\ DOMAIN pass' = DOMAIN pass /\ pass'.pc = pass.pc /\ pass'.then = pass.then
             /\ pass'.mem = pass.mem /\ pass'.next = pass.next
             /\ pass'.busy = pass.busy /\ pass'.open = pass.open
             /\ pass'.todo = pass.todo \ {w}
  BY <1>1 DEF Answered, IdlePass
<1>2. CASE PushBranches(w)  BY <1>1, <1>2 DEF PushBranches
<1>3. CASE PushVersion(w)  BY <1>1, <1>3 DEF PushVersion
<1>4. CASE PushReport(w)  BY <1>1, <1>4 DEF PushReport, ghosts
<1>5. CASE NotTaken(w)  BY <1>1, <1>5 DEF NotTaken, ghosts
<1>6. CASE Checked(w)
  <2> DEFINE todo == (pass.todo \ {w}) \cup {[w EXCEPT !.kind = "checked"]}
  <2>1. /\ pass' = [pass EXCEPT !.todo = todo]
        /\ UNCHANGED <<journal, retained, gone, ops, moves, touched, lost>>
    BY <1>6 DEF CheckHead, Checked, ghosts
  <2> HIDE DEF todo
  <2>2. /\ DOMAIN pass' = DOMAIN pass /\ pass'.pc = pass.pc /\ pass'.then = pass.then
        /\ pass'.mem = pass.mem /\ pass'.next = pass.next
        /\ pass'.busy = pass.busy /\ pass'.open = pass.open /\ pass'.todo = todo
    BY <2>1 DEF IdlePass
  <2> QED  BY <1>6, <2>1, <2>2 DEF todo
<1> QED  BY <1>2, <1>3, <1>4, <1>5, <1>6

\* A family that is neither busy nor open is let go of.
LEMMA RetireIs ==
  ASSUME Retire, DOMAIN pass = DOMAIN IdlePass
  PROVE  \E mem \in SUBSET pass.mem :
            /\ pass.pc = "decide" /\ UNCHANGED <<origin, retained, gone, ops, moves, faults, ghosts>>
            /\ \A f \in pass.mem \ mem : Name(f) \notin pass.busy \cup pass.open
            /\ journal' = IF mem = {} THEN {} ELSE journal
            /\ \/ pass' = IdlePass /\ mem = pass.mem
               \/ /\ DOMAIN pass' = DOMAIN pass /\ pass'.mem = mem /\ pass'.then \in {"idle", "plan"}
                  /\ pass'.todo = pass.todo /\ pass'.next = pass.next
                  /\ pass'.pc = IF mem = {} THEN "letgo" ELSE IF mem = pass.mem THEN "plan" ELSE "retain"
<1> DEFINE mem == {f \in pass.mem : Name(f) \in pass.busy \cup pass.open}
           at == IF mem = {} THEN "letgo" ELSE IF mem = pass.mem THEN After ELSE "retain"
<1>1. /\ pass.pc = "decide" /\ UNCHANGED <<origin, retained, gone, ops, moves, faults, ghosts>>
      /\ pass' = Goto(at, [pass EXCEPT !.mem = mem, !.then = After])
      /\ journal' = IF mem = {} THEN {} ELSE journal
  BY DEF Retire
<1>2. mem \in SUBSET pass.mem /\ \A f \in pass.mem \ mem : Name(f) \notin pass.busy \cup pass.open
  OBVIOUS
<1> HIDE DEF mem
<1>3. After \in {"idle", "plan"}  BY DEF After
<1>4. CASE at = "idle"
  BY <1>1, <1>2, <1>3, <1>4 DEF Goto
<1>5. CASE at # "idle"
  <2>1. at = IF mem = {} THEN "letgo" ELSE IF mem = pass.mem THEN "plan" ELSE "retain"
    BY <1>3, <1>5
  <2> HIDE DEF at
  <2>2. pass' = [[pass EXCEPT !.mem = mem, !.then = After] EXCEPT !.pc = at]
    BY <1>1, <1>5 DEF Goto
  <2>3. /\ DOMAIN pass' = DOMAIN pass /\ pass'.mem = mem /\ pass'.then = After
        /\ pass'.todo = pass.todo /\ pass'.next = pass.next /\ pass'.pc = at
    BY <2>2 DEF IdlePass
  <2> QED  BY <1>1, <1>2, <1>3, <2>1, <2>3
<1> QED  BY <1>4, <1>5

\* A plan adds families to those of the journal, all of one new operation.
LEMMA PlanIs ==
  ASSUME Plan, DOMAIN pass = DOMAIN IdlePass
  PROVE  /\ pass.pc = "plan" /\ UNCHANGED <<origin, journal, retained, gone, moves, faults, ghosts>>
         /\ \/ pass' = IdlePass /\ UNCHANGED ops
            \/ /\ ops # MaxOps /\ ops' = ops + 1
               /\ DOMAIN pass' = DOMAIN pass /\ pass'.pc = "retain" /\ pass'.then = "read"
               /\ pass'.mem = pass.mem \cup NewFamilies(pass.mem, ops + 1)
               /\ pass'.todo = pass.todo /\ pass'.next = pass.next
<1> DEFINE new == NewFamilies(pass.mem, ops + 1)
<1>1. CASE pass' = IdlePass /\ UNCHANGED ops
  BY <1>1 DEF Plan
<1>2. CASE /\ ops # MaxOps /\ ops' = ops + 1
           /\ pass' = [pass EXCEPT !.mem = @ \cup new, !.pc = "retain", !.then = "read",
                            !.step = 0, !.planned = TRUE]
  <2> HIDE DEF new
  <2>1. /\ DOMAIN pass' = DOMAIN pass /\ pass'.pc = "retain" /\ pass'.then = "read"
        /\ pass'.mem = pass.mem \cup new /\ pass'.todo = pass.todo /\ pass'.next = pass.next
    BY <1>2 DEF IdlePass
  <2> QED  BY <1>2, <2>1 DEF Plan, new
<1> QED  BY <1>1, <1>2 DEF Plan

\* What the steps between them do: the pass takes the journal up, keeps it,
\* writes it, goes on, or is given up.
LEMMA StartIs ==
  ASSUME Start
  PROVE  /\ pass.pc = "idle" /\ UNCHANGED <<origin, journal, retained, gone, ops, moves, faults, ghosts>>
         /\ DOMAIN pass' = DOMAIN IdlePass /\ pass'.pc \in {"plan", "read"} /\ pass'.then = "idle"
         /\ pass'.mem = journal /\ pass'.todo = {} /\ pass'.next = {}
BY DEF Start, IdlePass
\* The objects are kept.
LEMMA KeepIs ==
  ASSUME KeepObjects, DOMAIN pass = DOMAIN IdlePass
  PROVE  /\ pass.pc = "retain" /\ UNCHANGED <<origin, journal, gone, ops, moves, faults, ghosts>>
         /\ retained' = retained \cup ObjectsOf(pass.mem)
         /\ DOMAIN pass' = DOMAIN pass /\ pass'.pc = "write" /\ pass'.then = pass.then
         /\ pass'.mem = pass.mem /\ pass'.todo = pass.todo /\ pass'.next = pass.next
         /\ pass'.busy = pass.busy /\ pass'.open = pass.open
BY DEF KeepObjects, IdlePass
\* The journal is written.
LEMMA WriteIs ==
  ASSUME WriteJournal, DOMAIN pass = DOMAIN IdlePass
  PROVE  /\ pass.pc = "write" /\ UNCHANGED <<origin, retained, gone, ops, moves, faults, ghosts>>
         /\ journal' = pass.mem
         /\ DOMAIN pass' = DOMAIN pass /\ pass'.pc = "letgo" /\ pass'.then = pass.then
         /\ pass'.mem = pass.mem /\ pass'.todo = pass.todo /\ pass'.next = pass.next
         /\ pass'.busy = pass.busy /\ pass'.open = pass.open
BY DEF WriteJournal, IdlePass
\* What it no longer names is let go.
LEMMA LetGoIs ==
  ASSUME LetGo, DOMAIN pass = DOMAIN IdlePass
  PROVE  /\ pass.pc = "letgo" /\ UNCHANGED <<origin, journal, gone, ops, moves, faults, ghosts>>
         /\ retained' = retained \cap ObjectsOf(pass.mem)
         /\ \/ pass' = IdlePass
            \/ /\ DOMAIN pass' = DOMAIN pass /\ pass'.pc = pass.then /\ pass'.then = pass.then
               /\ pass.then # "idle"
               /\ pass'.mem = pass.mem /\ pass'.todo = pass.todo /\ pass'.next = pass.next
               /\ pass'.busy = pass.busy /\ pass'.open = pass.open
BY DEF LetGo, Goto, IdlePass
\* The replacements are made.
LEMMA ReplaceIs ==
  ASSUME Replace, DOMAIN pass = DOMAIN IdlePass
  PROVE  /\ pass.pc = "push" /\ pass.todo = {}
         /\ UNCHANGED <<origin, journal, retained, ops, moves, faults, ghosts>> /\ gone' \subseteq gone
         /\ DOMAIN pass' = DOMAIN pass /\ pass'.then = "decide"
         /\ pass'.mem = pass.next /\ pass'.todo = pass.todo /\ pass'.next = pass.next
         /\ pass'.busy = pass.busy /\ pass'.open = pass.open
         /\ \/ pass'.pc = "decide" /\ pass.next = pass.mem
            \/ pass'.pc = "retain"
BY DEF Replace, IdlePass
\* Origin is read once more.
LEMMA AgainIs ==
  ASSUME Again, DOMAIN pass = DOMAIN IdlePass
  PROVE  /\ pass.pc = "decide" /\ UNCHANGED <<origin, journal, retained, gone, ops, moves, faults, ghosts>>
         /\ DOMAIN pass' = DOMAIN pass /\ pass'.pc = "read" /\ pass'.then = pass.then
         /\ pass'.mem = pass.mem /\ pass'.todo = pass.todo /\ pass'.next = pass.next
BY DEF Again, IdlePass
\* A pass given up forgets what it held; nothing else is touched.
LEMMA GivenUp ==
  ASSUME KeepFails \/ Fail
  PROVE  /\ pass' = IdlePass /\ UNCHANGED <<origin, journal, retained, gone, ops, moves, ghosts>>
         /\ faults' = faults \/ (faults > 0 /\ faults' = faults - 1)
BY DEF KeepFails, Fail

-----------------------------------------------------------------------------
(***************************************************************************)
(* What the journal on disk names stays reachable.                         *)
(***************************************************************************)

\* The memory of a pass: what it is about to write is kept already, and what
\* it lets go of is what the journal does not name.
KeptInv ==
    /\ DOMAIN pass = DOMAIN IdlePass
    /\ pass.pc = "write" => lost \/ ObjectsOf(pass.mem) \subseteq retained
    /\ pass.pc = "letgo" => pass.mem = journal
    /\ pass.then \in {"idle", "push", "decide", "read", "plan"}
    /\ lost \in BOOLEAN
    /\ JournalKept

\* An empty journal names nothing.
LEMMA NothingNamed == ObjectsOf({}) = {}
BY DEF ObjectsOf

\* It holds at first.
LEMMA KeptInit ==
  ASSUME Init  PROVE  KeptInv
BY NothingNamed DEF Init, KeptInv, JournalKept, IdlePass

\* The steps that leave what is on disk alone, and go on to no step that
\* writes there.
LEMMA Aside ==
  ASSUME KeptInv, UNCHANGED <<journal, retained, lost>>,
         DOMAIN pass' = DOMAIN IdlePass, pass'.pc \notin {"write", "letgo"},
         pass'.then \in {"idle", "push", "decide", "read", "plan"}
  PROVE  KeptInv'
BY DEF KeptInv, JournalKept, ObjectsOf, Objects

\* Every step keeps it: objects are kept before the journal that names them
\* is written, and let go once the one on disk is the one in memory.
LEMMA KeptStep ==
  ASSUME KeptInv, [Next]_vars  PROVE  KeptInv'
<1>0. DOMAIN pass = DOMAIN IdlePass  BY DEF KeptInv
<1>1. CASE UNCHANGED vars
  BY <1>1 DEF vars, local, ghosts, KeptInv, JournalKept, ObjectsOf, Objects
<1>2. CASE Start  BY <1>2, StartIs, Aside DEF ghosts
<1>3. CASE KeepObjects  BY <1>0, <1>3, KeepIs DEF KeptInv, JournalKept, ghosts
<1>4. CASE KeepFails \/ Fail  BY <1>4, GivenUp, Aside DEF ghosts, IdlePass
<1>5. CASE WriteJournal  BY <1>0, <1>5, WriteIs DEF KeptInv, JournalKept, ghosts
<1>6. CASE LetGo
  <2>1. CASE pass' = IdlePass
    BY <1>0, <1>6, <2>1, LetGoIs DEF KeptInv, JournalKept, ghosts, IdlePass
  <2>2. CASE pass' # IdlePass
    BY <1>0, <1>6, <2>2, LetGoIs DEF KeptInv, JournalKept, ghosts
  <2> QED  BY <2>1, <2>2
<1>7. ASSUME NEW known, Read(known)  PROVE KeptInv'
  BY <1>0, <1>7, ReadIs, Aside DEF ghosts
<1>8. ASSUME NEW w \in pass.todo, pass.pc = "push",
             PushBranches(w) \/ Checked(w) \/ PushVersion(w) \/ PushReport(w) \/ NotTaken(w)
      PROVE  KeptInv'
  BY <1>0, <1>8, PushKeeps, Aside DEF KeptInv
<1>9. CASE Replace  BY <1>0, <1>9, ReplaceIs, Aside DEF ghosts
<1>10. CASE Again  BY <1>0, <1>10, AgainIs, Aside DEF ghosts, KeptInv
<1>11. CASE Retire
  <2>1. PICK mem \in SUBSET pass.mem :
            /\ UNCHANGED <<retained, lost>>
            /\ journal' = IF mem = {} THEN {} ELSE journal
            /\ \/ pass' = IdlePass /\ mem = pass.mem
               \/ /\ DOMAIN pass' = DOMAIN pass /\ pass'.mem = mem /\ pass'.then \in {"idle", "plan"}
                  /\ pass'.pc = IF mem = {} THEN "letgo" ELSE IF mem = pass.mem THEN "plan" ELSE "retain"
    BY <1>0, <1>11, RetireIs DEF ghosts
  <2>2. CASE mem = {}
    <3>1. journal' = {} /\ ObjectsOf(journal') = {}
      BY <2>1, <2>2, NothingNamed
    <3>2. pass'.pc \in {"letgo", "idle"} /\ pass'.mem = {} /\ DOMAIN pass' = DOMAIN IdlePass
          /\ pass'.then \in {"idle", "plan"}
      BY <1>0, <2>1, <2>2 DEF IdlePass
    <3> QED  BY <2>1, <3>1, <3>2 DEF KeptInv, JournalKept
  <2>3. CASE mem # {}
    <3>1. DOMAIN pass' = DOMAIN IdlePass /\ pass'.pc \in {"idle", "plan", "retain"}
          /\ pass'.then \in {"idle", "plan"}
      BY <1>0, <2>1, <2>3 DEF IdlePass
    <3> QED  BY <2>1, <2>3, <3>1, Aside
  <2> QED  BY <2>2, <2>3
<1>12. CASE Plan  BY <1>0, <1>12, PlanIs, Aside DEF ghosts, IdlePass
<1>13. CASE LoseScratch
  <2>1. pass.pc = "idle" /\ UNCHANGED pass /\ lost' = TRUE  BY <1>13 DEF LoseScratch
  <2> QED  BY <2>1 DEF KeptInv, JournalKept
<1>14. CASE Else
  <2>1. UNCHANGED <<local, lost>>  BY <1>14, ElseIs
  <2> QED  BY <2>1 DEF local, KeptInv, JournalKept, ObjectsOf, Objects
<1> QED
  BY <1>1, <1>2, <1>3, <1>4, <1>5, <1>6, <1>7, <1>8, <1>9, <1>10, <1>11, <1>12, <1>13, <1>14, StepIs

\* What the journal on disk names stays reachable in the scratch repository,
\* at whatever step a pass crashes, until that repository itself is lost
\* (restack/journal.go, keep and letGo).
THEOREM JournalStaysReadable == Spec => []JournalKept
<1>1. KeptInv => JournalKept  BY DEF KeptInv
<1> QED  BY <1>1, KeptInit, KeptStep, PTL DEF Spec

-----------------------------------------------------------------------------
(***************************************************************************)
(* What a pass keeps agrees with itself.                                   *)
(***************************************************************************)

\* Families that keep their keys keep agreeing.
LEMMA AgreesKept ==
  ASSUME NEW j, Agrees(j), NEW m, DOMAIN m = j, \A f \in j : Keys(m[f]) = Keys(f)
  PROVE  Agrees({m[f] : f \in j})
BY DEF Agrees
LEMMA AgreesLess ==
  ASSUME NEW j, Agrees(j), NEW k \in SUBSET j
  PROVE  Agrees(k)
BY DEF Agrees

\* What is next for a family is the family.
LEMMA NextIs ==
  ASSUME NEW f, NEW known, FamilyOK(f)
  PROVE  FamilyOK(NextOf(f, known)) /\ Same(f, NextOf(f, known))
         /\ Same(Confirmed(f, known), NextOf(f, known))
<1>1. FamilyOK(Confirmed(f, known)) /\ Same(f, Confirmed(f, known))
  BY ConfirmedIs
<1>2. CASE Phase(f, known) # {}
  BY <1>1, <1>2 DEF NextOf, Same
<1>3. CASE Phase(f, known) = {}
  <2> DEFINE g == Confirmed(f, known)
  <2>1. BranchPush(g, known) = "done" => g.moved
    BY ConfirmedIs
  <2>2. FamilyOK(Replaced(g, known)) /\ Same(g, Replaced(g, known))
    BY <1>1, <2>1, ReplacedIs
  <2> QED  BY <1>1, <1>3, <2>2 DEF NextOf, Same
<1> QED  BY <1>2, <1>3
\* A read keeps the journal agreeing with itself, now and next.
LEMMA ReadAgrees ==
  ASSUME NEW j, NEW known, Agrees(j), \A f \in j : FamilyOK(f)
  PROVE  LET mem == {Confirmed(f, known) : f \in j}
             next == {NextOf(f, known) : f \in j}
         IN  Agrees(mem) /\ Agrees(next) /\ Mirrors(mem, next) /\ Mirrors(next, mem)
<1> DEFINE m == [f \in j |-> Confirmed(f, known)]
           n == [f \in j |-> NextOf(f, known)]
<1>1. \A f \in j : Keys(m[f]) = Keys(f) /\ Keys(n[f]) = Keys(f)
  BY ConfirmedIs, NextIs, SameIs
<1>2. DOMAIN m = j /\ DOMAIN n = j /\ {m[f] : f \in j} = {Confirmed(f, known) : f \in j}
      /\ {n[f] : f \in j} = {NextOf(f, known) : f \in j}
  OBVIOUS
<1>3. \A f \in j : Same(m[f], n[f]) /\ Same(n[f], m[f])
  BY NextIs DEF Same
<1> HIDE DEF m, n
<1>4. Agrees({m[f] : f \in j}) /\ Agrees({n[f] : f \in j})
  BY <1>1, <1>2, AgreesKept
<1>5. Mirrors({m[f] : f \in j}, {n[f] : f \in j}) /\ Mirrors({n[f] : f \in j}, {m[f] : f \in j})
  BY <1>3 DEF Mirrors
<1> QED  BY <1>2, <1>4, <1>5

\* The families a plan adds share nothing with the journal or each other.
LEMMA BuiltKeys ==
  ASSUME NEW L, NEW o
  PROVE  LET f == Built(L, o) IN
         Keys(f) = LayerKeys(L) /\ Layers(f) = L /\ f.op = o /\ Name(f) = <<o, L>>
<1> DEFINE saw == [c \in L |-> Observed(c)]
<1>1. \A c \in L : saw[c].branch = Active(c).branch
  BY DEF Observed
<1>2. DOMAIN saw = L
  OBVIOUS
<1>3. Built(L, o).saw = saw /\ Built(L, o).op = o
  BY DEF Built
<1> QED  BY <1>1, <1>2, <1>3 DEF Keys, LayerKeys, Layers, Name

\* What a plan adds shares no change and no branch with what is there, or
\* with the rest of it: waits and overlapping.
LEMMA PlanAgrees ==
  ASSUME NEW j, NEW o, Agrees(j)
  PROVE  Agrees(j \cup NewFamilies(j, o))
<1>1. \A f \in NewFamilies(j, o) : \E L \in Planned(j) : f = Built(L, o)
  BY DEF NewFamilies
<1>2. \A L \in Planned(j) : /\ \A f \in j : Keys(f) \cap LayerKeys(L) = {}
                            /\ \A M \in Planned(j) \ {L} : LayerKeys(L) \cap LayerKeys(M) = {}
  BY DEF Planned
<1>3. ASSUME NEW f \in j, NEW g \in NewFamilies(j, o)  PROVE Keys(f) \cap Keys(g) = {}
  BY <1>1, <1>2, BuiltKeys
<1>4. ASSUME NEW f \in NewFamilies(j, o), NEW g \in NewFamilies(j, o), f # g
      PROVE  Keys(f) \cap Keys(g) = {}
  BY <1>1, <1>2, <1>4, BuiltKeys
<1> QED  BY <1>3, <1>4 DEF Agrees

\* The memory of a pass keeps in order, whatever the step.
LEMMA PassStep ==
  ASSUME IInv, [Next]_vars  PROVE  PassOK'
<1>0. DOMAIN pass = DOMAIN IdlePass /\ PassOK  BY DEF IInv, PassOK
<1>1. Agrees({})  BY DEF Agrees
<1>2. CASE UNCHANGED vars
  BY <1>0, <1>2 DEF vars, local, PassOK, Agrees, Keys, Layers, Mirrors, Same, Settling
<1>3. ASSUME pass' = IdlePass, UNCHANGED journal  PROVE PassOK'
  BY <1>0, <1>1, <1>3 DEF PassOK, IdlePass, Settling
<1>4. CASE Start
  BY <1>0, <1>4, StartIs DEF PassOK, Settling
<1>5. CASE KeepObjects
  BY <1>0, <1>5, KeepIs DEF PassOK, Settling
<1>6. CASE KeepFails \/ Fail
  BY <1>3, <1>6, GivenUp
<1>7. CASE WriteJournal
  BY <1>0, <1>7, WriteIs DEF PassOK, Settling
<1>8. CASE LetGo
  BY <1>0, <1>3, <1>8, LetGoIs DEF PassOK, Settling
<1>9. ASSUME NEW known, Read(known)  PROVE PassOK'
  <2>1. \A f \in pass.mem : FamilyOK(f)
    BY DEF IInv, FamiliesOK, Known
  <2>2. /\ Agrees(pass'.mem) /\ Agrees(pass'.next)
        /\ Mirrors(pass'.mem, pass'.next) /\ Mirrors(pass'.next, pass'.mem)
    BY <1>0, <1>9, <2>1, ReadIs, ReadAgrees DEF PassOK
  <2> QED  BY <1>0, <1>9, <2>2, ReadIs DEF PassOK, Settling
<1>10. ASSUME NEW w \in pass.todo, pass.pc = "push",
              PushBranches(w) \/ Checked(w) \/ PushVersion(w) \/ PushReport(w) \/ NotTaken(w)
       PROVE  PassOK'
  BY <1>0, <1>10, PushKeeps DEF PassOK, Settling
<1>11. CASE Replace
  BY <1>0, <1>11, ReplaceIs DEF PassOK, Settling
<1>12. CASE Again
  BY <1>0, <1>12, AgainIs DEF PassOK, Settling
<1>13. CASE Retire
  <2>1. PICK mem \in SUBSET pass.mem :
            /\ journal' = IF mem = {} THEN {} ELSE journal
            /\ pass.pc = "decide"
            /\ \/ pass' = IdlePass /\ mem = pass.mem
               \/ /\ DOMAIN pass' = DOMAIN pass /\ pass'.mem = mem /\ pass'.then \in {"idle", "plan"}
                  /\ pass'.todo = pass.todo /\ pass'.next = pass.next
                  /\ pass'.pc = IF mem = {} THEN "letgo" ELSE IF mem = pass.mem THEN "plan" ELSE "retain"
    BY <1>0, <1>13, RetireIs
  <2>2. Agrees(mem) /\ Agrees(journal')
    BY <1>0, <1>1, <2>1, AgreesLess DEF PassOK
  <2>3. pass.todo = {} /\ pass.mem = journal
    BY <1>0, <2>1 DEF PassOK, Settling
  <2> QED  BY <1>0, <1>1, <2>1, <2>2, <2>3 DEF PassOK, Settling, IdlePass
<1>14. CASE Plan
  <2>1. CASE pass' = IdlePass
    BY <1>3, <1>14, <2>1 DEF Plan
  <2>2. CASE pass' # IdlePass
    <3>1. Agrees(pass'.mem)
      BY <1>0, <1>14, <2>2, PlanIs, PlanAgrees DEF PassOK
    <3> QED  BY <1>0, <1>14, <2>2, <3>1, PlanIs DEF PassOK, Settling
  <2> QED  BY <2>1, <2>2
<1>15. CASE LoseScratch \/ Else
  <2>1. UNCHANGED <<journal, pass>>
    BY <1>15, ElseIs DEF LoseScratch, local
  <2> QED  BY <1>0, <2>1 DEF PassOK, Agrees, Keys, Layers, Mirrors, Same, Settling
<1> QED
  BY <1>2, <1>4, <1>5, <1>6, <1>7, <1>8, <1>9, <1>10, <1>11, <1>12, <1>13, <1>14, <1>15, StepIs

-----------------------------------------------------------------------------
(***************************************************************************)
(* What a plan builds.                                                     *)
(***************************************************************************)

\* The active version of a recorded change is one its record holds.
LEMMA ActiveIs ==
  ASSUME RecordsOK, NEW c \in Recorded
  PROVE  /\ c \in Change /\ EntryOK(c, Active(c)) /\ Active(c) \in Range(record[c])
         /\ Active(c).head \in VersionHeads(c)
         /\ Len(record[c]) \in Nat \ {0}
BY LastIs DEF RecordsOK, IsSeq, Recorded, Active, VersionHeads

\* A landing never takes onto main the work of a change that has not landed.
LEMMA CutIs ==
  ASSUME RecordsOK, LandedOK, NEW c \in Unlanded
  PROVE  c \notin CutUnder(Active(c).head)
<1>0. c \in Recorded /\ c \in Change /\ IsHead(Active(c).head) /\ Active(c).head.of = c
      /\ Active(c).head \in VersionHeads(c) /\ VersionHeads(c) \cap landed = {} /\ record[c] # <<>>
  BY ActiveIs DEF Unlanded, EntryOK, Recorded
<1> SUFFICES ASSUME NEW g \in landed, Reaches(g, Active(c).head), c \in DOMAIN g.work  PROVE FALSE
  BY DEF CutUnder
<1>1. g # Active(c).head
  BY <1>0
<1>2. g.of \in Under[c] \cup {c}
  BY <1>0, <1>1 DEF Reaches
<1>3. g.of # c
  BY <1>0 DEF LandedOK
<1>4. g.of \in Under[c] /\ g.of \in Change /\ c \notin Under[c] /\ Under[g.of] \subseteq Under[c]
  BY <1>0, <1>2, <1>3, RestackerAssumption
<1>5. IsHead(g)
  BY <1>4 DEF LandedOK
<1>6. DOMAIN g.work \subseteq Under[g.of] \cup {g.of}
  BY <1>5, FieldsIs
<1> QED  BY <1>4, <1>6

\* A family that is planned is one of recorded changes that have not landed.
LEMMA PlannedIs ==
  ASSUME NEW j, NEW L \in Planned(j)
  PROVE  L \subseteq Unlanded /\ L # {} /\ Judge(L) \in {"restack", "hold"}
BY DEF Planned, Families, FamilyOf

\* A family that is built to be restacked is checked first.
LEMMA BuiltIs ==
  ASSUME RecordsOK, LandedOK, tip \in 0..MaxTip, NEW o \in 1..MaxOps,
         NEW L, L \subseteq Unlanded, L # {}, Judge(L) \in {"restack", "hold"}
  PROVE  LET f == Built(L, o) IN
         /\ FamilyOK(f) /\ SawOK(f) /\ f.tip = tip
         /\ DOMAIN f.report.said = L /\ ~f.moved /\ DOMAIN f.happened = {} /\ f.added = {}
         /\ Restacks(f) => Judge(L) = "restack"
         /\ ~Restacks(f) => \A c \in L : f.report.said[c] # "added"
         /\ \A c \in L : f.saw[c] = Observed(c)
<1> DEFINE held == Judge(L) = "hold"
           result == IF held \/ \E c \in L : <<c, tip>> \in Empties \ Conflicts THEN "blocked"
                     ELSE IF \E c \in L : <<c, tip>> \in Conflicts THEN "conflict" ELSE "complete"
           new == [c \in IF result = "complete" THEN L ELSE {} |-> Prepared(Active(c).head, <<o, L>>)]
           saw == [c \in L |-> Observed(c)]
           said == [c \in L |-> IF result = "complete" THEN "added" ELSE "none"]
           holding == IF held THEN Holding(L, UNION {saw[c].heads : c \in L}) ELSE <<>>
           r == [op |-> o, tip |-> tip, result |-> result, saw |-> saw, said |-> said, held |-> holding]
           reports == [c \in {d \in L : ~SaysAlready(d, r)} |-> Len(report[c])]
           f == [op |-> o, tip |-> tip, saw |-> saw, new |-> new, report |-> r, reports |-> reports,
                 happened |-> <<>>, moved |-> FALSE, added |-> {}]
<1>1. f = Built(L, o)
  BY DEF Built
<1>2. \A c \in L : /\ c \in Change /\ EntryOK(c, Active(c)) /\ Len(record[c]) \in Nat \ {0}
                   /\ Active(c).head \in VersionHeads(c) /\ c \notin CutUnder(Active(c).head)
  BY ActiveIs, CutIs DEF Unlanded
<1>3. DOMAIN saw = L /\ \A c \in L : /\ saw[c] = Observed(c)
                        /\ saw[c].old = Len(record[c]) /\ saw[c].head = Active(c).head
                        /\ saw[c].branch = Active(c).branch
  BY DEF Observed
<1>4. DOMAIN new = (IF result = "complete" THEN L ELSE {})
      /\ \A c \in DOMAIN new : new[c] = Prepared(Active(c).head, <<o, L>>)
  OBVIOUS
<1>5. DOMAIN said = L /\ (result # "complete" => \A c \in L : said[c] # "added")
  OBVIOUS
<1>6. result = "complete" => Judge(L) = "restack"
  OBVIOUS
<1>7. DOMAIN reports \subseteq L
  OBVIOUS
<1>8. <<o, L>> \in (1..MaxOps) \X SUBSET Change
  BY <1>2
<1> HIDE DEF result, new, saw, said, holding, reports
<1>9. /\ Layers(f) = L /\ Name(f) = <<o, L>> /\ (Restacks(f) <=> result = "complete")
      /\ f.new = new /\ f.saw = saw /\ f.reports = reports /\ f.report = r /\ f.moved = FALSE
      /\ f.added = {} /\ f.happened = <<>> /\ DOMAIN f.happened = {} /\ f.op = o /\ f.tip = tip
      /\ r.op = o /\ r.result = result /\ r.said = said
      /\ DOMAIN r = {"op", "tip", "result", "saw", "said", "held"}
      /\ DOMAIN f = {"op", "tip", "saw", "new", "report", "reports", "happened", "moved", "added"}
  BY <1>3, <1>4 DEF Layers, Name, Restacks
<1>10. \A c \in DOMAIN new : IsHead(new[c]) /\ new[c].of = c /\ new[c].by = <<o, L>>
  <2> SUFFICES ASSUME NEW c \in DOMAIN new  PROVE IsHead(new[c]) /\ new[c].of = c /\ new[c].by = <<o, L>>
    OBVIOUS
  <2>1. IsHead(Active(c).head) /\ Active(c).head.of = c /\ c \notin CutUnder(Active(c).head)
        /\ new[c] = Prepared(Active(c).head, <<o, L>>)
    BY <1>2, <1>4 DEF EntryOK
  <2>2. IsHead(new[c]) /\ new[c].by = <<o, L>>
    BY <2>1, <1>8, PreparedIsHead
  <2>3. new[c].of = c
    BY <2>1 DEF Prepared
  <2> QED  BY <2>2, <2>3
<1>11. result = "complete" => \A c, d \in L : c # d => saw[c].branch # saw[d].branch
  <2> SUFFICES ASSUME result = "complete"  PROVE \A c, d \in L : c # d => saw[c].branch # saw[d].branch
    OBVIOUS
  <2>1. ~Refused(L)  BY <1>6 DEF Judge
  <2> QED  BY <2>1, <1>3 DEF Refused
<1>12. SawOK(f)
  BY <1>2, <1>3, <1>9 DEF SawOK
<1> HIDE DEF f, r
<1>13. PlanOK(f)
  <2>1. L \subseteq Change /\ L # {}  BY <1>2
  <2>2. \A c \in L : /\ saw[c].old \in Nat \ {0} /\ saw[c].branch \in Uses[c]
                     /\ IsHead(saw[c].head) /\ saw[c].head.of = c
    BY <1>2, <1>3 DEF EntryOK
  <2> QED  BY <1>4, <1>9, <1>10, <1>11, <2>1, <2>2 DEF PlanOK
<1>14. ProgressOK(f) /\ ReportsOK(f)
  BY <1>7, <1>9 DEF ProgressOK, ReportsOK, ReportOK
<1> QED
  BY <1>1, <1>3, <1>5, <1>6, <1>9, <1>12, <1>13, <1>14 DEF FamilyOK

-----------------------------------------------------------------------------
(***************************************************************************)
(* What origin holds stays in order.                                       *)
(***************************************************************************)

\* An author's rework is a head of the change.
LEMMA ReworkedIs ==
  ASSUME RecordsOK, NEW c \in Recorded, NEW h \in Reworked(c)
  PROVE  IsHead(h)
<1> DEFINE a == Active(c).head
           w == a.work[c] + 1
           under == {g.head : g \in UNION {Range(record[d]) : d \in Under[c]}}
<1>1. c \in Change /\ IsHead(a) /\ a.of = c
  BY ActiveIs DEF EntryOK
<1>2. a.work[c] \in 1..MaxWork
  BY <1>1, HeadIs
<1>3. ~(w > MaxWork)
  BY DEF Reworked
<1>4. w \in 1..MaxWork
  BY <1>2, <1>3, RestackerAssumption
<1>5. \/ h = [a EXCEPT !.work[c] = w]
      \/ \E g \in under :
            h = [of |-> c, tip |-> g.tip, by |-> g.by, more |-> g.more,
                 work |-> [d \in DOMAIN g.work \cup {c} |-> IF d = c THEN w ELSE g.work[d]]]
  BY <1>3 DEF Reworked
<1>6. \A g \in under : IsHead(g) /\ g.of \in Under[c]
  BY <1>1, RestackerAssumption DEF RecordsOK, EntryOK
<1> HIDE DEF w, a, under
<1>7. CASE h = [a EXCEPT !.work[c] = w]
  BY <1>1, <1>4, <1>7, AmendedIsHead
<1>8. ASSUME NEW g \in under,
             h = [of |-> c, tip |-> g.tip, by |-> g.by, more |-> g.more,
                  work |-> [d \in DOMAIN g.work \cup {c} |-> IF d = c THEN w ELSE g.work[d]]]
      PROVE  IsHead(h)
  BY <1>1, <1>4, <1>6, <1>8, BuiltOnIsHead
<1> QED  BY <1>5, <1>7, <1>8

\* The steps of a pass that are no push leave origin alone.
LEMMA OriginIs ==
  ASSUME [Next]_vars
  PROVE  \/ UNCHANGED origin
         \/ \E w \in pass.todo : /\ pass.pc = "push"
              /\ \/ w.kind = "branches" /\ PushBranches(w)
                 \/ w.kind = "checked" /\ PushVersion(w)
                 \/ w.kind \in {"report", "happened"} /\ PushReport(w)
         \/ Else
<1>1. CASE Start \/ KeepObjects \/ KeepFails \/ WriteJournal \/ LetGo
  BY <1>1 DEF Start, KeepObjects, KeepFails, WriteJournal, LetGo
<1>2. CASE \E known \in BOOLEAN : Read(known)
  BY <1>2 DEF Read
<1>3. ASSUME NEW w, Checked(w) \/ NotTaken(w)  PROVE UNCHANGED origin
  BY <1>3 DEF CheckHead, Checked, NotTaken
<1>4. CASE Replace \/ Again \/ Retire
  BY <1>4 DEF Replace, Again, Retire
<1>5. CASE Plan \/ Fail \/ LoseScratch
  BY <1>5 DEF Plan, Fail, LoseScratch
<1>6. CASE UNCHANGED vars
  BY <1>6 DEF vars
<1> QED  BY <1>1, <1>2, <1>3, <1>4, <1>5, <1>6, StepIs

\* A record grows by an entry of its change, or is deleted.
RecordGrows(c) ==
    \/ record'[c] = record[c] \/ record'[c] = <<>>
    \/ record[c] # <<>> /\ \E e : EntryOK(c, e) /\ record'[c] = Append(record[c], e)

\* The write of a family names one of its changes, as it was planned.
LEMMA WriteIsOf ==
  ASSUME IInv, NEW w \in pass.todo
  PROVE  WriteOK(w) /\ w.f \in Known /\ w.f.op \in 1..ops /\ FamilyOK(w.f) /\ SawOK(w.f)
BY DEF IInv, WritesOK, WriteOK, FamiliesOK, Known

\* A record goes on, is deleted, or stays.
LEMMA RecordStep ==
  ASSUME IInv, [Next]_vars
  PROVE  DOMAIN record' = Change /\ \A c \in Change : RecordGrows(c)
<1>0. RecordsOK  BY DEF IInv, OriginOK
<1>1. ASSUME UNCHANGED record  PROVE DOMAIN record' = Change /\ \A c \in Change : RecordGrows(c)
  BY <1>0, <1>1 DEF RecordsOK, RecordGrows
<1>2. ASSUME NEW c \in Change, NEW s, record' = [record EXCEPT ![c] = s],
             s = <<>> \/ (record[c] # <<>> /\ \E e : EntryOK(c, e) /\ s = Append(record[c], e))
      PROVE  DOMAIN record' = Change /\ \A d \in Change : RecordGrows(d)
  BY <1>0, <1>2 DEF RecordsOK, RecordGrows
<1>3. ASSUME NEW w \in pass.todo, w.kind = "checked", PushVersion(w)
      PROVE  DOMAIN record' = Change /\ \A d \in Change : RecordGrows(d)
  <2> DEFINE c == w.c
             e == Commit(Last(record[c]).n + 1, w.f.new[c], w.f.saw[c].branch, "ready", w.f.op)
  <2>1. /\ FamilyOK(w.f) /\ c \in DOMAIN w.f.new
    BY <1>3, WriteIsOf DEF WriteOK
  <2>2. /\ c \in Change /\ IsHead(w.f.new[c]) /\ w.f.new[c].of = c
        /\ w.f.saw[c].branch \in Uses[c] /\ w.f.saw[c].old \in Nat \ {0}
    BY <2>1 DEF FamilyOK, PlanOK
  <2>3. EntryOK(c, e)
    BY <2>2 DEF EntryOK, Commit
  <2>4. Len(record[c]) = w.f.saw[c].old /\ record' = [record EXCEPT ![c] = Append(@, e)]
    BY <1>3 DEF PushVersion
  <2>5. record[c] # <<>>
    BY <2>2, <2>4, EmptyIs
  <2> HIDE DEF e, c
  <2>6. record' = [record EXCEPT ![c] = Append(record[c], e)]
    BY <2>4
  <2> QED  BY <1>2, <2>2, <2>3, <2>5, <2>6
<1>4. CASE Else
  <2>0. \A c \in Change : record[c] # <<>> => EntryOK(c, Last(record[c]))
    BY <1>0, LastIs DEF RecordsOK, IsSeq
  <2>1. ASSUME NEW c \in Change, NEW b \in Uses[c], Upload(c, b)
        PROVE  DOMAIN record' = Change /\ \A d \in Change : RecordGrows(d)
    <3> DEFINE e == Commit(Last(record[c]).n + 1, branch[b], b, "ready", 0)
    <3>1. b \in Change
      BY RestackerAssumption
    <3>2. IsHead(branch[b]) /\ branch[b].of = c /\ record[c] # <<>>
      BY <2>1, <3>1 DEF Upload, IInv, OriginOK, BranchesOK
    <3>3. EntryOK(c, e)
      BY <3>2 DEF EntryOK, Commit
    <3>4. record' = [record EXCEPT ![c] = Append(record[c], e)]
      BY <2>1 DEF Upload
    <3> HIDE DEF e
    <3> QED  BY <1>2, <3>2, <3>3, <3>4
  <2>2. ASSUME NEW c \in Change, Unready(c)
        PROVE  DOMAIN record' = Change /\ \A d \in Change : RecordGrows(d)
    <3> DEFINE l == Last(record[c])
               e == [l EXCEPT !.state = "draft", !.op = 0]
    <3>1. record[c] # <<>> /\ EntryOK(c, l)
      BY <2>0, <2>2 DEF Unready
    <3>2. DOMAIN e = DOMAIN l /\ e.head = l.head /\ e.branch = l.branch
      BY <3>1 DEF EntryOK
    <3>3. record' = [record EXCEPT ![c] = Append(record[c], e)]
      BY <2>2 DEF Unready
    <3> HIDE DEF e, l
    <3>4. EntryOK(c, e)
      BY <3>1, <3>2 DEF EntryOK
    <3> QED  BY <1>2, <3>1, <3>3, <3>4
  <2>3. ASSUME NEW c \in Change, DeleteRecord(c)
        PROVE  DOMAIN record' = Change /\ \A d \in Change : RecordGrows(d)
    BY <1>2, <2>3 DEF DeleteRecord
  <2>4. ASSUME NEW c \in Change, NEW b \in Uses[c],
               MoveBranch(c, b) \/ ReportElse(c) \/ File(c) \/ JudgeStale(c) \/ Land(c)
        PROVE  UNCHANGED record
    BY <2>4 DEF MoveBranch, ReportElse, File, JudgeStale, Land
  <2>5. ASSUME NEW kept \in BOOLEAN, MoveMain(kept)  PROVE UNCHANGED record
    BY <2>5 DEF MoveMain
  <2>6. \A c \in Change : c \in Uses[c]
    BY RestackerAssumption
  <2> QED  BY <1>1, <1>4, <2>1, <2>2, <2>3, <2>4, <2>5, <2>6 DEF Else
<1>5. ASSUME NEW w, PushBranches(w) \/ PushReport(w)  PROVE UNCHANGED record
  BY <1>5 DEF PushBranches, PushReport
<1> QED  BY <1>1, <1>3, <1>4, <1>5, OriginIs DEF origin

\* The version heads a record had it still has, unless it is deleted.
LEMMA VersionsGrow ==
  ASSUME RecordsOK, NEW c \in Change, RecordGrows(c), record'[c] # <<>>
  PROVE  /\ record[c] # <<>> /\ VersionHeads(c) \subseteq VersionHeads(c)'
         /\ Len(record[c]) \in Nat /\ Len(record'[c]) \in Nat /\ Len(record[c]) <= Len(record'[c])
         /\ \A i \in 1..Len(record[c]) : record'[c][i] = record[c][i]
<1>0. IsSeq(record[c])  BY DEF RecordsOK
<1>1. CASE record'[c] = record[c]
  <2>1. Len(record[c]) \in Nat  BY <1>0 DEF IsSeq
  <2> QED  BY <1>1, <2>1 DEF VersionHeads
<1>2. ASSUME NEW e, record'[c] = Append(record[c], e), record[c] # <<>>
      PROVE  /\ record[c] # <<>> /\ VersionHeads(c) \subseteq VersionHeads(c)'
             /\ Len(record[c]) \in Nat /\ Len(record'[c]) \in Nat /\ Len(record[c]) <= Len(record'[c])
             /\ \A i \in 1..Len(record[c]) : record'[c][i] = record[c][i]
  BY <1>0, <1>2, AppendIs DEF IsSeq, VersionHeads
<1> QED  BY <1>1, <1>2 DEF RecordGrows

\* Its versions are still heads of its change.
LEMMA RecordsStep ==
  ASSUME IInv, [Next]_vars  PROVE  RecordsOK'
<1>0. RecordsOK  BY DEF IInv, OriginOK
<1>1. DOMAIN record' = Change  BY RecordStep
<1> SUFFICES ASSUME NEW c \in Change
             PROVE  record'[c] \in Seq(Range(record'[c])) /\ \A e \in Range(record'[c]) : EntryOK(c, e)
  BY <1>1 DEF RecordsOK, IsSeq, EntryOK
<1>2. record[c] \in Seq(Range(record[c])) /\ \A e \in Range(record[c]) : EntryOK(c, e)
  BY <1>0 DEF RecordsOK, IsSeq
<1>3. RecordGrows(c)  BY RecordStep
<1>4. CASE record'[c] = record[c]  BY <1>2, <1>4
<1>5. CASE record'[c] = <<>>  BY <1>5, EmptyIs
<1>6. ASSUME NEW e, EntryOK(c, e), record'[c] = Append(record[c], e)
      PROVE  record'[c] \in Seq(Range(record'[c])) /\ \A x \in Range(record'[c]) : EntryOK(c, x)
  BY <1>2, <1>6, AppendIs
<1> QED  BY <1>3, <1>4, <1>5, <1>6 DEF RecordGrows

\* What a family saw stays recorded.
LEMMA SawStep ==
  ASSUME IInv, [Next]_vars, NEW f, FamilyOK(f), SawOK(f)
  PROVE  SawOK(f)'
<1> SUFFICES ASSUME NEW c \in Layers(f), record'[c] # <<>>
             PROVE  f.saw[c].old <= Len(record'[c]) /\ f.saw[c].head \in VersionHeads(c)'
  BY DEF SawOK, Layers
<1>1. RecordsOK /\ c \in Change /\ RecordGrows(c) /\ f.saw[c].old \in Nat
  BY RecordStep DEF IInv, OriginOK, FamilyOK, PlanOK
<1>2. /\ record[c] # <<>> /\ VersionHeads(c) \subseteq VersionHeads(c)'
      /\ Len(record[c]) \in Nat /\ Len(record'[c]) \in Nat /\ Len(record[c]) <= Len(record'[c])
  BY <1>1, VersionsGrow
<1>3. f.saw[c].old <= Len(record[c]) /\ f.saw[c].head \in VersionHeads(c)
  BY <1>2 DEF SawOK
<1>4. f.saw[c].old <= Len(record'[c])
  BY <1>1, <1>2, <1>3
<1> QED  BY <1>2, <1>3, <1>4

\* What landed is still a version of a record, or the record is gone.
LEMMA LandedStep ==
  ASSUME IInv, [Next]_vars  PROVE  LandedOK'
<1>0. RecordsOK /\ LandedOK  BY DEF IInv, OriginOK
<1>1. landed' = landed \/ \E c \in Change : landed' = landed \cup {request[c]}
                              /\ request[c] \in VersionHeads(c) /\ UNCHANGED record
  <2>1. CASE Else
    <3>1. ASSUME NEW c \in Change, NEW b \in Uses[c],
                 \/ MoveBranch(c, b) \/ Upload(c, b) \/ Unready(c) \/ DeleteRecord(c)
                 \/ ReportElse(c) \/ File(c) \/ JudgeStale(c)
          PROVE  landed' = landed
      BY <3>1 DEF MoveBranch, Upload, Unready, DeleteRecord, ReportElse, File, JudgeStale
    <3>2. ASSUME NEW kept \in BOOLEAN, MoveMain(kept)  PROVE landed' = landed
      BY <3>2 DEF MoveMain
    <3>3. \A c \in Change : c \in Uses[c]
      BY RestackerAssumption
    <3>4. ASSUME NEW c \in Change, Land(c)
          PROVE  landed' = landed \cup {request[c]} /\ request[c] \in VersionHeads(c) /\ UNCHANGED record
      BY <3>4 DEF Land
    <3> QED  BY <2>1, <3>1, <3>2, <3>3, <3>4 DEF Else
  <2>2. ASSUME NEW w, PushBranches(w) \/ PushVersion(w) \/ PushReport(w)  PROVE landed' = landed
    BY <2>2 DEF PushBranches, PushVersion, PushReport
  <2> QED  BY <2>1, <2>2, OriginIs DEF origin
<1>2. ASSUME NEW h \in landed
      PROVE  IsHead(h) /\ (record'[h.of] = <<>> \/ h \in VersionHeads(h.of)')
  <2>1. IsHead(h) /\ h.of \in Change /\ RecordGrows(h.of)
    BY <1>0, HeadIs, RecordStep DEF LandedOK
  <2> QED  BY <1>0, <2>1, VersionsGrow DEF LandedOK
<1>3. ASSUME NEW c \in Change, NEW h \in VersionHeads(c), UNCHANGED record
      PROVE  IsHead(h) /\ h \in VersionHeads(h.of)'
  <2>1. IsHead(h) /\ h.of = c
    BY <1>0, <1>3 DEF RecordsOK, VersionHeads, EntryOK
  <2> QED  BY <1>3, <2>1 DEF VersionHeads
<1> SUFFICES ASSUME NEW h \in landed'
             PROVE  IsHead(h) /\ (record'[h.of] = <<>> \/ h \in VersionHeads(h.of)')
  BY DEF LandedOK, IsHead
<1> QED  BY <1>1, <1>2, <1>3

\* Main and the bounds stay within their limits.
LEMMA MainStep ==
  ASSUME IInv, [Next]_vars  PROVE  MainOK'
<1>0. MainOK /\ DOMAIN pass = DOMAIN IdlePass
  BY DEF IInv, OriginOK, PassOK
<1>1. ASSUME UNCHANGED <<tip, line, ops, moves>>, faults' = faults \/ (faults > 0 /\ faults' = faults - 1)
      PROVE  MainOK'
  BY <1>0, <1>1, RestackerAssumption DEF MainOK
<1>2. CASE Start \/ KeepObjects \/ KeepFails \/ WriteJournal \/ LetGo
  BY <1>1, <1>2 DEF Start, KeepObjects, KeepFails, WriteJournal, LetGo, origin
<1>3. ASSUME NEW known \in BOOLEAN, Read(known)  PROVE MainOK'
  BY <1>0, <1>1, <1>3, ReadIs DEF origin
<1>4. ASSUME NEW w, PushBranches(w) \/ Checked(w) \/ PushVersion(w) \/ PushReport(w) \/ NotTaken(w)
      PROVE  MainOK'
  BY <1>1, <1>4 DEF PushBranches, CheckHead, Checked, PushVersion, PushReport, NotTaken, origin
<1>5. CASE Replace \/ Again \/ Retire \/ Fail \/ LoseScratch \/ UNCHANGED vars
  BY <1>1, <1>5 DEF Replace, Again, Retire, Fail, LoseScratch, origin, vars, local
<1>6. CASE Plan
  BY <1>0, <1>6, PlanIs, RestackerAssumption DEF MainOK, origin
<1>7. CASE Else
  <2>1. UNCHANGED <<ops, faults>> /\ moves > 0 /\ moves' = moves - 1
    BY <1>7, ElseIs DEF local, Move
  <2>2. \/ UNCHANGED <<tip, line>>
        \/ tip < MaxTip /\ tip' = tip + 1 /\ tip + 1 \in line' /\ line' \subseteq line \cup {tip + 1}
    <3>1. ASSUME NEW c \in Change, NEW b \in Uses[c],
                 \/ MoveBranch(c, b) \/ Upload(c, b) \/ Unready(c) \/ DeleteRecord(c)
                 \/ ReportElse(c) \/ File(c) \/ JudgeStale(c)
          PROVE  UNCHANGED <<tip, line>>
      BY <3>1 DEF MoveBranch, Upload, Unready, DeleteRecord, ReportElse, File, JudgeStale
    <3>2. ASSUME NEW c \in Change, NEW kept \in BOOLEAN, Land(c) \/ MoveMain(kept)
          PROVE  tip < MaxTip /\ tip' = tip + 1 /\ tip + 1 \in line' /\ line' \subseteq line \cup {tip + 1}
      BY <3>2 DEF Land, MoveMain
    <3>3. ASSUME NEW kept \in BOOLEAN, MoveMain(kept)
          PROVE  tip < MaxTip /\ tip' = tip + 1 /\ tip + 1 \in line' /\ line' \subseteq line \cup {tip + 1}
      BY <3>3 DEF MoveMain
    <3>4. \A c \in Change : c \in Uses[c]
      BY RestackerAssumption
    <3> QED  BY <1>7, <3>1, <3>2, <3>3, <3>4 DEF Else
  <2> QED  BY <1>0, <2>1, <2>2, RestackerAssumption DEF MainOK
<1> QED  BY <1>2, <1>3, <1>4, <1>5, <1>6, <1>7, StepIs

\* What a family's branch push does to each branch.
LEMMA BranchMoves ==
  ASSUME NEW w, PushBranches(w), FamilyOK(w.f), Restacks(w.f), NEW b \in Change
  PROVE  \/ /\ branch'[b] = branch[b]
            /\ \A c \in Layers(w.f) : w.f.saw[c].branch # b
         \/ \E c \in Layers(w.f) : /\ w.f.saw[c].branch = b /\ branch[b] = w.f.saw[c].head
                                   /\ c \in DOMAIN w.f.new /\ branch'[b] = w.f.new[c]
<1> DEFINE c == CHOOSE d \in Layers(w.f) : w.f.saw[d].branch = b
<1>1. branch'[b] = IF \E d \in Layers(w.f) : w.f.saw[d].branch = b THEN w.f.new[c] ELSE branch[b]
  BY DEF PushBranches
<1>2. CASE ~ \E d \in Layers(w.f) : w.f.saw[d].branch = b
  BY <1>1, <1>2
<1>3. CASE \E d \in Layers(w.f) : w.f.saw[d].branch = b
  <2>1. c \in Layers(w.f) /\ w.f.saw[c].branch = b
    BY <1>3
  <2>2. DOMAIN w.f.new = Layers(w.f)
    BY DEF FamilyOK, PlanOK, Restacks
  <2>3. branch[b] = w.f.saw[c].head
    BY <2>1 DEF PushBranches
  <2> QED  BY <1>1, <1>3, <2>1, <2>2, <2>3
<1> QED  BY <1>2, <1>3

\* A branch is moved to a head.
LEMMA BranchesStep ==
  ASSUME IInv, [Next]_vars  PROVE  BranchesOK'
<1>0. BranchesOK /\ RecordsOK  BY DEF IInv, OriginOK
<1>1. ASSUME UNCHANGED branch  PROVE BranchesOK'
  BY <1>0, <1>1 DEF BranchesOK, IsHead
<1>2. ASSUME NEW w \in pass.todo, w.kind = "branches", PushBranches(w)  PROVE BranchesOK'
  <2>1. FamilyOK(w.f) /\ Restacks(w.f)
    BY <1>2, WriteIsOf DEF WriteOK
  <2>2. ASSUME NEW b \in Change, branch'[b] # None  PROVE IsHead(branch'[b])
    <3>1. \A c \in DOMAIN w.f.new : IsHead(w.f.new[c])
      BY <2>1 DEF FamilyOK, PlanOK
    <3>2. branch[b] # None => IsHead(branch[b])
      BY <1>0 DEF BranchesOK
    <3> QED  BY <1>2, <2>1, <2>2, <3>1, <3>2, BranchMoves
  <2>3. DOMAIN branch' = Change
    BY <1>2 DEF PushBranches
  <2> QED  BY <2>2, <2>3 DEF BranchesOK, IsHead
<1>3. CASE Else
  <2>1. ASSUME NEW c \in Change, NEW b \in Uses[c], MoveBranch(c, b)  PROVE BranchesOK'
    <3>1. PICK h \in Reworked(c) \cup VersionHeads(c) \cup {[Active(c).head EXCEPT !.more = TRUE], None} :
             branch' = [branch EXCEPT ![b] = h]
      BY <2>1 DEF MoveBranch
    <3>2. c \in Recorded
      BY <2>1 DEF MoveBranch, Recorded
    <3>3. h # None => IsHead(h)
      <4>1. \A v \in VersionHeads(c) : IsHead(v)
        BY <1>0 DEF RecordsOK, VersionHeads, EntryOK
      <4>2. IsHead([Active(c).head EXCEPT !.more = TRUE])
        BY <1>0, <3>2, ActiveIs, MoreIsHead DEF EntryOK
      <4> QED  BY <1>0, <3>1, <3>2, <4>1, <4>2, ReworkedIs
    <3> QED  BY <1>0, <3>1, <3>3 DEF BranchesOK, IsHead
  <2>2. ASSUME NEW c \in Change, NEW b \in Uses[c],
               \/ Upload(c, b) \/ Unready(c) \/ DeleteRecord(c)
               \/ ReportElse(c) \/ File(c) \/ JudgeStale(c) \/ Land(c)
        PROVE  UNCHANGED branch
    BY <2>2 DEF Upload, Unready, DeleteRecord, ReportElse, File, JudgeStale, Land
  <2>3. ASSUME NEW kept \in BOOLEAN, MoveMain(kept)  PROVE UNCHANGED branch
    BY <2>3 DEF MoveMain
  <2>4. \A c \in Change : c \in Uses[c]
    BY RestackerAssumption
  <2> QED  BY <1>1, <1>3, <2>1, <2>2, <2>3, <2>4 DEF Else
<1>4. ASSUME NEW w, PushVersion(w) \/ PushReport(w)  PROVE UNCHANGED branch
  BY <1>4 DEF PushVersion, PushReport
<1> QED  BY <1>1, <1>2, <1>3, <1>4, OriginIs DEF origin

\* Every step keeps what is said of origin.
LEMMA OriginStep ==
  ASSUME IInv, [Next]_vars  PROVE  OriginOK'
BY MainStep, BranchesStep, RecordsStep, LandedStep DEF OriginOK

-----------------------------------------------------------------------------
(***************************************************************************)
(* The families a pass knows.                                              *)
(***************************************************************************)

\* Each is one it knew, what a read made of one, or one that was planned.
LEMMA KnownStep ==
  ASSUME IInv, [Next]_vars, NEW f \in Known'
  PROVE  \/ f \in Known /\ (ops' = ops \/ (ops' = ops + 1 /\ UNCHANGED origin))
         \/ /\ ops' = ops
            /\ \E g \in pass.mem, known \in BOOLEAN : Read(known) /\ f \in {Confirmed(g, known), NextOf(g, known)}
         \/ /\ ops # MaxOps /\ ops' = ops + 1 /\ UNCHANGED origin
            /\ \E L \in Planned(pass.mem) : f = Built(L, ops + 1)
<1>0. DOMAIN pass = DOMAIN IdlePass  BY DEF IInv, PassOK
<1>1. CASE UNCHANGED vars
  BY <1>1 DEF vars, local, Known
<1>2. CASE Start
  BY <1>2, StartIs DEF Known
<1>3. CASE KeepObjects \/ WriteJournal
  BY <1>0, <1>3, KeepIs, WriteIs DEF Known
<1>4. CASE LetGo
  BY <1>0, <1>4, LetGoIs DEF Known, IdlePass
<1>5. CASE KeepFails \/ Fail
  BY <1>5, GivenUp DEF Known, IdlePass
<1>6. ASSUME NEW known \in BOOLEAN, Read(known)
      PROVE  ops' = ops /\ \/ f \in Known
                           \/ \E g \in pass.mem : f \in {Confirmed(g, known), NextOf(g, known)}
  BY <1>0, <1>6, ReadIs DEF Known
<1>7. ASSUME NEW w \in pass.todo, pass.pc = "push",
             PushBranches(w) \/ Checked(w) \/ PushVersion(w) \/ PushReport(w) \/ NotTaken(w)
      PROVE  f \in Known /\ ops' = ops
  BY <1>0, <1>7, PushKeeps DEF Known
<1>8. CASE Replace \/ Again
  BY <1>0, <1>8, ReplaceIs, AgainIs DEF Known
<1>9. CASE Retire
  BY <1>0, <1>9, RetireIs DEF Known, IdlePass
<1>10. CASE Plan
  <2>1. CASE pass' = IdlePass /\ UNCHANGED ops
    BY <1>0, <1>10, <2>1, PlanIs DEF Known, IdlePass
  <2>2. CASE /\ ops # MaxOps /\ ops' = ops + 1
             /\ pass'.mem = pass.mem \cup NewFamilies(pass.mem, ops + 1) /\ pass'.next = pass.next
    <3>1. UNCHANGED journal /\ UNCHANGED origin
      BY <1>0, <1>10, PlanIs
    <3>2. f \in Known \/ f \in NewFamilies(pass.mem, ops + 1)
      BY <2>2, <3>1 DEF Known
    <3> QED  BY <2>2, <3>1, <3>2 DEF NewFamilies
  <2> QED  BY <1>0, <1>10, <2>1, <2>2, PlanIs
<1>11. CASE LoseScratch
  BY <1>11 DEF LoseScratch, Known
<1>12. CASE Else
  BY <1>12, ElseIs DEF local, Known
<1> QED
  BY <1>1, <1>2, <1>3, <1>4, <1>5, <1>6, <1>7, <1>8, <1>9, <1>10, <1>11, <1>12, StepIs

\* Every step keeps what is said of the families a pass knows.
LEMMA FamiliesStep ==
  ASSUME IInv, [Next]_vars  PROVE  FamiliesOK'
<1> SUFFICES ASSUME NEW f \in Known'  PROVE (f.op \in 1..ops /\ FamilyOK(f) /\ SawOK(f))'
  BY DEF FamiliesOK
<1>0. ops \in 0..MaxOps /\ MaxOps \in Nat /\ FamiliesOK /\ RecordsOK /\ LandedOK /\ tip \in 0..MaxTip
  BY RestackerAssumption DEF IInv, OriginOK, MainOK
<1>1. ASSUME f.op \in 1..ops, ops' = ops \/ ops' = ops + 1, FamilyOK(f), SawOK(f)
      PROVE  (f.op \in 1..ops /\ FamilyOK(f) /\ SawOK(f))'
  <2>1. f.op \in 1..ops'  BY <1>0, <1>1
  <2>2. SawOK(f)'  BY <1>1, SawStep
  <2>3. FamilyOK(f)'
    BY <1>1 DEF FamilyOK, PlanOK, ProgressOK, ReportsOK, ReportOK, IsHead, Layers, Restacks, Name
  <2> QED  BY <2>1, <2>2, <2>3
<1>2. CASE f \in Known /\ (ops' = ops \/ ops' = ops + 1)
  BY <1>0, <1>1, <1>2 DEF FamiliesOK
<1>3. ASSUME NEW g \in pass.mem, NEW known \in BOOLEAN, f \in {Confirmed(g, known), NextOf(g, known)},
             ops' = ops
      PROVE  (f.op \in 1..ops /\ FamilyOK(f) /\ SawOK(f))'
  <2>1. FamilyOK(g) /\ SawOK(g) /\ g.op \in 1..ops
    BY <1>0 DEF FamiliesOK, Known
  <2>2. FamilyOK(f) /\ Same(g, f)
    BY <1>3, <2>1, ConfirmedIs, NextIs
  <2>3. SawOK(f) /\ f.op \in 1..ops
    BY <2>1, <2>2, SameIs DEF Same
  <2> QED  BY <1>1, <1>3, <2>2, <2>3
<1>4. ASSUME NEW L \in Planned(pass.mem), f = Built(L, ops + 1), ops # MaxOps, ops' = ops + 1, UNCHANGED origin
      PROVE  (f.op \in 1..ops /\ FamilyOK(f) /\ SawOK(f))'
  <2>1. ops + 1 \in 1..MaxOps
    BY <1>0, <1>4
  <2>2. L \subseteq Unlanded /\ L # {} /\ Judge(L) \in {"restack", "hold"}
    BY <1>4, PlannedIs
  <2>3. FamilyOK(f) /\ SawOK(f)
    BY <1>0, <1>4, <2>1, <2>2, BuiltIs
  <2>4. f.op = ops + 1
    BY <1>4, BuiltKeys
  <2>5. SawOK(f)'
    BY <2>3, SawStep
  <2>6. FamilyOK(f)'
    BY <2>3 DEF FamilyOK, PlanOK, ProgressOK, ReportsOK, ReportOK, IsHead, Layers, Restacks, Name
  <2>7. f.op \in 1..ops'
    BY <1>0, <1>4, <2>4
  <2> QED  BY <2>5, <2>6, <2>7
<1> QED  BY <1>2, <1>3, <1>4, KnownStep

\* A write to make after a read is one the family still has.
LEMMA PhaseIs ==
  ASSUME NEW f, NEW known, NEW p \in Phase(f, known)
  PROVE  LET w == [f |-> Confirmed(f, known), kind |-> p[1], c |-> p[2]] IN
         \/ w.kind = "branches" /\ BranchPush(f, known) = "finish" /\ Restacks(f)
         \/ w.kind = "version" /\ w.c \in DOMAIN f.new /\ Version(f, w.c, known) = "finish"
               /\ BranchPush(f, known) # "finish"
         \/ w.kind = "report" /\ w.c \in DOMAIN f.reports /\ Report(f, w.c, known) = "finish"
               /\ BranchPush(f, known) # "finish"
               /\ \A c \in DOMAIN f.new : Version(f, c, known) # "finish"
         \/ w.kind = "happened" /\ w.c \in DOMAIN f.happened /\ Replacement(f, w.c, known) = "finish"
<1> DEFINE versions == {c \in DOMAIN f.new : Version(f, c, known) = "finish"}
           reports == {c \in DOMAIN f.reports : Report(f, c, known) = "finish"}
           replaced == {c \in DOMAIN f.happened : Replacement(f, c, known) = "finish"}
<1>1. CASE BranchPush(f, known) = "finish"
  <2>1. p = <<"branches", None>>  BY <1>1 DEF Phase
  <2>2. Restacks(f)  BY <1>1 DEF BranchPush
  <2> QED  BY <1>1, <2>1, <2>2
<1>2. CASE BranchPush(f, known) # "finish" /\ versions # {}
  <2>1. p \in {"version"} \X versions  BY <1>2 DEF Phase
  <2> QED  BY <1>2, <2>1
<1>3. CASE BranchPush(f, known) # "finish" /\ versions = {}
  <2>1. p \in ({"report"} \X reports) \cup ({"happened"} \X replaced)  BY <1>3 DEF Phase
  <2>2. \A c \in DOMAIN f.new : Version(f, c, known) # "finish"  BY <1>3
  <2> QED  BY <1>3, <2>1, <2>2
<1> QED  BY <1>1, <1>2, <1>3

\* Every step keeps what is said of the writes that wait.
LEMMA WritesStep ==
  ASSUME IInv, [Next]_vars  PROVE  WritesOK'
<1>0. DOMAIN pass = DOMAIN IdlePass /\ PassOK /\ WritesOK  BY DEF IInv, PassOK
<1>1. ASSUME pass'.todo = {}  PROVE WritesOK'
  BY <1>1 DEF WritesOK
<1>2. ASSUME pass'.todo = pass.todo, pass'.mem = pass.mem  PROVE WritesOK'
  BY <1>0, <1>2 DEF WritesOK, WriteOK, Restacks
<1>3. CASE UNCHANGED vars \/ LoseScratch \/ Else
  BY <1>2, <1>3, ElseIs DEF vars, local, LoseScratch
<1>4. CASE Start
  BY <1>1, <1>4, StartIs
<1>5. CASE KeepObjects \/ WriteJournal
  BY <1>0, <1>2, <1>5, KeepIs, WriteIs
<1>6. CASE KeepFails \/ Fail
  BY <1>1, <1>6, GivenUp DEF IdlePass
<1>7. CASE LetGo
  BY <1>0, <1>1, <1>2, <1>7, LetGoIs DEF IdlePass
<1>8. ASSUME NEW known \in BOOLEAN, Read(known)  PROVE WritesOK'
  <2> SUFFICES ASSUME NEW w \in pass'.todo  PROVE WriteOK(w)'
    BY DEF WritesOK
  <2>1. PICK f \in pass.mem : \E p \in Phase(f, known) :
           w = [f |-> Confirmed(f, known), kind |-> p[1], c |-> p[2]]
    BY <1>0, <1>8, ReadIs
  <2>2. PICK p \in Phase(f, known) : w = [f |-> Confirmed(f, known), kind |-> p[1], c |-> p[2]]
    BY <2>1
  <2>3. \/ w.kind = "branches" /\ Restacks(f)
        \/ w.kind = "version" /\ w.c \in DOMAIN f.new
        \/ w.kind = "report" /\ w.c \in DOMAIN f.reports
        \/ w.kind = "happened" /\ w.c \in DOMAIN f.happened
    BY <2>2, PhaseIs
  <2>4. w.f = Confirmed(f, known) /\ w.f \in pass'.mem /\ DOMAIN w = {"f", "kind", "c"}
    BY <1>0, <1>8, <2>2, ReadIs
  <2>5. w.f.new = f.new /\ w.f.reports = f.reports /\ w.f.happened = f.happened
    BY <2>4, ConfirmedIs DEF IInv, FamiliesOK, Known, Same
  <2> QED  BY <2>3, <2>4, <2>5 DEF WriteOK, Restacks
<1>9. ASSUME NEW w \in pass.todo, pass.pc = "push",
             \/ PushBranches(w) \/ Checked(w)
             \/ PushVersion(w) \/ PushReport(w) \/ NotTaken(w)
      PROVE  WritesOK'
  <2>1. pass'.mem = pass.mem
    BY <1>0, <1>9, PushKeeps
  <2>2. CASE pass'.todo = pass.todo \ {w}
    BY <1>0, <2>1, <2>2 DEF WritesOK, WriteOK, Restacks
  <2>3. CASE w.kind = "version" /\ pass'.todo = (pass.todo \ {w}) \cup {[w EXCEPT !.kind = "checked"]}
    <3> DEFINE v == [w EXCEPT !.kind = "checked"]
    <3>1. WriteOK(w)  BY <1>0 DEF WritesOK
    <3>2. DOMAIN v = DOMAIN w /\ v.f = w.f /\ v.c = w.c /\ v.kind = "checked"
      BY <3>1 DEF WriteOK
    <3> HIDE DEF v
    <3>3. WriteOK(v)'
      BY <2>1, <2>3, <3>1, <3>2 DEF WriteOK, Restacks
    <3> QED  BY <1>0, <2>1, <2>3, <3>3 DEF WritesOK, WriteOK, Restacks, v
  <2>4. \/ pass'.todo = pass.todo \ {w}
        \/ w.kind = "version" /\ pass'.todo = (pass.todo \ {w}) \cup {[w EXCEPT !.kind = "checked"]}
    BY <1>0, <1>9, PushKeeps DEF Checked
  <2> QED  BY <2>2, <2>3, <2>4
<1>10. CASE Replace
  BY <1>0, <1>1, <1>10, ReplaceIs
<1>11. CASE Again
  BY <1>0, <1>2, <1>11, AgainIs
<1>12. CASE Retire
  BY <1>0, <1>1, <1>12, RetireIs DEF PassOK, Settling, IdlePass
<1>13. CASE Plan
  BY <1>0, <1>1, <1>13, PlanIs DEF PassOK, Settling, IdlePass
<1> QED
  BY <1>3, <1>4, <1>5, <1>6, <1>7, <1>8, <1>9, <1>10, <1>11, <1>12, <1>13, StepIs

-----------------------------------------------------------------------------
(***************************************************************************)
(* The invariant holds, and what follows from it.                          *)
(***************************************************************************)
LEMMA InvInit ==
  ASSUME Init  PROVE  IInv
<1> DEFINE first(c) == [of |-> c, tip |-> 0, by |-> None, work |-> [d \in Under[c] \cup {c} |-> 1], more |-> FALSE]
<1>1. /\ tip = 1 /\ line = {0, 1} /\ branch = [c \in Change |-> first(c)]
      /\ record = [c \in Change |-> <<Commit(1, first(c), c, "ready", 0)>>]
      /\ landed = {} /\ journal = {} /\ pass = IdlePass
      /\ ops = 0 /\ moves = MaxMoves /\ faults = MaxFaults
  BY DEF Init
<1>2. ASSUME NEW c \in Change  PROVE IsHead(first(c)) /\ first(c).of = c
  <2> DEFINE D == Under[c] \cup {c}
             work == [d \in D |-> 1]
  <2>1. c \in D /\ D \subseteq Under[c] \cup {c} /\ work \in [D -> 1..MaxWork]
    BY RestackerAssumption
  <2> HIDE DEF D, work
  <2>2. IsHead([of |-> c, tip |-> 0, by |-> None, work |-> work, more |-> FALSE])
    <3>1. 0 \in 0..MaxTip  BY RestackerAssumption
    <3>2. FALSE \in BOOLEAN  OBVIOUS
    <3> QED  BY <2>1, <3>1, <3>2, HeadOf
  <2> QED  BY <2>2 DEF D, work
<1>3. \A c \in Change : first(c) # None
  BY <1>2, HeadIs
<1> HIDE DEF first
<1>4. BranchesOK
  BY <1>1, <1>2 DEF BranchesOK
<1>5. ASSUME NEW c \in Change
      PROVE  record[c] \in Seq(Range(record[c])) /\ \A e \in Range(record[c]) : EntryOK(c, e)
  <2> DEFINE e == Commit(1, first(c), c, "ready", 0)
  <2>1. EntryOK(c, e)
    BY <1>2, RestackerAssumption DEF EntryOK, Commit
  <2> HIDE DEF e
  <2>2. record[c] = <<e>>
    BY <1>1 DEF e
  <2> QED  BY <2>1, <2>2, SingleIs
<1>6. RecordsOK /\ LandedOK
  BY <1>1, <1>5 DEF RecordsOK, IsSeq, LandedOK
<1>7. MainOK
  BY <1>1, RestackerAssumption DEF MainOK
<1>8. PassOK
  BY <1>1 DEF PassOK, IdlePass, Agrees, Settling
<1>9. FamiliesOK /\ WritesOK
  BY <1>1 DEF FamiliesOK, Known, WritesOK, IdlePass
<1> QED  BY <1>4, <1>6, <1>7, <1>8, <1>9 DEF IInv, OriginOK

\* Together: origin holds heads and records of the right shape, what a pass
\* holds in memory is in step with the journal, and no two of its families
\* share a change or a branch.
THEOREM InvHolds == Spec => []IInv
<1>1. IInv /\ [Next]_vars => IInv'
  BY OriginStep, PassStep, FamiliesStep, WritesStep DEF IInv
<1> QED  BY <1>1, InvInit, PTL DEF Spec

\* The values the state takes, for any changes and stacks: what is written to
\* origin are heads of the changes they are written for, and a family of the
\* journal agrees with itself (restack/journal.go, JournalFamily.check).
THEOREM TypeCorrect == Spec => []TypeOK
<1>1. IInv => TypeOK
  <2> SUFFICES ASSUME IInv  PROVE TypeOK
    OBVIOUS
  <2>1. MainOK /\ BranchesOK /\ RecordsOK /\ FamiliesOK
    BY DEF IInv, OriginOK
  <2>2. \A c \in Change : \A e \in Range(record[c]) : IsHead(e.head) /\ e.head.of = c
    BY <2>1 DEF RecordsOK, EntryOK
  <2>3. ASSUME NEW f \in journal \cup pass.mem
        PROVE  /\ DOMAIN f.new \in {{}, Layers(f)} /\ f.added \subseteq DOMAIN f.new
               /\ f.moved \/ (f.added = {} /\ DOMAIN f.happened = {})
               /\ f.moved => Restacks(f)
               /\ (f.report.result = "complete") = Restacks(f)
    <3>1. PlanOK(f) /\ ProgressOK(f) /\ ReportsOK(f)
      BY <2>1 DEF FamiliesOK, Known, FamilyOK
    <3>2. (f.report.result = "complete") = Restacks(f)
      BY <3>1 DEF ReportsOK, Restacks
    <3> QED  BY <3>1, <3>2 DEF PlanOK, ProgressOK
  <2> QED  BY <2>1, <2>2, <2>3 DEF TypeOK, MainOK, BranchesOK
<1> QED  BY <1>1, InvHolds, PTL

\* No two families of the journal, on disk or as a pass would keep it, write
\* one change or one branch (restack/journal.go, Journal.check; publish.go,
\* waits and overlapping): families of other passes wait, and a read leaves
\* what a family is to write alone.
THEOREM JournalNeverDisagrees == Spec => []JournalAgrees
<1>1. IInv => JournalAgrees
  BY DEF IInv, PassOK, JournalAgrees
<1> QED  BY <1>1, InvHolds, PTL

\* The lease of a branch push is on heads that records hold, however long ago
\* they were read and whatever others did since: the restacker never moves a
\* branch off work no record holds, unless the record was deleted
\* (restack/publish.go, pushBranches).
THEOREM MovesOnlyRecordedWork == Spec => OnlyRecordedWorkMoves
<1>1. ASSUME IInv, NEW w \in Turns("branches"), PushBranches(w), NEW b \in Change, branch'[b] # branch[b]
      PROVE  record[branch[b].of] = <<>> \/ branch[b] \in VersionHeads(branch[b].of)
  <2>1. w \in pass.todo /\ w.kind = "branches"
    BY <1>1 DEF Turns
  <2>2. FamilyOK(w.f) /\ SawOK(w.f) /\ Restacks(w.f)
    BY <1>1, <2>1, WriteIsOf DEF WriteOK
  <2>3. PICK c \in Layers(w.f) : branch[b] = w.f.saw[c].head
    BY <1>1, <2>2, BranchMoves
  <2>4. w.f.saw[c].head.of = c
    BY <2>2 DEF FamilyOK, PlanOK
  <2> QED  BY <2>2, <2>3, <2>4 DEF SawOK
<1>2. IInv => ((\E w \in Turns("branches") : PushBranches(w)) => \A b \in Change : branch'[b] # branch[b] =>
          LET c == branch[b].of IN record[c] = <<>> \/ branch[b] \in VersionHeads(c))
  BY <1>1
<1> QED  BY <1>2, InvHolds, PTL DEF OnlyRecordedWorkMoves
=============================================================================
