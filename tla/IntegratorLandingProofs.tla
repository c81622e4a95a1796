---------------------- MODULE IntegratorLandingProofs ----------------------
(***************************************************************************)
(* Proofs about what a pass read some steps before it used it, for any     *)
(* names, heads, changes and bounds: what finalRefusal and hookReadable    *)
(* looked at still holds when the landing is applied, an answer recorded   *)
(* with its inputs holds as long as they stand, and a landing spends an    *)
(* approval of the head the pass listed.                                   *)
(***************************************************************************)
EXTENDS IntegratorProofs, FiniteSetTheorems

-----------------------------------------------------------------------------
(***************************************************************************)
(* How a pass comes to prepare and to apply a landing.                     *)
(***************************************************************************)

Committed == {"prepare", "apply"}

\* A landing is prepared after finalRefusal found nothing or after a try that
\* was lost, and applied with what prepareLanding read.
LEMMA Entering ==
  ASSUME TypeOK, NEW p \in Controller, PassStep(p) \/ Fail(p) \/ Crash(p),
         pass'[p].pc \in Committed
  PROVE  /\ \/ Final(p) /\ ~HeldBack(record, pass[p].name, Asked(p)) /\ pass'[p].pc = "prepare"
            \/ pass[p].pc = "apply" /\ pass'[p].pc = "prepare"
            \/ Prepare(p) /\ Readable(p)
               /\ \E m, s : pass'[p] = [pass[p] EXCEPT !.pc = "apply",
                       !.lease = [transfer |-> transfer, landing |-> landing[Asked(p)],
                                  memo |-> m, standing |-> s]]
         /\ pass'[p].name = pass[p].name /\ pass'[p].listed = pass[p].listed
         /\ UNCHANGED quiet
<1> DEFINE r == pass[p]
<1>0. r \in Pass /\ PassesOK
  BY Mine DEF TypeOK
<1>b. ASSUME NEW s, Becomes(p, s) PROVE pass'[p] = s
  BY <1>0, <1>b DEF PassesOK, Becomes
<1>c. ASSUME NEW o, Conclude(p, o) PROVE pass'[p].pc = "answer"
  <2>1. pass'[p] = [r EXCEPT !.pc = "answer", !.outcome = o]
    BY <1>b, <1>c DEF Conclude
  <2> QED BY <1>0, <2>1 DEF Pass
<1>n. ASSUME NEW step, NextRequest(p, step) PROVE pass'[p].pc = step
  <2> DEFINE s == [r EXCEPT !.pc = step, !.queue = @ \ {r.name}, !.name = None,
                           !.tip = 0, !.evidence = None, !.source = "none",
                           !.outcome = None, !.misread = FALSE, !.lease = None, !.tries = 0]
  <2>1. pass'[p] = s
    BY <1>b, <1>n DEF NextRequest
  <2>2. s.pc = step
    BY <1>0 DEF Pass
  <2> QED BY <2>1, <2>2
<1>t. ASSUME NotLanded(p) PROVE pass'[p].pc \in {"answer", "prepare"}
  <2>1. CASE Becomes(p, [r EXCEPT !.pc = "prepare", !.lease = None, !.tries = @ + 1])
    <3>1. pass'[p] = [r EXCEPT !.pc = "prepare", !.lease = None, !.tries = @ + 1]
      BY <1>b, <2>1
    <3> QED BY <1>0, <3>1 DEF Pass
  <2> QED BY <1>c, <1>t, <2>1 DEF NotLanded
\* The steps that come from elsewhere and go elsewhere.
<1>1. CASE r.pc \in {"idle", "index", "void", "delete", "voided", "take", "answer"}
  <2>1. pass'[p].pc \notin Handling \/ pass'[p].pc = "evidence"
    BY <1>1, Onward DEF Handling
  <2> QED BY <2>1 DEF Committed, Handling
<1>2. CASE r.pc = "evidence"
  <2>1. \/ Fingerprint(p) \/ NextRequest(p, "take") \/ Becomes(p, IdlePass)
        \/ Becomes(p, [r EXCEPT !.pc = "refuse", !.evidence = EvidenceNow])
    BY <1>2 DEF PassStep, List, ReadIndex, VoidRead, VoidDelete, VoidRecord, ReadInputs, Take,
         Refuse, Judge, Final, Prepare, Land, Contended, Answer, EndPass, Fail, Crash, At
  <2>2. ASSUME Fingerprint(p) PROVE pass'[p].pc \in {"take", "refuse"}
    <3>1. \/ pass'[p].pc = "take" \/ pass'[p] = [r EXCEPT !.pc = "refuse", !.evidence = EvidenceNow]
      BY <1>b, <1>n, <2>2 DEF Fingerprint
    <3> QED BY <1>0, <3>1 DEF Pass
  <2>3. Becomes(p, IdlePass) => pass'[p].pc = "idle"
    BY <1>b DEF IdlePass
  <2>4. ASSUME Becomes(p, [r EXCEPT !.pc = "refuse", !.evidence = EvidenceNow])
        PROVE  pass'[p].pc = "refuse"
    <3>1. pass'[p] = [r EXCEPT !.pc = "refuse", !.evidence = EvidenceNow]
      BY <1>b, <2>4
    <3> QED BY <1>0, <3>1 DEF Pass
  <2> QED BY <1>n, <2>1, <2>2, <2>3, <2>4 DEF Committed
<1>3. CASE r.pc = "refuse"
  <2>1. \/ \E o : Conclude(p, o)
        \/ Becomes(p, [r EXCEPT !.pc = "judge"]) \/ Becomes(p, IdlePass)
    BY <1>3 DEF PassStep, List, ReadIndex, VoidRead, VoidDelete, VoidRecord, ReadInputs, Take,
         Fingerprint, Refuse, Judge, Final, Prepare, Land, Contended, Answer, EndPass, Fail,
         Crash, At, Goto
  <2>2. Becomes(p, [r EXCEPT !.pc = "judge"]) => pass'[p].pc = "judge"
    <3>1. Becomes(p, [r EXCEPT !.pc = "judge"]) => pass'[p] = [r EXCEPT !.pc = "judge"]
      BY <1>b
    <3> QED BY <1>0, <3>1 DEF Pass
  <2>3. Becomes(p, IdlePass) => pass'[p].pc = "idle"
    BY <1>b DEF IdlePass
  <2> QED BY <1>c, <2>1, <2>2, <2>3 DEF Committed
<1>4. CASE r.pc = "judge"
  <2> DEFINE s == [r EXCEPT !.pc = "final", !.source = SourceOf(Asked(p), r.tip, JudgedUnder(p))]
  <2>1. \/ (\E o : Conclude(p, o) \/ Misread(p, o))
        \/ Becomes(p, s) \/ Becomes(p, IdlePass)
    BY <1>4 DEF PassStep, List, ReadIndex, VoidRead, VoidDelete, VoidRecord, ReadInputs, Take,
         Fingerprint, Refuse, Judge, Final, Prepare, Land, Contended, Answer, EndPass, Fail,
         Misjudge, Crash, At
  <2>2. s.pc = "final"
    BY <1>0 DEF Pass
  <2> HIDE DEF s
  <2>3. Becomes(p, s) => pass'[p].pc = "final"
    BY <1>b, <2>2
  <2>4. Becomes(p, IdlePass) => pass'[p].pc = "idle"
    BY <1>b DEF IdlePass
  <2>5. ASSUME NEW o, Misread(p, o) PROVE pass'[p].pc = "answer"
    <3>1. pass'[p] = [r EXCEPT !.pc = "answer", !.outcome = o, !.misread = TRUE]
      BY <1>b, <2>5 DEF Misread
    <3> QED BY <1>0, <3>1 DEF Pass
  <2> QED BY <1>c, <2>1, <2>3, <2>4, <2>5 DEF Committed
<1>5. CASE r.pc = "final"
  <2>1. Final(p) \/ (\E o : Conclude(p, o)) \/ Becomes(p, IdlePass)
    BY <1>5 DEF PassStep, List, ReadIndex, VoidRead, VoidDelete, VoidRecord, ReadInputs, Take,
         Fingerprint, Refuse, Judge, Prepare, Land, Contended, Answer, EndPass, Fail, Crash, At
  <2>2. Becomes(p, IdlePass) => pass'[p].pc = "idle"
    BY <1>b DEF IdlePass
  <2>3. Final(p)
    BY <1>c, <2>1, <2>2 DEF Committed
  <2>4. /\ ~HeldBack(record, pass[p].name, Asked(p))
        /\ pass'[p] = [r EXCEPT !.pc = "prepare", !.tries = 1]
    BY <1>b, <1>c, <2>3 DEF Final, Committed
  <2>5. pass'[p].pc = "prepare" /\ pass'[p].name = r.name /\ pass'[p].listed = r.listed
    BY <1>0, <2>4 DEF Pass
  <2> QED BY <2>3, <2>4, <2>5 DEF Final
<1>6. CASE r.pc = "prepare"
  <2>1. Prepare(p) \/ Conclude(p, "failed") \/ Becomes(p, IdlePass)
    BY <1>6 DEF PassStep, List, ReadIndex, VoidRead, VoidDelete, VoidRecord, ReadInputs, Take,
         Fingerprint, Refuse, Judge, Final, Land, Contended, Answer, EndPass, Fail, Crash, At
  <2>2. Becomes(p, IdlePass) => pass'[p].pc = "idle"
    BY <1>b DEF IdlePass
  <2>3. Prepare(p)
    BY <1>c, <2>1, <2>2 DEF Committed
  <2>4. /\ Readable(p)
        /\ \E m, s : pass'[p] = [r EXCEPT !.pc = "apply",
                       !.lease = [transfer |-> transfer, landing |-> landing[Asked(p)],
                                  memo |-> m, standing |-> s]]
    BY <1>b, <1>c, <2>3 DEF Prepare, Committed
  <2>5. pass'[p].name = r.name /\ pass'[p].listed = r.listed
    BY <1>0, <2>4 DEF Pass
  <2> QED BY <2>3, <2>4, <2>5 DEF Prepare
<1>7. CASE r.pc = "apply"
  <2>1. \/ NextRequest(p, "take") \/ Becomes(p, IdlePass)
        \/ NotLanded(p) /\ UNCHANGED quiet
    BY <1>7 DEF PassStep, List, ReadIndex, VoidRead, VoidDelete, VoidRecord, ReadInputs, Take,
         Fingerprint, Refuse, Judge, Final, Prepare, Land, Contended, Answer, EndPass, Fail,
         Crash, At
  <2>2. Becomes(p, IdlePass) => pass'[p].pc = "idle"
    BY <1>b DEF IdlePass
  <2>3. NotLanded(p) /\ UNCHANGED quiet
    BY <1>n, <2>1, <2>2 DEF Committed
  <2>4. pass'[p].pc = "prepare"
    BY <1>t, <2>3 DEF Committed
  <2>5. pass'[p].name = r.name /\ pass'[p].listed = r.listed
    BY <2>4, Onward DEF Handling
  <2> QED BY <1>7, <2>3, <2>4, <2>5
<1> QED
  BY <1>0, <1>1, <1>2, <1>3, <1>4, <1>5, <1>6, <1>7 DEF Pass, Step

-----------------------------------------------------------------------------
(***************************************************************************)
(* Paused changes.                                                         *)
(***************************************************************************)

\* A change quiet since the verdict is unready still, and the pass that
\* prepares or applies a landing found that it holds none of what lands.
QuietOK ==
    \A p \in Controller : \A c \in quiet[p] :
        /\ record[c] # None /\ record[c].state # "ready"
        /\ pass[p].pc \in Committed => record[c].heads \cap Brings[Asked(p)] = {}

\* Only a record update may end a change's quiet, and what stays unready
\* keeps its versions (checkRecord).
LEMMA QuietBeside ==
  ASSUME TypeOK, QuietOK, Elsewhere \/ UNCHANGED vars
  PROVE  QuietOK'
<1>0. quiet \in [Controller -> SUBSET Change] /\ record \in [Change -> Record \cup {None}]
  BY DEF TypeOK, StoredOK
<1>1. UNCHANGED pass
  BY DEF Elsewhere, Unapprove, Expire, Approve, WriteRecord, Relay, Attest, PushTarget,
         ChangeInputs, vars
<1>2. CASE UNCHANGED <<record, quiet>>
  BY <1>1, <1>2 DEF QuietOK, Asked
<1>3. ASSUME NEW c \in Change, WriteRecord(c)  PROVE QuietOK'
  <2>1. PICK r \in NextRecords(record[c]) :
          /\ record' = [record EXCEPT ![c] = r]
          /\ quiet' = IF r # None /\ r.state # "ready" THEN quiet
                      ELSE [p \in Controller |-> quiet[p] \ {c}]
    BY <1>3 DEF WriteRecord
  <2> SUFFICES ASSUME NEW p \in Controller, NEW d \in quiet'[p]
               PROVE  /\ record'[d] # None /\ record'[d].state # "ready"
                      /\ pass[p].pc \in Committed => record'[d].heads \cap Brings[Asked(p)] = {}
    BY <1>1 DEF QuietOK, Asked
  <2>2. d \in quiet[p] /\ d \in Change
    BY <1>0, <2>1
  <2>3. /\ record[d] # None /\ record[d].state # "ready"
        /\ pass[p].pc \in Committed => record[d].heads \cap Brings[Asked(p)] = {}
    BY <2>2 DEF QuietOK
  <2>4. CASE d # c  BY <1>0, <2>1, <2>2, <2>3, <2>4
  <2>5. CASE d = c
    <3>1. r # None /\ r.state # "ready" /\ record'[d] = r
      BY <1>0, <2>1, <2>5
    <3>2. r.heads = record[d].heads
      BY <2>3, <2>5, <3>1 DEF NextRecords
    <3> QED BY <2>3, <3>1, <3>2
  <2> QED BY <2>4, <2>5
<1> QED
  BY <1>2, <1>3 DEF Elsewhere, Unapprove, Expire, Approve, Relay, Attest, PushTarget,
                    ChangeInputs, vars, refs

\* Every step of a pass keeps it: finalRefusal looks up what the request
\* brings in every record.
LEMMA QuietByPass ==
  ASSUME TypeOK, QuietOK, NEW p \in Controller, PassStep(p) \/ Fail(p) \/ Crash(p)
  PROVE  QuietOK'
<1>0. quiet \in [Controller -> SUBSET Change] /\ PassesOK
  BY DEF TypeOK, StoredOK
<1>1. UNCHANGED record
  BY DEF PassStep, List, ReadIndex, VoidRead, VoidDelete, VoidRecord, ReadInputs, Take,
         Fingerprint, Refuse, Judge, Final, Prepare, Land, Contended, Answer, EndPass, Fail,
         Crash, refs
<1>2. \/ UNCHANGED quiet
      \/ quiet' = [quiet EXCEPT ![p] = {c \in Change : record[c] # None /\ record[c].state # "ready"}]
      \/ quiet' = [quiet EXCEPT ![p] = {}]
  BY DEF PassStep, List, ReadIndex, VoidRead, VoidDelete, VoidRecord, ReadInputs, Take,
         Fingerprint, Refuse, Judge, Final, Prepare, Land, Contended, Answer, EndPass, Fail, Crash
<1>3. ASSUME NEW q \in Controller, q # p, NEW c \in quiet'[q]
      PROVE  /\ record'[c] # None /\ record'[c].state # "ready"
             /\ pass'[q].pc \in Committed => record'[c].heads \cap (Brings[Asked(q)])' = {}
  <2>1. pass'[q] = pass[q]
    BY <1>0, <1>3, Others
  <2>2. quiet'[q] = quiet[q]
    BY <1>0, <1>2, <1>3
  <2> QED BY <1>1, <1>3, <2>1, <2>2 DEF QuietOK, Asked
<1>4. ASSUME NEW c \in quiet'[p]
      PROVE  record'[c] # None /\ record'[c].state # "ready"
  BY <1>0, <1>1, <1>2, <1>4 DEF QuietOK
<1>5. ASSUME NEW c \in quiet'[p], pass'[p].pc \in Committed
      PROVE  record'[c].heads \cap (Brings[Asked(p)])' = {}
  <2>1. /\ UNCHANGED quiet
        /\ pass[p].pc \in Committed \/ ~HeldBack(record, pass[p].name, Asked(p))
        /\ pass'[p].name = pass[p].name /\ pass'[p].listed = pass[p].listed
    BY <1>5, Entering DEF Committed, Prepare, At
  <2>2. Asked(p)' = Asked(p)
    BY <2>1 DEF Asked
  <2>3. c \in quiet[p] /\ c \in Change
    BY <1>0, <1>5, <2>1
  <2>4. record[c].heads \cap Brings[Asked(p)] = {}
    BY <2>1, <2>3 DEF QuietOK, HeldBack, Paused
  <2> QED BY <1>1, <2>2, <2>4
<1> QED BY <1>3, <1>4, <1>5 DEF QuietOK

\* A change that is not ready from the verdict to the landing lands none of
\* its heads, under any name, below any head (finalRefusal).
THEOREM PausedStaysOut == Spec => PausedNeverLands
<1>1. Init => QuietOK  BY DEF Init, QuietOK
<1>2. TypeOK /\ QuietOK /\ [Next]_vars => QuietOK'
  BY QuietBeside, QuietByPass DEF Next
<1>3. QuietOK => [\A p \in Controller : At(p, "apply") /\ history' # history /\ pass'[p] # pass[p] =>
                    \A c \in quiet[p] : record[c].heads \cap Brings[Asked(p)] = {}]_vars
  BY DEF QuietOK, Committed, At
<1> QED BY <1>1, <1>2, <1>3, Typing, PTL DEF Spec, PausedNeverLands

-----------------------------------------------------------------------------
(***************************************************************************)
(* Evidence stays readable.                                                *)
(***************************************************************************)

\* What a pass with the memory s stores, as prepareLanding read the refs, can
\* be read back.
Measured(s) ==
    LET h == s.listed[s.name] IN
    \A t \in Stores(h, s.tip, s.source) :
        Cardinality(s.lease.transfer[t] \cup Adds(h, s.tip, s.source, t)) <= NoteLimit

\* What a landing at an earlier tip stores is settled: that tip's tree does
\* not change.
LEMMA StoresStay ==
  ASSUME TypeOK, [Next]_vars, NEW k \in 0..Len(history), NEW h, NEW source
  PROVE  /\ \A t : Adds(h, k, source, t)' = Adds(h, k, source, t)
         /\ Stores(h, k, source)' = Stores(h, k, source)
<1>1. LandingTree(h, k)' = LandingTree(h, k)
  BY PastStays DEF LandingTree
<1>2. \A t : Adds(h, k, source, t)' = Adds(h, k, source, t)
  BY <1>1 DEF Adds
<1> QED BY <1>2 DEF Stores

\* So what was measured stays measured.
LEMMA MeasuredStays ==
  ASSUME TypeOK, [Next]_vars, NEW s, s.tip \in 0..Len(history), Measured(s)
  PROVE  Measured(s)'
<1> DEFINE h == s.listed[s.name]
<1>1. /\ \A t : Adds(h, s.tip, s.source, t)' = Adds(h, s.tip, s.source, t)
      /\ Stores(h, s.tip, s.source)' = Stores(h, s.tip, s.source)
  BY StoresStay
<1> QED BY <1>1 DEF Measured

\* The notes at every ref are few enough to be read, and so is each set a
\* landing that is being applied would store.
ReadableOK ==
    /\ EvidenceReadable
    /\ \A t \in Tree : IsFiniteSet(transfer[t])
    /\ \A p \in Controller : pass[p].pc = "apply" => Measured(pass[p])

\* A landing stores one note or two at a ref.
LEMMA StoredIsFinite ==
  ASSUME NEW p, NEW t  PROVE  IsFiniteSet(Stored(p, t))
<1>1. Stored(p, t) \subseteq {CheckNote} \cup {TransferNote(pass[p].tip + 1)}
  BY DEF Stored, Adds
<1>2. IsFiniteSet({CheckNote} \cup {TransferNote(pass[p].tip + 1)})
  BY FS_Singleton, FS_Union
<1> QED BY <1>1, <1>2, FS_Subset

\* A pass that applies a landing read a tip the target has reached.
LEMMA AppliesAtATip ==
  ASSUME TypeOK, JudgedInv, NEW p \in Controller, pass[p].pc \in Committed
  PROVE  pass[p].tip \in 0..Len(history)
<1>1. pass[p].tip \in Nat /\ Len(history) \in Nat
  BY Mine, Reads DEF TypeOK, Pass
<1>2. pass[p].tip <= Len(history)
  BY DEF JudgedInv, TipWasRead, Handling, Committed
<1> QED BY <1>1, <1>2

\* One whose memory a step leaves alone keeps what it measured.
LEMMA StillMeasured ==
  ASSUME TypeOK, JudgedInv, ReadableOK, [Next]_vars,
         NEW p \in Controller, pass'[p] = pass[p], pass'[p].pc = "apply"
  PROVE  Measured(pass[p])'
<1>1. PICK s : s = pass[p]
  OBVIOUS
<1>2. s.tip \in 0..Len(history)
  BY <1>1, AppliesAtATip DEF Committed
<1>3. Measured(s)
  BY <1>1 DEF ReadableOK
<1>4. Measured(s)'
  BY <1>2, <1>3, MeasuredStays
<1>5. s = pass'[p]
  BY <1>1
<1> QED BY <1>4, <1>5

\* Other writers leave the passes alone, and what they push is counted.
LEMMA ReadableBeside ==
  ASSUME TypeOK, JudgedInv, ReadableOK, Elsewhere \/ UNCHANGED vars
  PROVE  ReadableOK'
<1>0. transfer \in [Tree -> SUBSET Note] /\ NoteLimit \in Nat
  BY ConstantsAssumption DEF TypeOK, StoredOK
<1>1. UNCHANGED pass
  BY DEF Elsewhere, Unapprove, Expire, Approve, WriteRecord, Relay, Attest, PushTarget,
         ChangeInputs, vars
<1>m. \A p \in Controller : pass'[p].pc = "apply" => Measured(pass[p])'
  BY <1>1, StillMeasured DEF Next
<1>2. CASE UNCHANGED transfer
  BY <1>m, <1>2 DEF ReadableOK, EvidenceReadable
<1>3. ASSUME NEW t \in Tree, Relay(t)  PROVE ReadableOK'
  <2>1. /\ transfer' = [transfer EXCEPT ![t] = transfer[t] \cup {RelayedNote}]
        /\ RelayedNote \notin transfer[t] /\ Cardinality(transfer[t]) < NoteLimit
        /\ IsFiniteSet(transfer[t])
    BY <1>3 DEF Relay, ReadableOK
  <2>2. /\ IsFiniteSet(transfer[t] \cup {RelayedNote})
        /\ Cardinality(transfer[t] \cup {RelayedNote}) = Cardinality(transfer[t]) + 1
        /\ Cardinality(transfer[t]) \in Nat
    BY <2>1, FS_AddElement, FS_CardinalityType
  <2>3. Cardinality(transfer[t] \cup {RelayedNote}) <= NoteLimit
    BY <1>0, <2>1, <2>2
  <2>4. \A u \in Tree : IsFiniteSet(transfer'[u]) /\ Cardinality(transfer'[u]) <= NoteLimit
    <3> SUFFICES ASSUME NEW u \in Tree
                 PROVE  IsFiniteSet(transfer'[u]) /\ Cardinality(transfer'[u]) <= NoteLimit
      OBVIOUS
    <3> HIDE DEF Tree
    <3>1. CASE u = t
      <4>1. transfer'[u] = transfer[t] \cup {RelayedNote}  BY <1>0, <2>1, <3>1
      <4> QED BY <2>2, <2>3, <4>1
    <3>2. CASE u # t
      <4>1. transfer'[u] = transfer[u]  BY <1>0, <2>1, <3>2
      <4> QED BY <4>1 DEF ReadableOK, EvidenceReadable
    <3> QED BY <3>1, <3>2
  <2> QED BY <1>m, <2>4 DEF ReadableOK, EvidenceReadable
<1> QED
  BY <1>2, <1>3 DEF Elsewhere, Unapprove, Expire, Approve, WriteRecord, Attest, PushTarget,
                    ChangeInputs, vars, refs

\* A landing stores what prepareLanding measured; a pass applies what it
\* measured (hookReadable).
LEMMA ReadableByPass ==
  ASSUME TypeOK, JudgedInv, ReadableOK,
         NEW p \in Controller, PassStep(p) \/ Fail(p) \/ Crash(p)
  PROVE  ReadableOK'
<1>0. PassesOK /\ pass[p] \in Pass
  BY Mine DEF TypeOK
<1>1. \A t \in Tree : IsFiniteSet(transfer'[t]) /\ Cardinality(transfer'[t]) <= NoteLimit
  <2> SUFFICES ASSUME NEW t \in Tree
               PROVE  IsFiniteSet(transfer'[t]) /\ Cardinality(transfer'[t]) <= NoteLimit
    OBVIOUS
  <2> HIDE DEF Tree
  <2>1. CASE transfer'[t] = transfer[t]
    BY <2>1 DEF ReadableOK, EvidenceReadable
  <2>2. CASE Land(p) /\ transfer'[t] # transfer[t]
    <3>1. transfer'[t] = transfer[t] \cup Stored(p, t)
      BY <2>2, LandKeeps
    <3>2. Stored(p, t) # {} /\ transfer'[t] = pass[p].lease.transfer[t] \cup Stored(p, t)
      BY <2>2, <3>1 DEF Land
    <3>3. t \in Stores(Asked(p), pass[p].tip, pass[p].source)
      BY <3>2 DEF Stores, Stored
    <3>4. Cardinality(transfer'[t]) <= NoteLimit
      BY <2>2, <3>2, <3>3 DEF Land, ReadableOK, Measured, Stored, Asked, At
    <3>5. IsFiniteSet(transfer'[t])
      BY <3>1, StoredIsFinite, FS_Union DEF ReadableOK
    <3> QED BY <3>4, <3>5
  <2> QED BY <2>1, <2>2, OnlyLandings
<1>2. ASSUME NEW q \in Controller, pass'[q].pc = "apply", q # p
      PROVE  Measured(pass[q])'
  BY <1>0, <1>2, Others, StillMeasured DEF Next
<1>3. ASSUME pass'[p].pc = "apply"
      PROVE  Measured(pass[p])'
  <2>1. PICK m, s :
          /\ Prepare(p) /\ Readable(p)
          /\ pass'[p] = [pass[p] EXCEPT !.pc = "apply",
                !.lease = [transfer |-> transfer, landing |-> landing[Asked(p)],
                           memo |-> m, standing |-> s]]
    <3>1. pass'[p].pc \in Committed /\ pass'[p].pc # "prepare"
      BY <1>3 DEF Committed
    <3>2. /\ Prepare(p) /\ Readable(p)
          /\ \E m, s : pass'[p] = [pass[p] EXCEPT !.pc = "apply",
                !.lease = [transfer |-> transfer, landing |-> landing[Asked(p)],
                           memo |-> m, standing |-> s]]
      BY <1>0, <3>1, Entering
    <3> QED BY <3>2
  <2>2. PICK read : read = pass'[p]
    OBVIOUS
  <2>3. /\ read.lease.transfer = transfer
        /\ read.name = pass[p].name /\ read.listed = pass[p].listed
        /\ read.tip = pass[p].tip /\ read.source = pass[p].source
    BY <1>0, <2>1, <2>2 DEF Pass
  <2>4. \A t \in Stores(Asked(p), pass[p].tip, pass[p].source) :
           Cardinality(transfer[t] \cup Adds(Asked(p), pass[p].tip, pass[p].source, t)) <= NoteLimit
    BY <2>1 DEF Readable, Stored
  <2>5. Measured(read)
    BY <2>3, <2>4 DEF Measured, Asked
  <2>6. read.tip \in 0..Len(history)
    BY <2>1, <2>3, AppliesAtATip DEF Prepare, At, Committed
  <2>7. Measured(read)'
    BY <2>5, <2>6, MeasuredStays DEF Next
  <2> QED BY <2>2, <2>7
<1> QED BY <1>1, <1>2, <1>3 DEF ReadableOK, EvidenceReadable

\* No landing, and no push beside it, leaves more notes at a ref than the
\* push hook reads back (hookReadable, evidenceUpdates).
THEOREM EvidenceStaysReadable == Spec => []EvidenceReadable
<1>1. Init => ReadableOK
  <2> SUFFICES ASSUME Init  PROVE ReadableOK
    OBVIOUS
  <2>1. \A t \in Tree : transfer[t] = {}  BY DEF Init
  <2>2. \A p \in Controller : pass[p].pc = "idle"  BY DEF Init, IdlePass
  <2>3. NoteLimit \in Nat  BY ConstantsAssumption
  <2>4. \A t \in Tree : IsFiniteSet(transfer[t]) /\ Cardinality(transfer[t]) <= NoteLimit
    BY <2>1, <2>3, FS_EmptySet
  <2> QED BY <2>2, <2>4 DEF ReadableOK, EvidenceReadable
<1>2. TypeOK /\ JudgedInv /\ ReadableOK /\ [Next]_vars => ReadableOK'
  BY ReadableBeside, ReadableByPass DEF Next
<1>3. ReadableOK => EvidenceReadable  BY DEF ReadableOK
<1>4. Init => JudgedInv
  BY DEF Init, JudgedInv, TipWasRead, Judged, LandsWhatItJudged, IdlePass, Handling, Landing
<1>5. TypeOK /\ JudgedInv /\ [Next]_vars => JudgedInv'
  BY NextJudged
<1> QED BY <1>1, <1>2, <1>3, <1>4, <1>5, Typing, PTL DEF Spec

-----------------------------------------------------------------------------
(***************************************************************************)
(* Standing answers.                                                       *)
(***************************************************************************)

\* The steps at which a pass holds the inputs it will answer under, and those
\* at which it holds the evidence too.
Informed == {"take", "evidence", "refuse", "judge", "final", "prepare", "apply", "answer"}
Evident == {"refuse", "judge", "final", "prepare", "apply", "answer"}

\* What a pass keeps of what it read, and where each of it was read
\* (inputState, evidenceState); only a verdict concludes that a change is
\* stale, and no pass concludes that one lands (judge).
LEMMA Informing ==
  ASSUME TypeOK, NEW p \in Controller, PassStep(p) \/ Fail(p) \/ Crash(p),
         pass'[p].pc \in Informed
  PROVE  /\ \/ pass[p].pc \in Informed /\ pass'[p].inputs = pass[p].inputs
            \/ pass'[p].inputs \in {inputs, Unread}
         /\ pass'[p].pc \in Evident =>
               \/ pass'[p].evidence = EvidenceNow
               \/ pass[p].pc \in Evident /\ pass'[p].evidence = pass[p].evidence
         /\ pass'[p].pc = "answer" =>
               /\ pass[p].pc \in Handling
               /\ pass'[p].tip = pass[p].tip /\ pass'[p].name = pass[p].name
               /\ pass'[p].listed = pass[p].listed /\ pass'[p].inputs = pass[p].inputs
               /\ \/ pass'[p].outcome \in Refused \cup {"failed"}
                  \/ Judge(p) /\ pass'[p].outcome = Verdict(p) /\ Verdict(p) # "land"
                  \/ pass'[p].outcome \in {"stale", "reject"} /\ pass'[p].misread
<1> DEFINE r == pass[p]
           Goal == /\ \/ r.pc \in Informed /\ pass'[p].inputs = r.inputs
                      \/ pass'[p].inputs \in {inputs, Unread}
                   /\ pass'[p].pc \in Evident =>
                         \/ pass'[p].evidence = EvidenceNow
                         \/ r.pc \in Evident /\ pass'[p].evidence = r.evidence
                   /\ pass'[p].pc = "answer" =>
                         /\ r.pc \in Handling
                         /\ pass'[p].tip = r.tip /\ pass'[p].name = r.name
                         /\ pass'[p].listed = r.listed /\ pass'[p].inputs = r.inputs
                         /\ \/ pass'[p].outcome \in Refused \cup {"failed"}
                            \/ Judge(p) /\ pass'[p].outcome = Verdict(p) /\ Verdict(p) # "land"
                            \/ pass'[p].outcome \in {"stale", "reject"} /\ pass'[p].misread
<1>0. r \in Pass /\ PassesOK
  BY Mine DEF TypeOK
<1>b. ASSUME NEW s, Becomes(p, s) PROVE pass'[p] = s
  BY <1>0, <1>b DEF PassesOK, Becomes
\* A request that is concluded keeps what was read for it.
<1>c. ASSUME NEW o, Conclude(p, o), r.pc \in Evident \cap Handling,
             \/ o \in Refused \cup {"failed"}
             \/ Judge(p) /\ o = Verdict(p) /\ Verdict(p) # "land"
      PROVE  Goal
  <2>1. pass'[p] = [r EXCEPT !.pc = "answer", !.outcome = o]
    BY <1>b, <1>c DEF Conclude
  <2>2. /\ pass'[p].outcome = o /\ pass'[p].evidence = r.evidence
        /\ pass'[p].inputs = r.inputs
        /\ pass'[p].tip = r.tip /\ pass'[p].name = r.name /\ pass'[p].listed = r.listed
    BY <1>0, <2>1 DEF Pass
  <2> QED BY <1>c, <2>2 DEF Informed, Evident, Handling
\* The next request is taken with the inputs of the pass.
<1>n. ASSUME NextRequest(p, "take"), r.pc \in Informed PROVE Goal
  <2> DEFINE s == [r EXCEPT !.pc = "take", !.queue = @ \ {r.name}, !.name = None,
                           !.tip = 0, !.evidence = None, !.source = "none",
                           !.outcome = None, !.misread = FALSE, !.lease = None, !.tries = 0]
  <2>1. pass'[p] = s
    BY <1>b, <1>n DEF NextRequest
  <2>2. s.pc = "take" /\ s.inputs = r.inputs
    BY <1>0 DEF Pass
  <2> HIDE DEF s
  <2> QED BY <1>n, <2>1, <2>2 DEF Evident
<1>v. ASSUME NextRequest(p, "void") PROVE FALSE
  <2> DEFINE s == [r EXCEPT !.pc = "void", !.queue = @ \ {r.name}, !.name = None,
                           !.tip = 0, !.evidence = None, !.source = "none",
                           !.outcome = None, !.misread = FALSE, !.lease = None, !.tries = 0]
  <2>1. pass'[p] = s
    BY <1>b, <1>v DEF NextRequest
  <2>2. s.pc = "void"
    BY <1>0 DEF Pass
  <2> HIDE DEF s
  <2> QED BY <2>1, <2>2 DEF Informed
<1>t. ASSUME NotLanded(p), r.pc = "apply" PROVE Goal
  <2>1. CASE Conclude(p, "failed")
    BY <1>c, <1>t, <2>1 DEF Evident, Handling
  <2>2. CASE Becomes(p, [r EXCEPT !.pc = "prepare", !.lease = None, !.tries = @ + 1])
    <3>1. pass'[p] = [r EXCEPT !.pc = "prepare", !.lease = None, !.tries = @ + 1]
      BY <1>b, <2>2
    <3>2. pass'[p].pc = "prepare" /\ pass'[p].inputs = r.inputs /\ pass'[p].evidence = r.evidence
      BY <1>0, <3>1 DEF Pass
    <3> QED BY <1>t, <3>2 DEF Informed, Evident
  <2> QED BY <1>t, <2>1, <2>2 DEF NotLanded
<1>i. ASSUME Becomes(p, IdlePass) PROVE FALSE
  <2>1. pass'[p].pc = "idle"
    BY <1>b, <1>i DEF IdlePass
  <2> QED BY <2>1 DEF Informed
\* The voiding reads neither.
<1>1. ASSUME List(p) \/ ReadIndex(p) \/ VoidRead(p) \/ VoidDelete(p) \/ VoidRecord(p)
      PROVE  FALSE
  <2>1. CASE List(p)
    <3>1. pass'[p] = [IdlePass EXCEPT !.pc = "index", !.listed = request]
      BY <1>b, <2>1 DEF List
    <3>2. pass'[p].pc = "index"
      BY <3>1, IdleShape DEF Pass
    <3> QED BY <3>2 DEF Informed
  <2>2. CASE ReadIndex(p)
    <3>1. PICK L, Q : pass'[p] = [r EXCEPT !.pc = "void", !.index = record, !.left = L, !.queue = Q]
      BY <1>b, <2>2 DEF ReadIndex
    <3> QED BY <1>0, <3>1 DEF Pass, Informed
  <2>3. CASE VoidRead(p)
    <3>1. PICK n : \/ pass'[p] = [r EXCEPT !.pc = "delete", !.name = n,
                                           !.tip = Len(history), !.evidence = EvidenceNow]
                   \/ r.pc = "void" /\ pass'[p] = [r EXCEPT !.queue = @ \ {n}]
      BY <1>b, <2>3 DEF VoidRead, At
    <3> QED BY <1>0, <3>1 DEF Pass, Informed
  <2>4. CASE VoidDelete(p)
    <3>1. pass'[p] = [r EXCEPT !.pc = "voided", !.left = @ \ {r.name}]
      BY <1>b, <1>v, <2>4 DEF VoidDelete
    <3> QED BY <1>0, <3>1 DEF Pass, Informed
  <2> QED BY <1>1, <1>v, <2>1, <2>2, <2>3, <2>4 DEF VoidRecord
<1>2. CASE ReadInputs(p)
  <2>1. pass'[p] = [r EXCEPT !.pc = "take", !.queue = r.left, !.inputs = inputs]
    BY <1>b, <1>2 DEF ReadInputs
  <2>2. pass'[p].pc = "take" /\ pass'[p].inputs = inputs
    BY <1>0, <2>1 DEF Pass
  <2> QED BY <2>2 DEF Evident
<1>3. CASE Take(p)
  <2>1. PICK n : pass'[p] = [r EXCEPT !.pc = "evidence", !.name = n, !.tip = Len(history)]
    BY <1>b, <1>3 DEF Take
  <2>2. pass'[p].pc = "evidence" /\ pass'[p].inputs = r.inputs /\ r.pc = "take"
    BY <1>0, <1>3, <2>1 DEF Pass, Take, At
  <2> QED BY <2>2 DEF Evident, Informed
<1>4. CASE Fingerprint(p)
  <2>1. r.pc = "evidence"
    BY <1>4 DEF Fingerprint, At
  <2>2. CASE pass'[p] = [r EXCEPT !.pc = "refuse", !.evidence = EvidenceNow]
    <3>1. pass'[p].pc = "refuse" /\ pass'[p].inputs = r.inputs /\ pass'[p].evidence = EvidenceNow
      BY <1>0, <2>2 DEF Pass
    <3> QED BY <2>1, <3>1 DEF Informed
  <2>3. CASE NextRequest(p, "take")
    BY <1>n, <2>1, <2>3 DEF Informed
  <2> QED BY <1>b, <1>4, <2>2, <2>3 DEF Fingerprint
<1>5. CASE Refuse(p)
  <2>1. r.pc = "refuse"
    BY <1>5 DEF Refuse, At
  <2>2. CASE \E o \in Refused \cup {"failed"} : Conclude(p, o)
    BY <1>c, <2>1, <2>2 DEF Evident, Handling
  <2>3. CASE Becomes(p, [r EXCEPT !.pc = "judge"])
    <3>1. pass'[p] = [r EXCEPT !.pc = "judge"]
      BY <1>b, <2>3
    <3>2. pass'[p].pc = "judge" /\ pass'[p].inputs = r.inputs /\ pass'[p].evidence = r.evidence
      BY <1>0, <3>1 DEF Pass
    <3> QED BY <2>1, <3>2 DEF Informed, Evident
  <2>4. (\E o \in Refused \cup {"failed"} : Conclude(p, o)) \/ Goto(p, "judge")
    BY <1>5 DEF Refuse, Refused
  <2> QED BY <2>2, <2>3, <2>4 DEF Goto
<1>6. CASE Judge(p)
  <2>1. r.pc = "judge"
    BY <1>6 DEF Judge, At
  <2> DEFINE s == [r EXCEPT !.pc = "final", !.source = SourceOf(Asked(p), r.tip, JudgedUnder(p))]
  <2>2. CASE Becomes(p, s)
    <3>1. s.pc = "final" /\ s.inputs = r.inputs /\ s.evidence = r.evidence
      BY <1>0 DEF Pass
    <3> HIDE DEF s
    <3>2. pass'[p] = s
      BY <1>b, <2>2
    <3> QED BY <2>1, <3>1, <3>2 DEF Informed, Evident
  <2>3. CASE Conclude(p, Verdict(p)) /\ Verdict(p) # "land"
    BY <1>c, <1>6, <2>1, <2>3 DEF Evident, Handling
  <2> QED BY <1>6, <2>2, <2>3 DEF Judge
<1>7. CASE Final(p)
  <2>1. r.pc = "final"
    BY <1>7 DEF Final, At
  <2>2. CASE Becomes(p, [r EXCEPT !.pc = "prepare", !.tries = 1])
    <3>1. pass'[p] = [r EXCEPT !.pc = "prepare", !.tries = 1]
      BY <1>b, <2>2
    <3>2. pass'[p].pc = "prepare" /\ pass'[p].inputs = r.inputs /\ pass'[p].evidence = r.evidence
      BY <1>0, <3>1 DEF Pass
    <3> QED BY <2>1, <3>2 DEF Informed, Evident
  <2>3. CASE Conclude(p, "refused-not-ready")
    BY <1>c, <2>1, <2>3 DEF Evident, Handling, Refused
  <2> QED BY <1>7, <2>2, <2>3 DEF Final
<1>8. CASE Prepare(p)
  <2>1. r.pc = "prepare"
    BY <1>8 DEF Prepare, At
  <2>2. CASE \E l : Becomes(p, [r EXCEPT !.pc = "apply", !.lease = l])
    <3>1. PICK l : pass'[p] = [r EXCEPT !.pc = "apply", !.lease = l]
      BY <1>b, <2>2
    <3>2. pass'[p].pc = "apply" /\ pass'[p].inputs = r.inputs /\ pass'[p].evidence = r.evidence
      BY <1>0, <3>1 DEF Pass
    <3> QED BY <2>1, <3>2 DEF Informed, Evident
  <2>3. CASE Conclude(p, "failed")
    BY <1>c, <2>1, <2>3 DEF Evident, Handling
  <2> QED BY <1>8, <2>2, <2>3 DEF Prepare
<1>9. CASE Land(p) \/ Answer(p)
  BY <1>n, <1>9 DEF Land, Answer, At, Informed
<1>10. CASE Contended(p)
  BY <1>t, <1>10 DEF Contended, At
<1>11. CASE EndPass(p) \/ Crash(p)
  BY <1>i, <1>11 DEF EndPass, Crash
<1>12. CASE Fail(p)
  <2>1. CASE r.pc = "void" /\ Becomes(p, [r EXCEPT !.queue = @ \ First(@)])
    <3>1. pass'[p] = [r EXCEPT !.queue = @ \ First(@)]
      BY <1>b, <2>1
    <3>2. pass'[p].pc = "void"
      BY <1>0, <2>1, <3>1 DEF Pass
    <3> QED BY <3>2 DEF Informed
  <2>2. CASE Becomes(p, [r EXCEPT !.pc = "take", !.queue = r.left, !.inputs = Unread])
    <3>1. pass'[p] = [r EXCEPT !.pc = "take", !.queue = r.left, !.inputs = Unread]
      BY <1>b, <2>2
    <3>2. pass'[p].pc = "take" /\ pass'[p].inputs = Unread
      BY <1>0, <3>1 DEF Pass
    <3> QED BY <3>2 DEF Evident
  <2>3. CASE r.pc \in {"evidence", "answer"} /\ NextRequest(p, "take")
    BY <1>n, <2>3 DEF Informed
  <2>4. CASE r.pc \in {"refuse", "judge", "final", "prepare"} /\ Conclude(p, "failed")
    BY <1>c, <2>4 DEF Evident, Handling
  <2>5. CASE r.pc = "apply" /\ NotLanded(p)
    BY <1>t, <2>5
  <2>6. CASE r.pc = "evidence" /\ Becomes(p, [r EXCEPT !.pc = "refuse", !.evidence = EvidenceNow])
    <3>1. pass'[p] = [r EXCEPT !.pc = "refuse", !.evidence = EvidenceNow]
      BY <1>b, <2>6
    <3>2. pass'[p].pc = "refuse" /\ pass'[p].inputs = r.inputs /\ pass'[p].evidence = EvidenceNow
      BY <1>0, <3>1 DEF Pass
    <3> QED BY <2>6, <3>2 DEF Informed
  <2>7. CASE r.pc \in {"refuse", "final"} /\ Conclude(p, "refused-not-ready")
    BY <1>c, <2>7 DEF Evident, Handling, Refused
  <2>8. CASE r.pc = "judge" /\ Misjudge(p)
    <3>1. PICK o \in {"stale", "reject"} :
              pass'[p] = [r EXCEPT !.pc = "answer", !.outcome = o, !.misread = TRUE]
      BY <1>b, <2>8 DEF Misjudge, Misread
    <3>2. /\ pass'[p].outcome = o /\ pass'[p].misread /\ pass'[p].evidence = r.evidence
          /\ pass'[p].inputs = r.inputs
          /\ pass'[p].tip = r.tip /\ pass'[p].name = r.name /\ pass'[p].listed = r.listed
      BY <1>0, <3>1 DEF Pass
    <3> QED BY <2>8, <3>2 DEF Informed, Evident, Handling
  <2> QED BY <1>12, <1>i, <1>v, <2>1, <2>2, <2>3, <2>4, <2>5, <2>6, <2>7, <2>8 DEF Fail, At
<1> QED BY <1>1, <1>2, <1>3, <1>4, <1>5, <1>6, <1>7, <1>8, <1>9, <1>10, <1>11, <1>12 DEF PassStep

\* What replaces the inputs has never been them before: the inputs can be
\* numbered so that each change raises the number.
NeverBack(Age) ==
    /\ Age \in [Inputs -> Nat]
    /\ \A i \in Inputs : \A j \in Successor[i] : j = i \/ Age[i] < Age[j]

\* The digest d and the evidence e were read in the past, so nothing in them
\* is newer than what stands.
DigestPast(Age, d) == d # Unread => d \in Inputs /\ Age[d] <= Age[inputs]
EvidencePast(e) == \A t \in Tree : e.attested[t] \subseteq attested[t]

\* An answer o for the head h at the k-th tip, under the inputs d and the
\* evidence e, is what the verdict is now, if all that it rests on stands
\* and nothing failed under it, which f says.
HoldsNow(h, k, e, d, o, f) ==
    /\ k \in 0..Len(history) /\ o # "land" /\ (o = "reject" => f)
    /\ o = "stale" /\ ~f /\ d = inputs /\ e.attested = attested
            => Decide(h, k, inputs) = "stale"

\* An answer recorded with its inputs holds in that sense, and so does one
\* that a pass has reached and not yet recorded.
BoundHolds(Age, b) ==
    LET m == b.memo IN
    /\ DigestPast(Age, b.digest) /\ EvidencePast(m.evidence)
    /\ HoldsNow(m.head, m.tip, m.evidence, b.digest, m.outcome, b.misread)
PassHolds(Age, s) ==
    /\ s.pc \in Informed => DigestPast(Age, s.inputs)
    /\ s.pc \in Evident => EvidencePast(s.evidence)
    /\ s.pc = "answer" =>
          HoldsNow(s.listed[s.name], s.tip, s.evidence, s.inputs, s.outcome, s.misread)
AnswersHold(Age) ==
    /\ \A n \in Name : bound[n] # None => BoundHolds(Age, bound[n])
    /\ \A p \in Controller : PassHolds(Age, pass[p])

\* Evidence is only added and the inputs only go on.
LEMMA PastOnly ==
  ASSUME TypeOK, [Next]_vars, NEW Age, NeverBack(Age)
  PROVE  /\ \A t \in Tree : attested[t] \subseteq attested'[t]
         /\ inputs \in Inputs /\ inputs' \in Inputs
         /\ inputs' = inputs \/ Age[inputs] < Age[inputs']
         /\ \A i \in Inputs : Age[i] \in Nat
<1>0. attested \in [Tree -> SUBSET Signer] /\ inputs \in Inputs
  BY DEF TypeOK, StoredOK
<1>1. UNCHANGED attested \/ \E t \in Tree, s \in Signer : Attest(t, s)
  BY DEF Next, Elsewhere, Unapprove, Expire, Approve, WriteRecord, Relay, PushTarget,
         ChangeInputs, vars, refs, PassStep, List, ReadIndex, VoidRead, VoidDelete, VoidRecord,
         ReadInputs, Take, Fingerprint, Refuse, Judge, Final, Prepare, Land, Contended, Answer,
         EndPass, Fail, Crash
<1>2. UNCHANGED inputs \/ inputs' \in Successor[inputs]
  BY DEF Next, Elsewhere, Unapprove, Expire, Approve, WriteRecord, Relay, Attest, PushTarget,
         ChangeInputs, vars, refs, host, PassStep, List, ReadIndex, VoidRead, VoidDelete,
         VoidRecord, ReadInputs, Take, Fingerprint, Refuse, Judge, Final, Prepare, Land,
         Contended, Answer, EndPass, Fail, Crash
<1>3. \A t \in Tree : attested[t] \subseteq attested'[t]
  <2>1. ASSUME NEW u \in Tree, NEW s \in Signer, Attest(u, s), NEW t \in Tree
        PROVE  attested[t] \subseteq attested'[t]
    <3>1. attested' = [attested EXCEPT ![u] = @ \cup {s}]
      BY <2>1 DEF Attest
    <3> QED BY <1>0, <3>1
  <2> QED BY <1>1, <2>1
<1>4. inputs' \in Inputs /\ (inputs' = inputs \/ Age[inputs] < Age[inputs'])
  <2>1. Successor[inputs] \subseteq Inputs
    BY <1>0, ConstantsAssumption
  <2> QED BY <1>0, <1>2, <2>1 DEF NeverBack
<1> QED BY <1>0, <1>3, <1>4 DEF NeverBack

\* So what was read in the past stays past,
LEMMA StaysPast ==
  ASSUME TypeOK, [Next]_vars, NEW Age, NeverBack(Age)
  PROVE  /\ \A d : DigestPast(Age, d) => DigestPast(Age, d)'
         /\ \A e : EvidencePast(e) => EvidencePast(e)'
<1> QED BY PastOnly DEF DigestPast, EvidencePast

\* and an answer that holds goes on holding: were it to rest on what stands
\* after the step, it rested on the same before.
LEMMA StillHolds ==
  ASSUME TypeOK, [Next]_vars, NEW Age, NeverBack(Age), NEW h, NEW k, NEW e, NEW d, NEW o,
         NEW f, DigestPast(Age, d), EvidencePast(e), e \in Evidence, HoldsNow(h, k, e, d, o, f)
  PROVE  HoldsNow(h, k, e, d, o, f)'
<1>1. k \in 0..Len(history) /\ k \in 0..Len(history') /\ TreeAt(k)' = TreeAt(k)
  BY PastStays DEF HoldsNow
<1> SUFFICES ASSUME o = "stale", ~f, d = inputs', e.attested = attested'
             PROVE  (Decide(h, k, inputs) = "stale")'
  BY <1>1 DEF HoldsNow
<1>2. inputs' = inputs
  <2>1. inputs' \in Inputs /\ d # Unread
    BY PastOnly, ConstantsAssumption
  <2>2. Age[inputs'] <= Age[inputs] /\ Age[inputs] \in Nat /\ Age[inputs'] \in Nat
    BY <2>1, PastOnly DEF DigestPast
  <2> QED BY <2>2, PastOnly
<1>3. attested' = attested
  <2>1. e.attested \in [Tree -> SUBSET Signer] /\ attested \in [Tree -> SUBSET Signer]
    BY DEF Evidence, TypeOK, StoredOK
  <2>2. \A t \in Tree : attested'[t] = attested[t]
    BY PastOnly DEF EvidencePast
  <2> QED BY <2>1, <2>2
<1>4. Decide(h, k, inputs) = "stale"
  BY <1>2, <1>3 DEF HoldsNow
<1>5. Decide(h, k, inputs)' = Decide(h, k, inputs)
  BY <1>1, <1>2, <1>3 DEF Decide, Applies, OwnStands, DirectStands, Apart, Vouched, LandingTree
<1> QED BY <1>4, <1>5

\* An inputs record is written with an answer only (writeAnswer).
LEMMA OnlyAnswersBind ==
  ASSUME [Next]_vars, NEW n \in Name, bound \in [Name -> Bound \cup {None}]
  PROVE  \/ bound'[n] = bound[n]
         \/ \E p \in Controller :
               /\ pass[p].pc = "answer"
               /\ bound'[n] = [digest |-> pass[p].inputs, memo |-> MemoOf(p, pass[p].outcome),
                               misread |-> pass[p].misread]
<1>1. ASSUME NEW p \in Controller, Answer(p)
      PROVE  \/ bound'[n] = bound[n]
             \/ /\ pass[p].pc = "answer"
                /\ bound'[n] = [digest |-> pass[p].inputs, memo |-> MemoOf(p, pass[p].outcome),
                                misread |-> pass[p].misread]
  BY <1>1 DEF Answer, At
<1>2. UNCHANGED bound \/ \E p \in Controller : Answer(p)
  BY DEF Next, Elsewhere, Unapprove, Expire, Approve, WriteRecord, Relay, Attest, PushTarget,
         ChangeInputs, vars, refs, PassStep, List, ReadIndex, VoidRead, VoidDelete, VoidRecord,
         ReadInputs, Take, Fingerprint, Refuse, Judge, Final, Prepare, Land, Contended, EndPass,
         Fail, Crash
<1> QED BY <1>1, <1>2

\* A step keeps what was read in the past, so it keeps each kind of answer.
LEMMA HoldsOn ==
  ASSUME TypeOK, [Next]_vars, NEW Age, NeverBack(Age)
  PROVE  /\ \A b \in Bound : BoundHolds(Age, b) => BoundHolds(Age, b)'
         /\ \A s : PassShape(s) /\ PassHolds(Age, s) => PassHolds(Age, s)'
<1>1. ASSUME NEW b \in Bound, BoundHolds(Age, b) PROVE BoundHolds(Age, b)'
  <2>1. b.memo.evidence \in Evidence
    BY DEF Bound, Memo
  <2> QED BY <1>1, <2>1, StaysPast, StillHolds DEF BoundHolds
<1>2. ASSUME NEW s, PassShape(s), PassHolds(Age, s) PROVE PassHolds(Age, s)'
  <2>1. s.pc = "answer" => s.evidence \in Evidence
    BY <1>2 DEF PassShape
  <2> QED BY <1>2, <2>1, StaysPast, StillHolds DEF PassHolds, Informed, Evident
<1> QED BY <1>1, <1>2

\* The answers that are recorded hold after every step,
LEMMA RecordedHold ==
  ASSUME TypeOK, [Next]_vars, NEW Age, NeverBack(Age), AnswersHold(Age),
         NEW n \in Name, bound'[n] # None
  PROVE  BoundHolds(Age, bound[n])'
<1>0. StoredOK /\ PassesOK
  BY DEF TypeOK
<1>1. CASE bound'[n] = bound[n]
  <2>1. PICK b \in Bound : b = bound[n] /\ b = bound'[n]
    BY <1>0, <1>1 DEF StoredOK
  <2>2. BoundHolds(Age, b)'
    BY <1>1, <2>1, HoldsOn DEF AnswersHold
  <2> QED BY <2>1, <2>2
<1>2. ASSUME NEW p \in Controller, pass[p].pc = "answer",
             bound'[n] = [digest |-> pass[p].inputs, memo |-> MemoOf(p, pass[p].outcome),
                          misread |-> pass[p].misread]
      PROVE  BoundHolds(Age, bound[n])'
  <2>1. PICK s, b : s = pass[p] /\ b = bound'[n]
    OBVIOUS
  <2>2. s.evidence \in Evidence
    BY <1>0, <1>2, <2>1, Mine DEF PassShape
  <2>3. /\ DigestPast(Age, s.inputs) /\ EvidencePast(s.evidence)
        /\ HoldsNow(s.listed[s.name], s.tip, s.evidence, s.inputs, s.outcome, s.misread)
    BY <1>2, <2>1 DEF AnswersHold, PassHolds, Informed, Evident
  <2>4. /\ b.digest = s.inputs /\ b.memo.head = s.listed[s.name]
        /\ b.memo.tip = s.tip /\ b.memo.evidence = s.evidence /\ b.memo.outcome = s.outcome
        /\ b.misread = s.misread
    BY <1>2, <2>1 DEF MemoOf, Asked
  <2>5. BoundHolds(Age, b)'
    BY <2>2, <2>3, <2>4, StaysPast, StillHolds DEF BoundHolds
  <2> QED BY <2>1, <2>5
<1>3. bound \in [Name -> Bound \cup {None}]
  BY <1>0 DEF StoredOK
<1> QED BY <1>1, <1>2, <1>3, OnlyAnswersBind

\* and one that takes a step has read what it rests on now or before.  A
\* verdict under the signers as attest reads them again is the verdict now
\* where the pass's inputs are what stands.
LEMMA HeldByPass ==
  ASSUME TypeOK, TypeOK', JudgedInv, NEW Age, NeverBack(Age), AnswersHold(Age),
         NEW p \in Controller, PassStep(p) \/ Fail(p) \/ Crash(p)
  PROVE  PassHolds(Age, pass[p])'
<1> DEFINE r == pass[p]
<1>0. StoredOK /\ PassesOK /\ r \in Pass /\ [Next]_vars
  BY Mine DEF TypeOK, Next
<1>h. PassHolds(Age, r)
  BY DEF AnswersHold
<1>1. PICK s : s = pass'[p]
  OBVIOUS
<1>2. ASSUME s.pc \in Informed PROVE DigestPast(Age, s.inputs)
  <2>1. (r.pc \in Informed /\ s.inputs = r.inputs) \/ s.inputs \in {inputs, Unread}
    BY <1>1, <1>2, Informing
  <2>2. DigestPast(Age, inputs)
    <3>1. inputs \in Inputs /\ Age[inputs] \in Nat
      BY <1>0, PastOnly
    <3> QED BY <3>1 DEF DigestPast
  <2>3. DigestPast(Age, Unread)
    BY DEF DigestPast
  <2>4. r.pc \in Informed => DigestPast(Age, r.inputs)
    BY <1>h DEF PassHolds
  <2> QED BY <2>1, <2>2, <2>3, <2>4
<1>3. ASSUME s.pc \in Evident PROVE EvidencePast(s.evidence)
  <2>1. s.evidence = EvidenceNow \/ (r.pc \in Evident /\ s.evidence = r.evidence)
    BY <1>1, <1>3, Informing DEF Evident, Informed
  <2>2. EvidencePast(EvidenceNow)
    BY DEF EvidencePast, EvidenceNow
  <2>3. r.pc \in Evident => EvidencePast(r.evidence)
    BY <1>h DEF PassHolds
  <2> QED BY <2>1, <2>2, <2>3
<1>4. ASSUME s.pc = "answer"
      PROVE  HoldsNow(s.listed[s.name], s.tip, s.evidence, s.inputs, s.outcome, s.misread)
  <2>1. /\ r.pc \in Handling /\ s.tip = r.tip /\ s.name = r.name
        /\ s.listed = r.listed /\ s.inputs = r.inputs
        /\ \/ s.outcome \in Refused \cup {"failed"}
           \/ Judge(p) /\ s.outcome = Verdict(p) /\ Verdict(p) # "land"
           \/ s.outcome \in {"stale", "reject"} /\ s.misread
    BY <1>1, <1>4, Informing DEF Informed
  <2>2. s.tip \in 0..Len(history)
    BY <1>0, <2>1, Reads DEF JudgedInv, TipWasRead, Pass
  <2>3. CASE s.outcome \in Refused \cup {"failed"}
    BY <2>2, <2>3 DEF HoldsNow, Refused
  <2>4. CASE Judge(p) /\ s.outcome = Verdict(p) /\ Verdict(p) # "land"
    <3> DEFINE d == Decide(s.listed[s.name], s.tip, JudgedUnder(p))
    <3>1. s.outcome # "land" /\ s.outcome = d
      BY <2>1, <2>4 DEF Verdict, Asked
    <3>2. d \in {"land", "stale"}
      BY DEF Decide
    <3>3. s.inputs = inputs => JudgedUnder(p) = inputs
      <4>1. inputs \in [floor : Floor, signers : SignerSet]
        BY <1>0 DEF StoredOK, Inputs
      <4>2. inputs = [floor |-> inputs.floor, signers |-> inputs.signers]
        BY <4>1
      <4>3. JudgedUnder(p) = [floor |-> s.inputs.floor, signers |-> inputs.signers]
        BY <2>1 DEF JudgedUnder
      <4> QED BY <4>2, <4>3
    <3> QED BY <2>2, <3>1, <3>2, <3>3 DEF HoldsNow
  <2>5. CASE s.outcome \in {"stale", "reject"} /\ s.misread
    BY <2>2, <2>5 DEF HoldsNow
  <2> QED BY <2>1, <2>3, <2>4, <2>5
<1>5. s.pc = "answer" => s.evidence \in Evidence
  <2>1. PassesOK'
    BY DEF TypeOK
  <2> QED BY <1>1, <2>1 DEF PassesOK, PassShape
<1>6. PassHolds(Age, s)'
  BY <1>0, <1>2, <1>3, <1>4, <1>5, StaysPast, StillHolds DEF PassHolds, Informed, Evident
<1> QED BY <1>1, <1>6

\* Every step keeps that the answers hold.
LEMMA NextAnswers ==
  ASSUME NEW Age, NeverBack(Age), TypeOK, TypeOK', JudgedInv, AnswersHold(Age), [Next]_vars
  PROVE  AnswersHold(Age)'
<1>1. \A n \in Name : bound'[n] # None => BoundHolds(Age, bound[n])'
  BY RecordedHold
<1>2. ASSUME NEW p \in Controller PROVE PassHolds(Age, pass[p])'
  <2>1. CASE PassStep(p) \/ Fail(p) \/ Crash(p)
    BY <2>1, HeldByPass
  <2>2. CASE pass'[p] = pass[p]
    <3>1. PICK s : s = pass[p] /\ s = pass'[p]
      BY <2>2
    <3>2. PassHolds(Age, s)'
      BY <3>1, HoldsOn, Mine DEF AnswersHold, TypeOK
    <3> QED BY <3>1, <3>2
  <2>3. ASSUME NEW q \in Controller, PassStep(q) \/ Fail(q) \/ Crash(q), q # p
        PROVE  pass'[p] = pass[p]
    BY <2>3, Others DEF TypeOK
  <2>4. Elsewhere \/ UNCHANGED vars => UNCHANGED pass
    BY DEF Elsewhere, Unapprove, Expire, Approve, WriteRecord, Relay, Attest, PushTarget,
           ChangeInputs, vars
  <2> QED BY <2>1, <2>2, <2>3, <2>4 DEF Next
<1> QED BY <1>1, <1>2 DEF AnswersHold

\* Where the inputs never come back, a pass passes over a request only for an
\* answer it would reach again, or for one git or attest failed under: what
\* else it skips would not land (reconcile, answered, writeAnswer).
THEOREM AnswersStayTrue ==
  ASSUME NEW Age, NeverBack(Age)
  PROVE  Spec => []StandingAnswerIsTrue
<1>1. Init => JudgedInv
  BY DEF Init, JudgedInv, TipWasRead, Judged, LandsWhatItJudged, IdlePass, Handling, Landing
<1>2. TypeOK /\ JudgedInv /\ [Next]_vars => JudgedInv'
  BY NextJudged
<1>3. Init => AnswersHold(Age)
  BY DEF Init, AnswersHold, PassHolds, IdlePass, Informed, Evident
<1>4. TypeOK /\ TypeOK' /\ JudgedInv /\ AnswersHold(Age) /\ [Next]_vars => AnswersHold(Age)'
  BY NextAnswers
<1>5. TypeOK /\ AnswersHold(Age) => StandingAnswerIsTrue
  <2> SUFFICES ASSUME TypeOK, AnswersHold(Age), NEW n \in Name,
                      SkippedNow(n), ~bound[n].misread
               PROVE  memo[n].outcome \in {"failed", Decide(request[n], Len(history), inputs)}
    BY DEF StandingAnswerIsTrue
  <2>1. /\ inputs \in Inputs /\ EvidenceNow.attested = attested
        /\ Answered(n, request[n], Len(history), EvidenceNow, inputs)
    BY DEF TypeOK, StoredOK, EvidenceNow, SkippedNow
  <2>2. /\ InputsOf(n) = inputs /\ memo[n].head = request[n] /\ memo[n].tip = Len(history)
        /\ memo[n].evidence = EvidenceNow /\ memo[n].outcome \in {"land", "stale", "reject", "failed"}
    BY <2>1 DEF Answered
  <2>3. CASE bound[n] # None /\ bound[n].memo = memo[n]
    <3>1. HoldsNow(memo[n].head, memo[n].tip, memo[n].evidence, bound[n].digest,
                  memo[n].outcome, bound[n].misread)
      BY <2>3 DEF AnswersHold, BoundHolds
    <3>2. bound[n].digest = inputs
      BY <2>1, <2>2, <2>3 DEF InputsOf, Answered
    <3> QED BY <2>1, <2>2, <3>1, <3>2 DEF HoldsNow
  <2>4. CASE ~(bound[n] # None /\ bound[n].memo = memo[n])
    <3>1. inputs = None
      BY <2>2, <2>4 DEF InputsOf
    <3> QED BY <2>1, <3>1, ConstantsAssumption
  <2> QED BY <2>3, <2>4
<1> QED BY <1>1, <1>2, <1>3, <1>4, <1>5, Typing, PTL DEF Spec

-----------------------------------------------------------------------------
(***************************************************************************)
(* One landing spends one approval.                                        *)
(***************************************************************************)

\* The landings of a head under a name are counted, and one that is appended
\* counts once.
LEMMA LandedCounts ==
  ASSUME TypeOK, NEW n \in Name, NEW h \in Heads
  PROVE  /\ Landed(n, h) \in Nat
         /\ \A e \in Entry : history' = Append(history, e) =>
               Landed(n, h)' = IF e = [name |-> n, head |-> h] THEN Landed(n, h) + 1
                               ELSE Landed(n, h)
<1> DEFINE x == [name |-> n, head |-> h]
           S == {i \in 1..Len(history) : history[i] = x}
           k == Len(history)
<1>0. history \in Seq(Entry) /\ k \in Nat
  BY DEF TypeOK, StoredOK
<1>1. IsFiniteSet(S) /\ Cardinality(S) \in Nat /\ k + 1 \notin S
  <2>1. IsFiniteSet(1..k)
    BY <1>0, FS_Interval
  <2>2. S \subseteq 1..k
    OBVIOUS
  <2>3. IsFiniteSet(S)
    BY <2>1, <2>2, FS_Subset
  <2> QED BY <1>0, <2>2, <2>3, FS_CardinalityType
<1>2. Landed(n, h) = Cardinality(S)
  BY DEF Landed
<1>3. ASSUME NEW e \in Entry, history' = Append(history, e)
      PROVE  Landed(n, h)' = IF e = x THEN Cardinality(S) + 1 ELSE Cardinality(S)
  <2>1. /\ Len(history') = k + 1 /\ history'[k + 1] = e
        /\ \A i \in 1..k : history'[i] = history[i]
    BY <1>3, TargetGrows
  <2>2. {i \in 1..Len(history') : history'[i] = x} = IF e = x THEN S \cup {k + 1} ELSE S
    <3>1. 1..Len(history') = 1..k \cup {k + 1}
      BY <1>0, <2>1
    <3> QED BY <2>1, <3>1
  <2>3. Landed(n, h)' = Cardinality({i \in 1..Len(history') : history'[i] = x})
    BY DEF Landed
  <2>4. Cardinality(S \cup {k + 1}) = Cardinality(S) + 1
    BY <1>1, FS_AddElement
  <2> HIDE DEF x, S, k
  <2> QED BY <2>2, <2>3, <2>4
<1> QED BY <1>1, <1>2, <1>3

\* What is owed, entry by entry.
LEMMA OwedAt ==
  ASSUME TypeOK
  PROVE  /\ owed \in [Name -> [Heads -> Int]]
         /\ \A n \in Name, h \in Heads : owed[n][h] = filed[n][h] - Landed(n, h)
<1>1. \A n \in Name, h \in Heads : filed[n][h] \in Nat /\ Landed(n, h) \in Nat
  BY LandedCounts DEF TypeOK, StoredOK
<1>2. \A n \in Name, h \in Heads : filed[n][h] - Landed(n, h) \in Int
  BY <1>1
<1> QED BY <1>2 DEF owed

\* A push to the target, and a step beside it, pays for nothing.
LEMMA OwedStays ==
  ASSUME TypeOK, UNCHANGED filed, UNCHANGED history \/ history' = Append(history, None)
  PROVE  UNCHANGED owed
<1>1. ASSUME NEW n \in Name, NEW h \in Heads
      PROVE  Landed(n, h)' = Landed(n, h)
  <2>1. CASE UNCHANGED history
    BY <2>1 DEF Landed
  <2>2. CASE history' = Append(history, None)
    <3>1. None \in Entry /\ None # [name |-> n, head |-> h]
      BY ConstantsAssumption DEF Entry
    <3> QED BY <2>2, <3>1, LandedCounts
  <2> QED BY <2>1, <2>2
<1> QED BY <1>1 DEF owed

\* An approval is owed once more.
LEMMA OwedOnApproval ==
  ASSUME TypeOK, NEW n \in Name, NEW h \in Heads, Approve(n, h)
  PROVE  owed' = [owed EXCEPT ![n][h] = @ + 1]
<1>1. UNCHANGED history /\ filed' = [filed EXCEPT ![n][h] = @ + 1]
  BY DEF Approve
<1>2. ASSUME NEW m \in Name, NEW g \in Heads
      PROVE  owed'[m][g] = IF m = n /\ g = h THEN owed[m][g] + 1 ELSE owed[m][g]
  <2>1. Landed(m, g)' = Landed(m, g) /\ Landed(m, g) \in Nat
    BY <1>1, LandedCounts DEF Landed
  <2>2. /\ filed'[m][g] = IF m = n /\ g = h THEN filed[m][g] + 1 ELSE filed[m][g]
        /\ filed[m][g] \in Nat
    BY <1>1 DEF TypeOK, StoredOK
  <2>3. owed'[m][g] = filed'[m][g] - Landed(m, g)' /\ owed[m][g] = filed[m][g] - Landed(m, g)
    BY DEF owed
  <2> QED BY <2>1, <2>2, <2>3
<1>3. owed \in [Name -> [Heads -> Int]] /\ owed' \in [Name -> [Heads -> Int]]
  <2>1. owed \in [Name -> [Heads -> Int]]
    BY OwedAt
  <2>2. owed' = [m \in Name |-> [g \in Heads |-> owed'[m][g]]]
    BY DEF owed
  <2>3. \A m \in Name, g \in Heads : owed'[m][g] \in Int
    BY <1>2, <2>1
  <2> HIDE DEF owed
  <2>4. owed' \in [Name -> [Heads -> Int]]
    BY <2>2, <2>3
  <2> QED BY <2>1, <2>4
<1> QED BY <1>2, <1>3

\* A landing pays for one approval of what it lands.
LEMMA OwedOnLanding ==
  ASSUME TypeOK, NEW p \in Controller, Land(p)
  PROVE  owed' = [owed EXCEPT ![pass[p].name][Asked(p)] = @ - 1]
<1> DEFINE n == pass[p].name
           h == Asked(p)
           e == [name |-> n, head |-> h]
<1>0. n \in Name /\ h \in Heads
  BY Mine DEF TypeOK, Land, At, PassShape, Asked
<1>1. e \in Entry /\ history' = Append(history, e) /\ UNCHANGED filed
  BY LandEntry DEF Land, host
<1>2. ASSUME NEW m \in Name, NEW g \in Heads
      PROVE  owed'[m][g] = IF m = n /\ g = h THEN owed[m][g] - 1 ELSE owed[m][g]
  <2>1. e = [name |-> m, head |-> g] <=> m = n /\ g = h
    OBVIOUS
  <2>2. /\ Landed(m, g)' = IF m = n /\ g = h THEN Landed(m, g) + 1 ELSE Landed(m, g)
        /\ Landed(m, g) \in Nat
    BY <1>1, <2>1, LandedCounts
  <2>3. owed'[m][g] = filed[m][g] - Landed(m, g)' /\ owed[m][g] = filed[m][g] - Landed(m, g)
    BY <1>1 DEF owed
  <2>4. filed[m][g] \in Nat
    BY DEF TypeOK, StoredOK
  <2> HIDE DEF n, h
  <2> QED BY <2>2, <2>3, <2>4
<1>3. owed \in [Name -> [Heads -> Int]] /\ owed' \in [Name -> [Heads -> Int]]
  <2>1. owed \in [Name -> [Heads -> Int]]
    BY OwedAt
  <2>2. owed' = [m \in Name |-> [g \in Heads |-> owed'[m][g]]]
    BY DEF owed
  <2> HIDE DEF n, h
  <2>3. \A m \in Name, g \in Heads : owed'[m][g] \in Int
    BY <1>2, <2>1
  <2>4. owed' \in [Name -> [Heads -> Int]]
    BY <2>2, <2>3
  <2> QED BY <2>1, <2>4
<1> HIDE DEF n, h
<1>4. owed' = [owed EXCEPT ![n][h] = @ - 1]
  BY <1>0, <1>2, <1>3
<1> QED BY <1>4 DEF n, h

\* The requests a pass may still handle.
Pending(s) ==
    CASE s.pc = "index" -> {n \in Name : s.listed[n] # None}
      [] s.pc \in {"void", "delete", "voided"} -> s.left
      [] s.pc = "idle" -> {}
      [] OTHER -> s.queue

\* They are requests the pass listed.
LEMMA PendingListed ==
  ASSUME TypeOK, NEW p \in Controller, NEW n \in Pending(pass[p])
  PROVE  n \in Name /\ pass[p].listed[n] \in Heads
<1>1. pass[p] \in Pass /\ PassShape(pass[p])
  BY Mine DEF TypeOK
<1>2. pass[p].queue \subseteq Name /\ pass[p].left \subseteq Name
      /\ pass[p].listed \in [Name -> Heads \cup {None}]
  BY <1>1 DEF Pass
<1>3. CASE n \in pass[p].queue \cup pass[p].left
  BY <1>1, <1>2, <1>3 DEF PassShape
<1>4. CASE n \in {m \in Name : pass[p].listed[m] # None}
  BY <1>2, <1>4
<1> QED BY <1>3, <1>4 DEF Pending

\* Once it has listed the requests a pass takes up no other (reconcile), and
\* the one it handles is among them until it is done with it.
LEMMA Narrows ==
  ASSUME TypeOK, NEW p \in Controller, PassStep(p) \/ Fail(p) \/ Crash(p)
  PROVE  /\ \/ pass'[p].pc = "index" /\ pass'[p].listed = request
            \/ pass'[p].pc = "idle"
            \/ pass'[p].listed = pass[p].listed /\ Pending(pass'[p]) \subseteq Pending(pass[p])
         /\ pass'[p].pc \in Handling =>
               \/ pass'[p].name \in pass'[p].queue
               \/ /\ pass[p].pc \in Handling
                  /\ pass'[p].name = pass[p].name /\ pass'[p].queue = pass[p].queue
         /\ Land(p) => pass[p].name \notin Pending(pass'[p])
<1> DEFINE r == pass[p]
           Goal == /\ \/ pass'[p].pc = "index" /\ pass'[p].listed = request
                      \/ pass'[p].pc = "idle"
                      \/ pass'[p].listed = r.listed /\ Pending(pass'[p]) \subseteq Pending(r)
                   /\ pass'[p].pc \in Handling =>
                         \/ pass'[p].name \in pass'[p].queue
                         \/ /\ r.pc \in Handling
                            /\ pass'[p].name = r.name /\ pass'[p].queue = r.queue
                   /\ Land(p) => r.name \notin Pending(pass'[p])
           Later == {"take", "evidence", "refuse", "judge", "final", "prepare", "apply", "answer"}
<1>0. r \in Pass /\ PassesOK
  BY Mine DEF TypeOK
<1>b. ASSUME NEW s, Becomes(p, s) PROVE pass'[p] = s
  BY <1>0, <1>b DEF PassesOK, Becomes
<1>l. Land(p) => r.pc = "apply"
  BY DEF Land, At
\* A step that keeps the queue and the request at hand.
<1>s. ASSUME r.pc \in Handling, pass'[p].pc \in Later, ~Land(p),
             pass'[p].name = r.name, pass'[p].queue = r.queue, pass'[p].listed = r.listed
      PROVE  Goal
  BY <1>s DEF Pending, Handling
<1>c. ASSUME NEW o, Conclude(p, o), r.pc \in Handling, ~Land(p) PROVE Goal
  <2>1. pass'[p] = [r EXCEPT !.pc = "answer", !.outcome = o]
    BY <1>b, <1>c DEF Conclude
  <2>2. /\ pass'[p].pc = "answer" /\ pass'[p].name = r.name
        /\ pass'[p].queue = r.queue /\ pass'[p].listed = r.listed
    BY <1>0, <2>1 DEF Pass
  <2> QED BY <1>c, <1>s, <2>2
<1>n. ASSUME NextRequest(p, "take"), r.pc \in Later PROVE Goal
  <2> DEFINE s == [r EXCEPT !.pc = "take", !.queue = @ \ {r.name}, !.name = None,
                           !.tip = 0, !.evidence = None, !.source = "none",
                           !.outcome = None, !.misread = FALSE, !.lease = None, !.tries = 0]
  <2>1. pass'[p] = s
    BY <1>b, <1>n DEF NextRequest
  <2>2. s.pc = "take" /\ s.listed = r.listed /\ s.queue = r.queue \ {r.name}
    BY <1>0 DEF Pass
  <2> HIDE DEF s
  <2>3. Pending(s) = r.queue \ {r.name} /\ Pending(r) = r.queue
    BY <1>n, <2>2 DEF Pending
  <2> QED BY <2>1, <2>2, <2>3 DEF Handling
<1>v. ASSUME NextRequest(p, "void"), r.pc \in {"delete", "voided"} PROVE Goal
  <2> DEFINE s == [r EXCEPT !.pc = "void", !.queue = @ \ {r.name}, !.name = None,
                           !.tip = 0, !.evidence = None, !.source = "none",
                           !.outcome = None, !.misread = FALSE, !.lease = None, !.tries = 0]
  <2>1. pass'[p] = s
    BY <1>b, <1>v DEF NextRequest
  <2>2. s.pc = "void" /\ s.listed = r.listed /\ s.left = r.left
    BY <1>0 DEF Pass
  <2> HIDE DEF s
  <2>3. Pending(s) = r.left /\ Pending(r) = r.left
    BY <1>v, <2>2 DEF Pending
  <2> QED BY <1>l, <1>v, <2>1, <2>2, <2>3 DEF Handling
<1>t. ASSUME NotLanded(p), r.pc = "apply", ~Land(p) PROVE Goal
  <2>1. CASE Conclude(p, "failed")
    BY <1>c, <1>t, <2>1 DEF Handling
  <2>2. CASE Becomes(p, [r EXCEPT !.pc = "prepare", !.lease = None, !.tries = @ + 1])
    <3>1. pass'[p] = [r EXCEPT !.pc = "prepare", !.lease = None, !.tries = @ + 1]
      BY <1>b, <2>2
    <3>2. /\ pass'[p].pc = "prepare" /\ pass'[p].name = r.name
          /\ pass'[p].queue = r.queue /\ pass'[p].listed = r.listed
      BY <1>0, <3>1 DEF Pass
    <3> QED BY <1>s, <1>t, <3>2 DEF Handling
  <2> QED BY <1>t, <2>1, <2>2 DEF NotLanded
<1>i. ASSUME Becomes(p, IdlePass), ~Land(p) PROVE Goal
  <2>1. pass'[p].pc = "idle"
    BY <1>b, <1>i DEF IdlePass
  <2> QED BY <1>i, <2>1 DEF Handling
<1>1. CASE List(p)
  <2>1. pass'[p] = [IdlePass EXCEPT !.pc = "index", !.listed = request]
    BY <1>b, <1>1 DEF List
  <2>2. pass'[p].pc = "index" /\ pass'[p].listed = request
    BY <2>1, IdleShape DEF Pass
  <2> QED BY <1>1, <1>l, <2>2 DEF Handling, List, At
<1>2. CASE ReadIndex(p)
  <2> DEFINE L == {n \in Name : r.listed[n] # None}
  <2>1. PICK Q : pass'[p] = [r EXCEPT !.pc = "void", !.index = record, !.left = L, !.queue = Q]
    BY <1>b, <1>2 DEF ReadIndex
  <2>2. pass'[p].pc = "void" /\ pass'[p].left = L /\ pass'[p].listed = r.listed /\ r.pc = "index"
    BY <1>0, <1>2, <2>1 DEF Pass, ReadIndex, At
  <2>3. Pending(pass'[p]) = L /\ Pending(r) = L
    BY <2>2 DEF Pending
  <2> QED BY <1>l, <2>2, <2>3 DEF Handling
<1>3. CASE VoidRead(p)
  <2>1. PICK n : \/ pass'[p] = [r EXCEPT !.pc = "delete", !.name = n,
                                         !.tip = Len(history), !.evidence = EvidenceNow]
                 \/ pass'[p] = [r EXCEPT !.queue = @ \ {n}]
    BY <1>b, <1>3 DEF VoidRead
  <2>2. r.pc = "void"
    BY <1>3 DEF VoidRead, At
  <2>3. pass'[p].pc \in {"void", "delete"} /\ pass'[p].left = r.left /\ pass'[p].listed = r.listed
    BY <1>0, <2>1, <2>2 DEF Pass
  <2>4. Pending(pass'[p]) = r.left /\ Pending(r) = r.left
    BY <2>2, <2>3 DEF Pending
  <2> QED BY <1>l, <2>2, <2>3, <2>4 DEF Handling
<1>4. CASE VoidDelete(p)
  <2>1. r.pc = "delete"
    BY <1>4 DEF VoidDelete, At
  <2>2. CASE pass'[p] = [r EXCEPT !.pc = "voided", !.left = @ \ {r.name}]
    <3>1. /\ pass'[p].pc = "voided" /\ pass'[p].left = r.left \ {r.name}
          /\ pass'[p].listed = r.listed
      BY <1>0, <2>2 DEF Pass
    <3>2. Pending(pass'[p]) \subseteq r.left /\ Pending(r) = r.left
      BY <2>1, <3>1 DEF Pending
    <3> QED BY <1>l, <2>1, <3>1, <3>2 DEF Handling
  <2>3. CASE NextRequest(p, "void")
    BY <1>v, <2>1, <2>3
  <2> QED BY <1>b, <1>4, <2>2, <2>3 DEF VoidDelete
<1>5. CASE VoidRecord(p)
  BY <1>v, <1>5 DEF VoidRecord, At
<1>6. CASE r.pc = "void" /\ \E d : Becomes(p, [r EXCEPT !.pc = "take", !.queue = r.left, !.inputs = d])
  <2>1. PICK d : pass'[p] = [r EXCEPT !.pc = "take", !.queue = r.left, !.inputs = d]
    BY <1>b, <1>6
  <2>2. pass'[p].pc = "take" /\ pass'[p].queue = r.left /\ pass'[p].listed = r.listed
    BY <1>0, <2>1 DEF Pass
  <2>3. Pending(pass'[p]) = r.left /\ Pending(r) = r.left
    BY <1>6, <2>2 DEF Pending
  <2> QED BY <1>l, <1>6, <2>2, <2>3 DEF Handling
<1>7. CASE Take(p)
  <2>1. PICK n \in First(r.queue) :
          pass'[p] = [r EXCEPT !.pc = "evidence", !.name = n, !.tip = Len(history)]
    BY <1>b, <1>7 DEF Take
  <2>2. /\ pass'[p].pc = "evidence" /\ pass'[p].name = n /\ n \in r.queue
        /\ pass'[p].queue = r.queue /\ pass'[p].listed = r.listed /\ r.pc = "take"
    BY <1>0, <1>7, <2>1 DEF Pass, Take, At, First
  <2>3. Pending(pass'[p]) = r.queue /\ Pending(r) = r.queue
    BY <2>2 DEF Pending
  <2> QED BY <1>l, <2>2, <2>3
<1>8. CASE Fingerprint(p)
  <2>1. r.pc = "evidence"
    BY <1>8 DEF Fingerprint, At
  <2>2. CASE pass'[p] = [r EXCEPT !.pc = "refuse", !.evidence = EvidenceNow]
    <3>1. /\ pass'[p].pc = "refuse" /\ pass'[p].name = r.name
          /\ pass'[p].queue = r.queue /\ pass'[p].listed = r.listed
      BY <1>0, <2>2 DEF Pass
    <3> QED BY <1>l, <1>s, <2>1, <3>1 DEF Handling
  <2>3. CASE NextRequest(p, "take")
    BY <1>n, <2>1, <2>3
  <2> QED BY <1>b, <1>8, <2>2, <2>3 DEF Fingerprint
<1>9. CASE Refuse(p)
  <2>1. r.pc = "refuse"
    BY <1>9 DEF Refuse, At
  <2>2. CASE \E o : Conclude(p, o)
    BY <1>c, <1>l, <2>1, <2>2 DEF Handling
  <2>3. CASE Becomes(p, [r EXCEPT !.pc = "judge"])
    <3>1. pass'[p] = [r EXCEPT !.pc = "judge"]
      BY <1>b, <2>3
    <3>2. /\ pass'[p].pc = "judge" /\ pass'[p].name = r.name
          /\ pass'[p].queue = r.queue /\ pass'[p].listed = r.listed
      BY <1>0, <3>1 DEF Pass
    <3> QED BY <1>l, <1>s, <2>1, <3>2 DEF Handling
  <2> QED BY <1>9, <2>2, <2>3 DEF Refuse, Goto
<1>10. CASE Judge(p)
  <2>1. r.pc = "judge"
    BY <1>10 DEF Judge, At
  <2> DEFINE s == [r EXCEPT !.pc = "final", !.source = SourceOf(Asked(p), r.tip, JudgedUnder(p))]
  <2>2. CASE Becomes(p, s)
    <3>1. s.pc = "final" /\ s.name = r.name /\ s.queue = r.queue /\ s.listed = r.listed
      BY <1>0 DEF Pass
    <3> HIDE DEF s
    <3>2. pass'[p] = s
      BY <1>b, <2>2
    <3> QED BY <1>l, <1>s, <2>1, <3>1, <3>2 DEF Handling
  <2>3. CASE \E o : Conclude(p, o)
    BY <1>c, <1>l, <2>1, <2>3 DEF Handling
  <2> QED BY <1>10, <2>2, <2>3 DEF Judge
<1>11. CASE Final(p)
  <2>1. r.pc = "final"
    BY <1>11 DEF Final, At
  <2>2. CASE Becomes(p, [r EXCEPT !.pc = "prepare", !.tries = 1])
    <3>1. pass'[p] = [r EXCEPT !.pc = "prepare", !.tries = 1]
      BY <1>b, <2>2
    <3>2. /\ pass'[p].pc = "prepare" /\ pass'[p].name = r.name
          /\ pass'[p].queue = r.queue /\ pass'[p].listed = r.listed
      BY <1>0, <3>1 DEF Pass
    <3> QED BY <1>l, <1>s, <2>1, <3>2 DEF Handling
  <2>3. CASE \E o : Conclude(p, o)
    BY <1>c, <1>l, <2>1, <2>3 DEF Handling
  <2> QED BY <1>11, <2>2, <2>3 DEF Final
<1>12. CASE Prepare(p)
  <2>1. r.pc = "prepare"
    BY <1>12 DEF Prepare, At
  <2>2. CASE \E l : Becomes(p, [r EXCEPT !.pc = "apply", !.lease = l])
    <3>1. PICK l : pass'[p] = [r EXCEPT !.pc = "apply", !.lease = l]
      BY <1>b, <2>2
    <3>2. /\ pass'[p].pc = "apply" /\ pass'[p].name = r.name
          /\ pass'[p].queue = r.queue /\ pass'[p].listed = r.listed
      BY <1>0, <3>1 DEF Pass
    <3> QED BY <1>l, <1>s, <2>1, <3>2 DEF Handling
  <2>3. CASE \E o : Conclude(p, o)
    BY <1>c, <1>l, <2>1, <2>3 DEF Handling
  <2> QED BY <1>12, <2>2, <2>3 DEF Prepare
<1>13. CASE Land(p) \/ Answer(p)
  BY <1>n, <1>13 DEF Land, Answer, At
<1>14. CASE Contended(p)
  <2>1. ~Land(p)
    BY <1>14 DEF Contended, Land
  <2> QED BY <1>t, <1>14, <2>1 DEF Contended, At
<1>15. CASE EndPass(p)
  <2>1. ~Land(p)
    BY <1>15, <1>l DEF EndPass, At
  <2> QED BY <1>i, <1>15, <2>1 DEF EndPass
<1>16. CASE Fail(p) \/ Crash(p)
  <2>0. ~Land(p)
    BY <1>16, ConstantsAssumption DEF Fail, Crash, Land, host, TypeOK, StoredOK
  <2>1. CASE r.pc = "void" /\ Becomes(p, [r EXCEPT !.queue = @ \ First(@)])
    <3>1. pass'[p] = [r EXCEPT !.queue = @ \ First(@)]
      BY <1>b, <2>1
    <3>2. pass'[p].pc = "void" /\ pass'[p].left = r.left /\ pass'[p].listed = r.listed
      BY <1>0, <2>1, <3>1 DEF Pass
    <3>3. Pending(pass'[p]) = r.left /\ Pending(r) = r.left
      BY <2>1, <3>2 DEF Pending
    <3> QED BY <2>0, <3>2, <3>3 DEF Handling
  <2>2. CASE r.pc \in {"delete", "voided"} /\ NextRequest(p, "void")
    BY <1>v, <2>2
  <2>3. CASE r.pc \in {"evidence", "answer"} /\ NextRequest(p, "take")
    BY <1>n, <2>3
  <2>4. CASE r.pc \in {"refuse", "judge", "final", "prepare"} /\ Conclude(p, "failed")
    BY <1>c, <2>0, <2>4 DEF Handling
  <2>5. CASE r.pc = "apply" /\ NotLanded(p)
    BY <1>t, <2>0, <2>5
  <2>6. CASE r.pc = "evidence" /\ Becomes(p, [r EXCEPT !.pc = "refuse", !.evidence = EvidenceNow])
    <3>1. pass'[p] = [r EXCEPT !.pc = "refuse", !.evidence = EvidenceNow]
      BY <1>b, <2>6
    <3>2. /\ pass'[p].pc = "refuse" /\ pass'[p].name = r.name
          /\ pass'[p].queue = r.queue /\ pass'[p].listed = r.listed
      BY <1>0, <3>1 DEF Pass
    <3> QED BY <1>s, <2>0, <2>6, <3>2 DEF Handling
  <2>7. CASE r.pc \in {"refuse", "final"} /\ Conclude(p, "refused-not-ready")
    BY <1>c, <2>0, <2>7 DEF Handling
  <2>8. CASE r.pc = "judge" /\ Misjudge(p)
    <3>1. PICK o : pass'[p] = [r EXCEPT !.pc = "answer", !.outcome = o, !.misread = TRUE]
      BY <1>b, <2>8 DEF Misjudge, Misread
    <3>2. /\ pass'[p].pc = "answer" /\ pass'[p].name = r.name
          /\ pass'[p].queue = r.queue /\ pass'[p].listed = r.listed
      BY <1>0, <3>1 DEF Pass
    <3> QED BY <1>s, <2>0, <2>8, <3>2 DEF Handling
  <2> QED BY <1>6, <1>16, <1>i, <2>0, <2>1, <2>2, <2>3, <2>4, <2>5, <2>6, <2>7, <2>8
          DEF Fail, Crash, At
<1>17. CASE ReadInputs(p)
  BY <1>6, <1>17 DEF ReadInputs, At
<1> QED BY <1>1, <1>2, <1>3, <1>4, <1>5, <1>7, <1>8, <1>9, <1>10, <1>11, <1>12, <1>13, <1>14,
           <1>15, <1>16, <1>17 DEF PassStep

\* What is still owed for every request that stands and for every one that a
\* pass may still land.  An approval filed while a landing that will not take
\* the request is prepared is owed beside the one that lands.
OwedOK ==
    /\ \A n \in Name, h \in Heads : owed[n][h] >= 0
    /\ \A n \in Name : request[n] # None => owed[n][request[n]] >= 1
    /\ \A p \in Controller :
          /\ \A n \in Pending(pass[p]) : owed[n][pass[p].listed[n]] >= 1
          /\ pass[p].pc \in Handling => pass[p].name \in pass[p].queue
          /\ pass[p].pc = "apply" /\ ~pass[p].lease.standing /\ Standing(p) =>
                owed[pass[p].name][Asked(p)] >= 2

\* Approvals add to what is owed, and nobody else pays.
LEMMA OwedBeside ==
  ASSUME TypeOK, OwedOK, Elsewhere \/ UNCHANGED vars
  PROVE  OwedOK'
<1>0. /\ request \in [Name -> Heads \cup {None}] /\ None \notin Heads
      /\ owed \in [Name -> [Heads -> Int]]
  BY OwedAt, ConstantsAssumption DEF TypeOK, StoredOK
<1>1. UNCHANGED pass
  BY DEF Elsewhere, Unapprove, Expire, Approve, WriteRecord, Relay, Attest, PushTarget,
         ChangeInputs, vars
<1>2. CASE UNCHANGED owed /\ \A n \in Name : request'[n] \in {request[n], None}
  <2>1. \A p \in Controller : pass[p].pc = "apply" => Asked(p) # None /\ pass[p].name \in Name
    BY <1>0, Mine DEF TypeOK, PassShape, Asked
  <2> QED BY <1>1, <1>2, <2>1 DEF OwedOK, Standing, Asked, Pending
<1>3. ASSUME NEW m \in Name, NEW g \in Heads, Approve(m, g)  PROVE OwedOK'
  <2>1. /\ request[m] # g /\ request' = [request EXCEPT ![m] = g]
        /\ owed' = [owed EXCEPT ![m][g] = @ + 1]
    BY <1>3, OwedOnApproval DEF Approve
  <2>2. \A n \in Name, h \in Heads :
           /\ owed[n][h] \in Int /\ owed[n][h] >= 0
           /\ owed'[n][h] = IF n = m /\ h = g THEN owed[n][h] + 1 ELSE owed[n][h]
    BY <1>0, <2>1 DEF OwedOK
  <2>3. \A n \in Name, h \in Heads : owed'[n][h] >= owed[n][h] /\ owed'[n][h] >= 0
    BY <2>2
  <2>4. \A n \in Name : request'[n] # None => owed'[n][request'[n]] >= 1
    BY <1>0, <2>1, <2>2 DEF OwedOK
  <2>5. ASSUME NEW p \in Controller, NEW n \in Pending(pass[p])
        PROVE  owed'[n][pass[p].listed[n]] >= 1
    BY <2>2, <2>5, PendingListed DEF OwedOK
  <2>6. ASSUME NEW p \in Controller, pass[p].pc = "apply", ~pass[p].lease.standing,
               request'[pass[p].name] = Asked(p)
        PROVE  owed'[pass[p].name][Asked(p)] >= 2
    <3>1. pass[p].name \in Name /\ Asked(p) \in Heads
      BY <2>6, Mine DEF TypeOK, PassShape, Asked
    <3>2. CASE Standing(p)
      BY <2>2, <2>6, <3>1, <3>2 DEF OwedOK
    <3>3. CASE ~Standing(p)
      <4>1. pass[p].name = m /\ Asked(p) = g
        BY <1>0, <2>1, <2>6, <3>1, <3>3 DEF Standing
      <4>2. pass[p].name \in Pending(pass[p])
        BY <2>6 DEF OwedOK, Handling, Pending
      <4>3. owed[m][g] >= 1
        BY <4>1, <4>2 DEF OwedOK, Asked
      <4> QED BY <2>2, <4>1, <4>3
    <3> QED BY <3>2, <3>3
  <2> QED BY <1>1, <2>3, <2>4, <2>5, <2>6 DEF OwedOK, Standing, Asked, Pending
<1>4. ASSUME NEW m \in Name, Unapprove(m)
      PROVE  UNCHANGED owed /\ \A n \in Name : request'[n] \in {request[n], None}
  BY <1>0, <1>4, OwedStays DEF Unapprove
<1>5. ASSUME ~\E n \in Name : Unapprove(n) \/ \E h \in Heads : Approve(n, h)
      PROVE  UNCHANGED owed /\ UNCHANGED request
  <2>1. /\ UNCHANGED <<filed, request>>
        /\ UNCHANGED history \/ history' = Append(history, None)
    BY <1>5 DEF Elsewhere, Expire, WriteRecord, Relay, Attest, PushTarget, ChangeInputs, vars,
                refs, host
  <2> QED BY <2>1, OwedStays
<1> QED BY <1>2, <1>3, <1>4, <1>5

\* How a pass comes to apply a landing, as far as the request goes.
LEMMA Standings ==
  ASSUME TypeOK, NEW p \in Controller, PassStep(p) \/ Fail(p) \/ Crash(p),
         pass'[p].pc = "apply", ~pass'[p].lease.standing
  PROVE  UNCHANGED request /\ ~Standing(p)' /\ ~Land(p)
<1>0. pass[p] \in Pass /\ PassesOK
  BY Mine DEF TypeOK
<1>1. Prepare(p) /\ pass'[p].name = pass[p].name /\ pass'[p].listed = pass[p].listed
  BY Entering DEF Committed
<1>2. ASSUME NEW s, Becomes(p, s) PROVE pass'[p] = s
  BY <1>0, <1>2 DEF PassesOK, Becomes
<1> DEFINE lease == [transfer |-> transfer, landing |-> landing[Asked(p)],
                     memo |-> memo[pass[p].name], standing |-> Standing(p)]
<1>3. CASE Becomes(p, [pass[p] EXCEPT !.pc = "apply", !.lease = lease])
  <2>1. pass'[p].lease = lease
    BY <1>0, <1>2, <1>3 DEF Pass
  <2>2. ~Standing(p)
    BY <2>1
  <2>3. UNCHANGED request
    BY <1>1 DEF Prepare, refs
  <2>4. ~Land(p)
    BY <1>1 DEF Prepare, Land, At
  <2> QED BY <1>1, <2>2, <2>3, <2>4 DEF Standing, Asked
<1>4. CASE Conclude(p, "failed")
  <2>1. pass'[p] = [pass[p] EXCEPT !.pc = "answer", !.outcome = "failed"]
    BY <1>2, <1>4 DEF Conclude
  <2>2. pass'[p].pc = "answer"
    BY <1>0, <2>1 DEF Pass
  <2> QED BY <2>2
<1> QED BY <1>1, <1>3, <1>4 DEF Prepare

\* With one controller, a landing pays for an approval that is owed, and
\* leaves owed what the requests that stand were filed for.
LEMMA OwedByPass ==
  ASSUME \A p, q \in Controller : p = q,
         TypeOK, OwedOK, NEW p \in Controller, PassStep(p) \/ Fail(p) \/ Crash(p)
  PROVE  OwedOK' /\ (Land(p) => owed[pass[p].name][Asked(p)] >= 1)
<1> DEFINE r == pass[p]
<1>0. /\ request \in [Name -> Heads \cup {None}] /\ None \notin Heads
      /\ owed \in [Name -> [Heads -> Int]]
  BY OwedAt, ConstantsAssumption DEF TypeOK, StoredOK
\* What the landing pays for.
<1>1. ASSUME Land(p)
      PROVE  /\ r.name \in Name /\ Asked(p) \in Heads /\ owed[r.name][Asked(p)] >= 1
             /\ r.name \in Pending(r)
             /\ owed' = [owed EXCEPT ![r.name][Asked(p)] = @ - 1]
  <2>1. r.pc = "apply" /\ r.name \in Name /\ Asked(p) \in Heads
    BY <1>1, Mine DEF TypeOK, Land, At, PassShape, Asked
  <2>2. r.name \in Pending(r)
    BY <2>1 DEF OwedOK, Handling, Pending
  <2> QED BY <1>1, <2>1, <2>2, OwedOnLanding DEF OwedOK, Asked
<1>2. ASSUME ~Land(p)
      PROVE  UNCHANGED owed /\ \A n \in Name : request'[n] \in {request[n], None}
  <2>1. UNCHANGED <<history, filed>>
    BY <1>2, OnlyLandings DEF PassStep, List, ReadIndex, VoidRead, VoidDelete, VoidRecord,
         ReadInputs, Take, Fingerprint, Refuse, Judge, Final, Prepare, Contended, Answer,
         EndPass, Fail, Crash, host
  <2>2. \A n \in Name : request'[n] \in {request[n], None}
    <3>1. UNCHANGED request \/ request' = [request EXCEPT ![r.name] = None]
      BY <1>2 DEF PassStep, List, ReadIndex, VoidRead, VoidDelete, VoidRecord, ReadInputs,
           Take, Fingerprint, Refuse, Judge, Final, Prepare, Contended, Answer, EndPass, Fail,
           Crash, refs
    <3> QED BY <1>0, <3>1
  <2> QED BY <2>1, <2>2, OwedStays
<1>3. \A n \in Name, h \in Heads :
         /\ owed[n][h] \in Int /\ owed[n][h] >= 0 /\ owed'[n][h] >= 0
         /\ \/ owed'[n][h] = owed[n][h]
            \/ Land(p) /\ n = r.name /\ h = Asked(p) /\ owed'[n][h] = owed[n][h] - 1
  BY <1>0, <1>1, <1>2 DEF OwedOK
<1>4. ASSUME NEW n \in Name, request'[n] # None
      PROVE  owed'[n][request'[n]] >= 1
  <2>1. CASE ~Land(p)
    BY <1>2, <1>4, <2>1 DEF OwedOK
  <2>2. CASE Land(p)
    <3>1. /\ request' = IF r.lease.standing THEN [request EXCEPT ![r.name] = None] ELSE request
          /\ r.pc = "apply"
      BY <2>2 DEF Land, At
    <3>2. request'[n] = request[n] /\ request[n] \in Heads
      BY <1>0, <1>4, <3>1
    <3>3. owed[n][request[n]] >= 1
      BY <3>2, <1>4 DEF OwedOK
    <3>4. CASE n = r.name /\ request[n] = Asked(p)
      <4>1. ~r.lease.standing
        BY <1>0, <1>4, <3>1, <3>4
      <4>2. owed[n][request[n]] >= 2
        BY <3>1, <3>4, <4>1 DEF OwedOK, Standing
      <4> QED BY <1>3, <3>2, <4>2
    <3>5. CASE ~(n = r.name /\ request[n] = Asked(p))
      BY <1>3, <3>2, <3>3, <3>5
    <3> QED BY <3>4, <3>5
  <2> QED BY <2>1, <2>2
<1>5. ASSUME NEW n \in Pending(pass'[p])
      PROVE  owed'[n][pass'[p].listed[n]] >= 1
  <2>1. CASE pass'[p].pc = "index" /\ pass'[p].listed = request
    <3>1. n \in Name /\ request[n] # None
      BY <1>5, <2>1 DEF Pending
    <3>2. Land(p) => n # r.name
      BY <1>5, Narrows
    <3>3. owed[n][request[n]] >= 1 /\ request[n] \in Heads
      BY <1>0, <3>1 DEF OwedOK
    <3> QED BY <1>3, <2>1, <3>1, <3>2, <3>3
  <2>2. CASE pass'[p].pc = "idle"
    BY <1>5, <2>2 DEF Pending
  <2>3. CASE pass'[p].listed = r.listed /\ Pending(pass'[p]) \subseteq Pending(r)
    <3>1. n \in Name /\ r.listed[n] \in Heads /\ owed[n][r.listed[n]] >= 1
      BY <1>5, <2>3, PendingListed DEF OwedOK
    <3>2. Land(p) => n # r.name
      BY <1>5, Narrows
    <3> QED BY <1>3, <2>3, <3>1, <3>2
  <2> QED BY <2>1, <2>2, <2>3, Narrows
<1>6. pass'[p].pc \in Handling => pass'[p].name \in pass'[p].queue
  BY Narrows DEF OwedOK
<1>7. ASSUME pass'[p].pc = "apply", ~pass'[p].lease.standing, Standing(p)'
      PROVE  FALSE
  BY <1>7, Standings
<1>8. \A q \in Controller : q = p
  OBVIOUS
<1>9. OwedOK'
  BY <1>3, <1>4, <1>5, <1>6, <1>7, <1>8 DEF OwedOK
<1> QED BY <1>1, <1>9

\* What the approvers were promised at first is owed.
LEMMA OwedAtFirst ==
  ASSUME Init
  PROVE  Promise!Init /\ OwedOK
<1>0. TypeOK /\ None \notin Heads
  BY InitTypeOK, ConstantsAssumption
<1>1. ASSUME NEW n \in Name, NEW h \in Heads
      PROVE  owed[n][h] = IF request[n] = h THEN 1 ELSE 0
  <2>1. {i \in 1..Len(history) : history[i] = [name |-> n, head |-> h]} = {}
    BY DEF Init
  <2>2. Landed(n, h) = 0
    BY <2>1, FS_EmptySet DEF Landed
  <2>3. filed[n][h] = IF request[n] = h THEN 1 ELSE 0
    BY DEF Init
  <2> QED BY <1>0, <2>2, <2>3, OwedAt
<1>2. owed = [n \in Name |-> [h \in Heads |-> IF request[n] = h THEN 1 ELSE 0]]
  BY <1>1 DEF owed
<1>3. request \in [Name -> Heads \cup {None}] /\ history = <<>>
      /\ \A p \in Controller : pass[p].pc = "idle"
  BY DEF Init, IdlePass
<1>4. OwedOK
  BY <1>0, <1>1, <1>3 DEF OwedOK, Pending, Handling
<1> QED BY <1>2, <1>3, <1>4 DEF Promise!Init

\* Every step of the system is one the promise allows, or none of its
\* business.
LEMMA StepsKeepThePromise ==
  ASSUME \A p, q \in Controller : p = q, TypeOK, OwedOK, [Next]_vars
  PROVE  [Promise!Next]_Promise!vars
<1>0. request \in [Name -> Heads \cup {None}] /\ None \notin Heads
  BY ConstantsAssumption DEF TypeOK, StoredOK
<1>1. ASSUME NEW n \in Name, NEW h \in Heads, Approve(n, h)
      PROVE  Promise!Approve(n, h)
  BY <1>1, OwedOnApproval DEF Approve, Promise!Approve
<1>2. ASSUME NEW n \in Name, Unapprove(n)
      PROVE  Promise!Remove(n)
  BY <1>2, OwedStays DEF Unapprove, Promise!Remove
<1>3. ASSUME PushTarget
      PROVE  Promise!Push
  BY <1>3, OwedStays DEF PushTarget, Promise!Push
\* A landing takes the request if it found it standing, and the transaction
\* compared it.
<1>4. ASSUME NEW p \in Controller, Land(p)
      PROVE  \E n \in Name, h \in Heads : Promise!Land(n, h)
  <2> DEFINE n == pass[p].name
             h == Asked(p)
  <2>1. n \in Name /\ h \in Heads /\ history' = Append(history, [name |-> n, head |-> h])
    BY <1>4, LandEntry, Mine DEF TypeOK, Land, At, PassShape
  <2>2. owed[n][h] > 0 /\ owed' = [owed EXCEPT ![n][h] = @ - 1]
    <3>1. owed[n][h] >= 1
      BY <1>4, OwedByPass DEF PassStep
    <3>2. owed[n][h] \in Int
      BY <2>1, OwedAt
    <3> QED BY <1>4, <3>1, <3>2, OwedOnLanding
  <2>3. \/ request[n] = h /\ request' = [request EXCEPT ![n] = None]
        \/ UNCHANGED request
    BY <1>4 DEF Land, Matches
  <2> QED BY <2>1, <2>2, <2>3 DEF Promise!Land
\* A voiding takes the request the pass listed.
<1>5. ASSUME NEW p \in Controller, VoidDelete(p)
      PROVE  UNCHANGED Promise!vars \/ \E n \in Name : Promise!Remove(n)
  <2>1. UNCHANGED <<history, filed>>
    BY <1>5 DEF VoidDelete, host
  <2>2. pass[p].name \in Name /\ Asked(p) # None
    BY <1>0, <1>5, Mine DEF TypeOK, VoidDelete, At, PassShape, Asked
  <2>3. \/ UNCHANGED request
        \/ /\ request[pass[p].name] # None
           /\ request' = [request EXCEPT ![pass[p].name] = None]
    BY <1>5, <2>2 DEF VoidDelete
  <2> QED BY <2>1, <2>2, <2>3, OwedStays DEF Promise!vars, Promise!Remove
<1>6. ASSUME NEW p \in Controller, PassStep(p) \/ Fail(p) \/ Crash(p), ~Land(p), ~VoidDelete(p)
      PROVE  UNCHANGED Promise!vars
  <2>1. UNCHANGED <<history, request, filed>>
    BY <1>6 DEF PassStep, List, ReadIndex, VoidRead, VoidRecord, ReadInputs, Take, Fingerprint,
         Refuse, Judge, Final, Prepare, Contended, Answer, EndPass, Fail, Crash, refs, host
  <2> QED BY <2>1, OwedStays DEF Promise!vars
<1>7. ASSUME \/ \E n \in Name : Expire(n)
             \/ \E c \in Change : WriteRecord(c)
             \/ \E t \in Tree : Relay(t) \/ \E s \in Signer : Attest(t, s)
             \/ ChangeInputs
             \/ UNCHANGED vars
      PROVE  UNCHANGED Promise!vars
  <2>1. UNCHANGED <<history, request, filed>>
    BY <1>7 DEF Expire, WriteRecord, Relay, Attest, ChangeInputs, vars, refs, host
  <2> QED BY <2>1, OwedStays DEF Promise!vars
<1>8. \/ \E n \in Name : Unapprove(n) \/ \E h \in Heads : Approve(n, h)
      \/ PushTarget
      \/ \E p \in Controller : PassStep(p) \/ Fail(p) \/ Crash(p)
      \/ \E n \in Name : Expire(n)
      \/ \E c \in Change : WriteRecord(c)
      \/ \E t \in Tree : Relay(t) \/ \E s \in Signer : Attest(t, s)
      \/ ChangeInputs
      \/ UNCHANGED vars
  BY DEF Next, Elsewhere
<1> QED BY <1>1, <1>2, <1>3, <1>4, <1>5, <1>6, <1>7, <1>8 DEF Promise!Next

\* Where one controller serves the repository (ownRepo), the target gains
\* only pushes and landings that were approved, each landing spends one
\* approval, and no landing takes a request it does not serve
\* (prepareLanding, apply).
THEOREM LandingsAreApproved ==
  ASSUME \A p, q \in Controller : p = q
  PROVE  Spec => OneLandingPerApproval
<1>1. Init => Promise!Init /\ OwedOK
  BY OwedAtFirst
<1>2. TypeOK /\ OwedOK /\ [Next]_vars => OwedOK' /\ [Promise!Next]_Promise!vars
  BY OwedBeside, OwedByPass, StepsKeepThePromise DEF Next
<1> QED BY <1>1, <1>2, Typing, PTL DEF Spec, OneLandingPerApproval, Promise!Spec
=============================================================================
