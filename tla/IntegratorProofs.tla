-------------------------- MODULE IntegratorProofs --------------------------
(***************************************************************************)
(* Theorems about the integrator, for any number of controllers, names,    *)
(* heads, changes and signers.                                             *)
(***************************************************************************)
EXTENDS Integrator, TLAPS

USE DEF Inputs, Delta, Tree

\* A controller between passes has a typed record (reconcile has returned).
LEMMA IdleShape == IdlePass \in Pass /\ PassShape(IdlePass)
  BY ConstantsAssumption DEF IdlePass, Pass, PassShape, Step, Source

\* A repository before its first pass has the types (a hosted repository as created).
LEMMA InitTypeOK == Init => TypeOK
<1> SUFFICES ASSUME Init PROVE TypeOK
  OBVIOUS
<1>1. MaxMoves \in 0..MaxMoves /\ MaxFaults \in 0..MaxFaults
  BY ConstantsAssumption
<1>2. StoredOK
  <2>1. filed \in [Name -> [Heads -> Nat]]
    BY DEF Init
  <2>2. record \in [Change -> Record \cup {None}]
    BY DEF Init
  <2>3. history \in Seq(Entry)
    BY DEF Init
  <2>4. transfer \in [Tree -> SUBSET Note]
    BY DEF Init
  <2>5. landing \in [Heads -> Nat]
    BY DEF Init
  <2>6. memo \in [Name -> Memo \cup {None}] /\ bound \in [Name -> Bound \cup {None}]
    BY DEF Init
  <2>7. quiet \in [Controller -> SUBSET Change]
    BY DEF Init
  <2>8. /\ request \in [Name -> Heads \cup {None}] /\ attested \in [Tree -> SUBSET Signer]
        /\ expired \subseteq Name /\ inputs \in Inputs
        /\ moves = MaxMoves /\ faults = MaxFaults
    BY DEF Init
  <2> QED BY ONLY <1>1, <2>1, <2>2, <2>3, <2>4, <2>5, <2>6, <2>7, <2>8 DEF StoredOK
<1>3. PassesOK
  BY IdleShape DEF Init, PassesOK
<1> QED BY <1>2, <1>3 DEF TypeOK

\* A controller that takes a well-formed step of its own leaves every pass
\* well formed.
LEMMA OnePass ==
    ASSUME NEW p \in Controller, NEW s \in Pass, PassShape(s), PassesOK, Becomes(p, s)
    PROVE  PassesOK'
  BY DEF PassesOK, Becomes

\* The pass record of one controller, out of the typed passes of all.
LEMMA Mine == ASSUME PassesOK, NEW p \in Controller
    PROVE  pass[p] \in Pass /\ PassShape(pass[p])
  BY DEF PassesOK

\* The reads of a pass have the types their fields take.
LEMMA Reads == ASSUME StoredOK
    PROVE  /\ Len(history) \in Nat
           /\ EvidenceNow \in Evidence
           /\ request \in [Name -> Heads \cup {None}]
           /\ record \in [Change -> Record \cup {None}]
           /\ inputs \in Inputs
<1>1. history \in Seq(Entry) /\ attested \in [Tree -> SUBSET Signer]
      /\ transfer \in [Tree -> SUBSET Note]
  BY DEF StoredOK
<1>2. EvidenceNow \in Evidence
  BY <1>1 DEF EvidenceNow, Evidence
<1>3. Len(history) \in Nat
  BY <1>1
<1> QED BY <1>2, <1>3 DEF StoredOK

\* The next request to take is one of those listed.
LEMMA FirstIsListed == ASSUME NEW r \in Pass, PassShape(r), NEW n \in First(r.queue)
    PROVE  n \in Name /\ r.listed[n] \in Heads /\ n \in r.queue
<1>1. n \in r.queue
  BY DEF First
<1> QED BY <1>1 DEF Pass, PassShape

-----------------------------------------------------------------------------
(***************************************************************************)
(* Each record a pass may become is well formed.                           *)
(***************************************************************************)

\* Reading the records (readRecords, ReadIndex) leaves a typed pass, whose
\* requests to void and to judge are among those it listed.
LEMMA ToVoid ==
    ASSUME NEW r \in Pass, PassShape(r),
           NEW i \in [Change -> Record \cup {None}], NEW S \in SUBSET Name, NEW Q \in SUBSET S,
           \A n \in S : r.listed[n] \in Heads
    PROVE  LET s == [r EXCEPT !.pc = "void", !.index = i, !.left = S, !.queue = Q] IN s \in Pass /\ PassShape(s)
<1> DEFINE s == [r EXCEPT !.pc = "void", !.index = i, !.left = S, !.queue = Q]
<1>1. s \in Pass
  BY ConstantsAssumption DEF Pass, Step, Source
<1>2. TRUE
  OBVIOUS
<1>3. s.pc = "void" /\ s.listed = r.listed /\ s.queue = Q /\ s.left = S
  BY DEF Pass
<1>4. PassShape(s)
  BY <1>1, <1>2, <1>3 DEF PassShape, Pass
<1> QED BY <1>1, <1>4

\* A request void() goes on to delete (VoidRead) leaves a typed pass, which
\* has the request, the tip and the evidence it was read with.
LEMMA ToDelete ==
    ASSUME NEW r \in Pass, PassShape(r),
           NEW n \in Name, r.listed[n] \in Heads, NEW k \in Nat, NEW e \in Evidence
    PROVE  LET s == [r EXCEPT !.pc = "delete", !.name = n, !.tip = k, !.evidence = e] IN s \in Pass /\ PassShape(s)
<1> DEFINE s == [r EXCEPT !.pc = "delete", !.name = n, !.tip = k, !.evidence = e]
<1>1. s \in Pass
  BY ConstantsAssumption DEF Pass, Step, Source
<1>2. \A m \in r.queue \cup r.left : r.listed[m] \in Heads
  BY DEF PassShape, Digest
<1>3. s.pc = "delete" /\ s.name = n /\ s.evidence = e /\ s.listed = r.listed /\ s.queue = r.queue /\ s.left = r.left
  BY DEF Pass
<1>4. PassShape(s)
  BY <1>1, <1>2, <1>3 DEF PassShape, Pass
<1> QED BY <1>1, <1>4

\* A request that void() keeps is taken out of the queue, and nothing else moves.
LEMMA ToKeep ==
    ASSUME NEW r \in Pass, PassShape(r), NEW S
    PROVE  LET s == [r EXCEPT !.queue = @ \ S] IN s \in Pass /\ PassShape(s)
  BY DEF Pass, PassShape, Step

\* A request void() has deleted (VoidDelete) leaves a typed pass, with that
\* request left out of those to judge.
LEMMA ToVoided ==
    ASSUME NEW r \in Pass, PassShape(r), r.pc = "delete", NEW n
    PROVE  LET s == [r EXCEPT !.pc = "voided", !.left = @ \ {n}] IN s \in Pass /\ PassShape(s)
<1> DEFINE s == [r EXCEPT !.pc = "voided", !.left = @ \ {n}]
<1>1. s \in Pass
  BY ConstantsAssumption DEF Pass, Step, Source
<1>2. r.name \in Name /\ r.listed[r.name] \in Heads /\ r.evidence \in Evidence
      /\ \A m \in r.queue \cup r.left : r.listed[m] \in Heads
  BY DEF PassShape, Digest
<1>3. /\ s.pc = "voided" /\ s.name = r.name /\ s.evidence = r.evidence
      /\ s.listed = r.listed /\ s.queue = r.queue /\ s.left = r.left \ {n}
  BY DEF Pass
<1>4. PassShape(s)
  BY <1>1, <1>2, <1>3 DEF PassShape, Pass
<1> QED BY <1>1, <1>4

\* Inputs read or not (inputState, ReadInputs) leave a typed pass, which goes
\* over the requests that are left.
LEMMA ToTake ==
    ASSUME NEW r \in Pass, PassShape(r), NEW d \in Digest
    PROVE  LET s == [r EXCEPT !.pc = "take", !.queue = r.left, !.inputs = d] IN s \in Pass /\ PassShape(s)
<1> DEFINE s == [r EXCEPT !.pc = "take", !.queue = r.left, !.inputs = d]
<1>1. s \in Pass
  BY ConstantsAssumption DEF Pass, Step, Source
<1>2. \A m \in r.queue \cup r.left : r.listed[m] \in Heads
  BY DEF PassShape, Digest
<1>3. s.pc = "take" /\ s.inputs = d /\ s.listed = r.listed /\ s.queue = r.left /\ s.left = r.left
  BY DEF Pass
<1>4. PassShape(s)
  BY <1>1, <1>2, <1>3 DEF PassShape, Pass
<1> QED BY <1>1, <1>4

\* A request taken up by handle() (Take) leaves a typed pass, which has its
\* name and its target's tip.
LEMMA ToEvidence ==
    ASSUME NEW r \in Pass, PassShape(r), r.pc = "take",
           NEW n \in Name, r.listed[n] \in Heads, NEW k \in Nat
    PROVE  LET s == [r EXCEPT !.pc = "evidence", !.name = n, !.tip = k] IN s \in Pass /\ PassShape(s)
<1> DEFINE s == [r EXCEPT !.pc = "evidence", !.name = n, !.tip = k]
<1>1. s \in Pass
  BY ConstantsAssumption DEF Pass, Step, Source
<1>2. r.inputs \in Digest /\ \A m \in r.queue \cup r.left : r.listed[m] \in Heads
  BY DEF PassShape, Digest
<1>3. s.pc = "evidence" /\ s.name = n /\ s.inputs = r.inputs /\ s.listed = r.listed /\ s.queue = r.queue /\ s.left = r.left
  BY DEF Pass
<1>4. PassShape(s)
  BY <1>1, <1>2, <1>3 DEF PassShape, Pass
<1> QED BY <1>1, <1>4

\* An answer that does not stand (handle, Fingerprint) leaves a typed pass,
\* which has the evidence it was compared with.
LEMMA ToRefuse ==
    ASSUME NEW r \in Pass, PassShape(r), r.pc = "evidence", NEW e \in Evidence
    PROVE  LET s == [r EXCEPT !.pc = "refuse", !.evidence = e] IN s \in Pass /\ PassShape(s)
<1> DEFINE s == [r EXCEPT !.pc = "refuse", !.evidence = e]
<1>1. s \in Pass
  BY ConstantsAssumption DEF Pass, Step, Source
<1>2. r.name \in Name /\ r.listed[r.name] \in Heads /\ r.inputs \in Digest
      /\ \A m \in r.queue \cup r.left : r.listed[m] \in Heads
  BY DEF PassShape, Digest
<1>3. /\ s.pc = "refuse" /\ s.name = r.name /\ s.evidence = e /\ s.inputs = r.inputs
      /\ s.listed = r.listed /\ s.queue = r.queue /\ s.left = r.left
  BY DEF Pass
<1>4. PassShape(s)
  BY <1>1, <1>2, <1>3 DEF PassShape, Pass
<1> QED BY <1>1, <1>4

\* A request no rule refuses (refuse, Refuse) leaves a typed pass, whose inputs
\* all read.
LEMMA ToJudge ==
    ASSUME NEW r \in Pass, PassShape(r), r.pc = "refuse", r.inputs # Unread
    PROVE  LET s == [r EXCEPT !.pc = "judge"] IN s \in Pass /\ PassShape(s)
<1> DEFINE s == [r EXCEPT !.pc = "judge"]
<1>1. s \in Pass
  BY ConstantsAssumption DEF Pass, Step, Source
<1>2. r.name \in Name /\ r.listed[r.name] \in Heads /\ r.evidence \in Evidence
      /\ r.inputs \in Inputs /\ \A m \in r.queue \cup r.left : r.listed[m] \in Heads
  BY DEF PassShape, Digest
<1>3. /\ s.pc = "judge" /\ s.name = r.name /\ s.evidence = r.evidence /\ s.inputs = r.inputs
      /\ s.listed = r.listed /\ s.queue = r.queue /\ s.left = r.left
  BY DEF Pass
<1>4. PassShape(s)
  BY <1>1, <1>2, <1>3 DEF PassShape, Pass
<1> QED BY <1>1, <1>4

\* A verdict to land (act, Judge) leaves a typed pass, which has what the
\* landing stands on.
LEMMA ToFinal ==
    ASSUME NEW r \in Pass, PassShape(r), r.pc = "judge", NEW source \in Source
    PROVE  LET s == [r EXCEPT !.pc = "final", !.source = source] IN s \in Pass /\ PassShape(s)
<1> DEFINE s == [r EXCEPT !.pc = "final", !.source = source]
<1>1. s \in Pass
  BY ConstantsAssumption DEF Pass, Step, Source
<1>2. r.name \in Name /\ r.listed[r.name] \in Heads /\ r.evidence \in Evidence
      /\ r.inputs \in Inputs /\ \A m \in r.queue \cup r.left : r.listed[m] \in Heads
  BY DEF PassShape, Digest
<1>3. /\ s.pc = "final" /\ s.name = r.name /\ s.evidence = r.evidence /\ s.inputs = r.inputs
      /\ s.listed = r.listed /\ s.queue = r.queue /\ s.left = r.left
  BY DEF Pass
<1>4. PassShape(s)
  BY <1>1, <1>2, <1>3 DEF PassShape, Pass
<1> QED BY <1>1, <1>4

\* A landing no record holds back (finalRefusal, Final) leaves a typed pass on
\* its first try.
LEMMA ToPrepare ==
    ASSUME NEW r \in Pass, PassShape(r), r.pc = "final"
    PROVE  LET s == [r EXCEPT !.pc = "prepare", !.tries = 1] IN s \in Pass /\ PassShape(s)
<1> DEFINE s == [r EXCEPT !.pc = "prepare", !.tries = 1]
<1>0. 1 \in 0..LandingTries
  BY ConstantsAssumption
<1>1. s \in Pass
  BY <1>0 DEF Pass, Step
<1>2. r.name \in Name /\ r.listed[r.name] \in Heads /\ r.evidence \in Evidence
      /\ r.inputs \in Inputs /\ \A m \in r.queue \cup r.left : r.listed[m] \in Heads
  BY DEF PassShape, Digest
<1>3. /\ s.pc = "prepare" /\ s.name = r.name /\ s.evidence = r.evidence /\ s.inputs = r.inputs
      /\ s.listed = r.listed /\ s.queue = r.queue /\ s.left = r.left
  BY DEF Pass
<1>4. PassShape(s)
  BY <1>1, <1>2, <1>3 DEF PassShape, Pass
<1> QED BY <1>1, <1>4

\* A landing the hook can read back (prepareLanding, Prepare) leaves a typed
\* pass, which has the values its transaction compares.
LEMMA ToApply ==
    ASSUME NEW r \in Pass, PassShape(r), r.pc = "prepare", NEW lease \in Lease
    PROVE  LET s == [r EXCEPT !.pc = "apply", !.lease = lease] IN s \in Pass /\ PassShape(s)
<1> DEFINE s == [r EXCEPT !.pc = "apply", !.lease = lease]
<1>1. s \in Pass
  BY ConstantsAssumption DEF Pass, Step, Source
<1>2. r.name \in Name /\ r.listed[r.name] \in Heads /\ r.evidence \in Evidence
      /\ r.inputs \in Inputs /\ \A m \in r.queue \cup r.left : r.listed[m] \in Heads
  BY DEF PassShape, Digest
<1>3. /\ s.pc = "apply" /\ s.lease = lease /\ s.name = r.name /\ s.evidence = r.evidence /\ s.inputs = r.inputs
      /\ s.listed = r.listed /\ s.queue = r.queue /\ s.left = r.left
  BY DEF Pass
<1>4. PassShape(s)
  BY <1>1, <1>2, <1>3 DEF PassShape, Pass
<1> QED BY <1>1, <1>4

\* A transaction a record ref failed, to be tried again.
LEMMA ToRetry ==
    ASSUME NEW r \in Pass, PassShape(r), r.pc = "apply", r.tries # LandingTries
    PROVE  LET s == [r EXCEPT !.pc = "prepare", !.lease = None, !.tries = @ + 1] IN s \in Pass /\ PassShape(s)
<1> DEFINE s == [r EXCEPT !.pc = "prepare", !.lease = None, !.tries = @ + 1]
<1>a. r.tries \in 0..LandingTries
  BY DEF Pass
<1>0. r.tries + 1 \in 0..LandingTries
  BY <1>a, ConstantsAssumption
<1>1. s \in Pass
  BY <1>0 DEF Pass, Step
<1>2. r.name \in Name /\ r.listed[r.name] \in Heads /\ r.evidence \in Evidence
      /\ r.inputs \in Inputs /\ \A m \in r.queue \cup r.left : r.listed[m] \in Heads
  BY DEF PassShape, Digest
<1>3. /\ s.pc = "prepare" /\ s.name = r.name /\ s.evidence = r.evidence /\ s.inputs = r.inputs
      /\ s.listed = r.listed /\ s.queue = r.queue /\ s.left = r.left
  BY DEF Pass
<1>4. PassShape(s)
  BY <1>1, <1>2, <1>3 DEF PassShape, Pass
<1> QED BY <1>1, <1>4

\* A request that has its outcome (handle, Conclude) leaves a typed pass.
LEMMA ToAnswer ==
    ASSUME NEW r \in Pass, PassShape(r), NEW o \in Outcome,
           r.pc \in {"refuse", "judge", "final", "prepare", "apply"}
    PROVE  LET s == [r EXCEPT !.pc = "answer", !.outcome = o] IN s \in Pass /\ PassShape(s)
<1> DEFINE s == [r EXCEPT !.pc = "answer", !.outcome = o]
<1>1. s \in Pass
  BY ConstantsAssumption DEF Pass, Step, Source
<1>2. r.name \in Name /\ r.listed[r.name] \in Heads /\ r.evidence \in Evidence
      /\ r.inputs \in Digest /\ \A m \in r.queue \cup r.left : r.listed[m] \in Heads
  BY DEF PassShape, Digest
<1>3. /\ s.pc = "answer" /\ s.outcome = o /\ s.name = r.name /\ s.evidence = r.evidence /\ s.inputs = r.inputs
      /\ s.listed = r.listed /\ s.queue = r.queue /\ s.left = r.left
  BY DEF Pass
<1>4. PassShape(s)
  BY <1>1, <1>2, <1>3 DEF PassShape, Pass
<1> QED BY <1>1, <1>4

\* A verdict git or attest failed under (act, Misread) leaves a typed pass.
LEMMA ToMisread ==
    ASSUME NEW r \in Pass, PassShape(r), NEW o \in Outcome, r.pc = "judge"
    PROVE  LET s == [r EXCEPT !.pc = "answer", !.outcome = o, !.misread = TRUE]
           IN  s \in Pass /\ PassShape(s)
<1> DEFINE s == [r EXCEPT !.pc = "answer", !.outcome = o, !.misread = TRUE]
<1>1. s \in Pass
  BY ConstantsAssumption DEF Pass, Step, Source
<1>2. r.name \in Name /\ r.listed[r.name] \in Heads /\ r.evidence \in Evidence
      /\ r.inputs \in Digest /\ \A m \in r.queue \cup r.left : r.listed[m] \in Heads
  BY DEF PassShape, Digest
<1>3. /\ s.pc = "answer" /\ s.outcome = o /\ s.name = r.name /\ s.evidence = r.evidence /\ s.inputs = r.inputs
      /\ s.listed = r.listed /\ s.queue = r.queue /\ s.left = r.left
  BY DEF Pass
<1>4. PassShape(s)
  BY <1>1, <1>2, <1>3 DEF PassShape, Pass
<1> QED BY <1>1, <1>4

\* A request that is done with (reconcile's loop, NextRequest) leaves a typed
\* pass with one request fewer to take.
LEMMA ToNext ==
    ASSUME NEW r \in Pass, PassShape(r), NEW step \in {"void", "take"},
           step = "take" => r.inputs \in Digest
    PROVE  LET s == [r EXCEPT !.pc = step, !.queue = @ \ {r.name}, !.name = None,
                           !.tip = 0, !.evidence = None, !.source = "none",
                           !.outcome = None, !.misread = FALSE, !.lease = None, !.tries = 0] IN s \in Pass /\ PassShape(s)
<1> DEFINE s == [r EXCEPT !.pc = step, !.queue = @ \ {r.name}, !.name = None,
                           !.tip = 0, !.evidence = None, !.source = "none",
                           !.outcome = None, !.misread = FALSE, !.lease = None, !.tries = 0]
<1>a. 0 \in 0..LandingTries /\ 0 \in Nat
  BY ConstantsAssumption
<1>b. "none" \in Source /\ step \in Step
  BY DEF Source, Step
<1>1. s \in Pass
  BY <1>a, <1>b DEF Pass
<1>2. \A m \in r.queue \cup r.left : r.listed[m] \in Heads
  BY DEF PassShape, Digest
<1>3. /\ s.pc = step /\ s.inputs = r.inputs
      /\ s.listed = r.listed /\ s.queue = r.queue \ {r.name} /\ s.left = r.left
  BY DEF Pass
<1>4. \A m \in s.queue \cup s.left : s.listed[m] \in Heads
  BY <1>2, <1>3
<1>5. PassShape(s)
  BY <1>1, <1>3, <1>4 DEF PassShape, Pass
<1> QED BY <1>1, <1>5

-----------------------------------------------------------------------------
(***************************************************************************)
(* Every step keeps the passes well formed.                                *)
(***************************************************************************)

\* A request that has its outcome leaves a typed pass behind (writeAnswer is next).
LEMMA ConcludeShape ==
    ASSUME PassesOK, NEW p \in Controller, NEW o \in Outcome, Conclude(p, o),
           pass[p].pc \in {"refuse", "judge", "final", "prepare", "apply"}
    PROVE  PassesOK'
  BY Mine, ToAnswer, OnePass DEF Conclude

\* A request that is done with leaves a typed pass behind (the loop of reconcile).
LEMMA NextRequestShape ==
    ASSUME PassesOK, NEW p \in Controller, NEW step \in {"void", "take"},
           step = "take" => pass[p].inputs \in Digest, NextRequest(p, step)
    PROVE  PassesOK'
<1> DEFINE s == [pass[p] EXCEPT !.pc = step, !.queue = @ \ {pass[p].name}, !.name = None,
                           !.tip = 0, !.evidence = None, !.source = "none",
                           !.outcome = None, !.misread = FALSE, !.lease = None, !.tries = 0]
<1>1. s \in Pass /\ PassShape(s)
  BY Mine, ToNext
<1>2. Becomes(p, s)
  BY DEF NextRequest
<1> QED BY <1>1, <1>2, OnePass

\* A transaction that failed leaves a typed pass behind (the retries of land).
LEMMA NotLandedShape ==
    ASSUME PassesOK, NEW p \in Controller, pass[p].pc = "apply", NotLanded(p)
    PROVE  PassesOK'
<1>1. CASE Conclude(p, "failed")
  BY <1>1, ConcludeShape DEF Outcome
<1>2. CASE /\ pass[p].tries # LandingTries
           /\ Becomes(p, [pass[p] EXCEPT !.pc = "prepare", !.lease = None, !.tries = @ + 1])
  BY <1>2, Mine, ToRetry, OnePass
<1> QED BY <1>1, <1>2 DEF NotLanded

\* Every step of a pass leaves a typed pass behind (reconcile and what it calls).
LEMMA PassStepShape ==
    ASSUME TypeOK, NEW p \in Controller, PassStep(p) \/ Fail(p) \/ Crash(p)
    PROVE  PassesOK'
<1> DEFINE r == pass[p]
<1>0. StoredOK /\ PassesOK
  BY DEF TypeOK
<1>m. r \in Pass /\ PassShape(r)
  BY <1>0, Mine
<1>r. /\ Len(history) \in Nat /\ EvidenceNow \in Evidence
      /\ request \in [Name -> Heads \cup {None}]
      /\ record \in [Change -> Record \cup {None}]
      /\ inputs \in Inputs /\ inputs \in Digest /\ Unread \in Digest
  BY <1>0, Reads DEF Digest
<1>1. ASSUME List(p) PROVE PassesOK'
  <2> DEFINE s == [IdlePass EXCEPT !.pc = "index", !.listed = request]
  <2>1. s \in Pass
    BY <1>r, IdleShape DEF Pass, Step
  <2>2. s.pc = "index" /\ s.queue = {} /\ s.left = {}
    BY IdleShape DEF IdlePass, Pass
  <2>3. PassShape(s)
    BY <2>1, <2>2 DEF PassShape
  <2>4. Becomes(p, s)
    BY <1>1 DEF List
  <2> QED BY <1>0, <2>1, <2>3, <2>4, OnePass
<1>2. ASSUME ReadIndex(p) PROVE PassesOK'
  <2> DEFINE pending == {n \in Name : r.listed[n] # None}
             Q == {n \in pending : Voiding(record, n, r.listed[n]) # {}}
             s == [r EXCEPT !.pc = "void", !.index = record, !.left = pending, !.queue = Q]
  <2>1. \A n \in pending : r.listed[n] \in Heads
    BY <1>m DEF Pass
  <2>2. pending \in SUBSET Name /\ Q \in SUBSET pending
    OBVIOUS
  <2>3. s \in Pass /\ PassShape(s)
    <3> HIDE DEF pending, Q
    <3> QED BY <1>m, <1>r, <2>1, <2>2, ToVoid
  <2>4. Becomes(p, s)
    BY <1>2 DEF ReadIndex
  <2> QED BY <1>0, <2>3, <2>4, OnePass
<1>3. ASSUME VoidRead(p) PROVE PassesOK'
  <2>1. PICK n \in First(r.queue) :
          \/ Becomes(p, [r EXCEPT !.pc = "delete", !.name = n,
                                  !.tip = Len(history), !.evidence = EvidenceNow])
          \/ Becomes(p, [r EXCEPT !.queue = @ \ {n}])
    BY <1>3 DEF VoidRead
  <2>2. n \in Name /\ r.listed[n] \in Heads
    BY <1>m, FirstIsListed
  <2>3. CASE Becomes(p, [r EXCEPT !.pc = "delete", !.name = n,
                                  !.tip = Len(history), !.evidence = EvidenceNow])
    BY <1>0, <1>m, <1>r, <2>2, <2>3, ToDelete, OnePass
  <2>4. CASE Becomes(p, [r EXCEPT !.queue = @ \ {n}])
    BY <1>0, <1>m, <2>4, ToKeep, OnePass
  <2> QED BY <2>1, <2>3, <2>4
<1>4. ASSUME VoidDelete(p) PROVE PassesOK'
  <2>1. \/ Becomes(p, [r EXCEPT !.pc = "voided", !.left = @ \ {r.name}])
        \/ NextRequest(p, "void")
    BY <1>4 DEF VoidDelete
  <2>2. r.pc = "delete"
    BY <1>4 DEF VoidDelete, At
  <2>3. CASE Becomes(p, [r EXCEPT !.pc = "voided", !.left = @ \ {r.name}])
    BY <1>0, <1>m, <2>2, <2>3, ToVoided, OnePass
  <2>4. CASE NextRequest(p, "void")
    BY <1>0, <2>4, NextRequestShape
  <2> QED BY <2>1, <2>3, <2>4
<1>5. ASSUME VoidRecord(p) PROVE PassesOK'
  BY <1>0, <1>5, NextRequestShape DEF VoidRecord
<1>6. ASSUME ReadInputs(p) PROVE PassesOK'
  BY <1>0, <1>m, <1>r, <1>6, ToTake, OnePass DEF ReadInputs
<1>7. ASSUME Take(p) PROVE PassesOK'
  <2>1. PICK n \in First(r.queue) :
          Becomes(p, [r EXCEPT !.pc = "evidence", !.name = n, !.tip = Len(history)])
    BY <1>7 DEF Take
  <2>2. n \in Name /\ r.listed[n] \in Heads
    BY <1>m, FirstIsListed
  <2>3. r.pc = "take"
    BY <1>7 DEF Take, At
  <2> QED BY <1>0, <1>m, <1>r, <2>1, <2>2, <2>3, ToEvidence, OnePass
<1>8. ASSUME Fingerprint(p) PROVE PassesOK'
  <2>1. \/ NextRequest(p, "take")
        \/ Becomes(p, [r EXCEPT !.pc = "refuse", !.evidence = EvidenceNow])
    BY <1>8 DEF Fingerprint
  <2>2. r.pc = "evidence" /\ r.inputs \in Digest
    BY <1>8, <1>m DEF Fingerprint, At, PassShape
  <2>3. CASE NextRequest(p, "take")
    BY <1>0, <2>2, <2>3, NextRequestShape
  <2>4. CASE Becomes(p, [r EXCEPT !.pc = "refuse", !.evidence = EvidenceNow])
    BY <1>0, <1>m, <1>r, <2>2, <2>4, ToRefuse, OnePass
  <2> QED BY <2>1, <2>3, <2>4
<1>9. ASSUME Refuse(p) PROVE PassesOK'
  <2>1. r.pc = "refuse"
    BY <1>9 DEF Refuse, At
  <2>2. \/ \E o \in Outcome : Conclude(p, o)
        \/ r.inputs # Unread /\ Goto(p, "judge")
    BY <1>9 DEF Refuse, Outcome, Refused
  <2>3. CASE \E o \in Outcome : Conclude(p, o)
    BY <1>0, <2>1, <2>3, ConcludeShape
  <2>4. CASE r.inputs # Unread /\ Goto(p, "judge")
    BY <1>0, <1>m, <2>1, <2>4, ToJudge, OnePass DEF Goto
  <2> QED BY <2>2, <2>3, <2>4
<1>10. ASSUME Judge(p) PROVE PassesOK'
  <2>1. r.pc = "judge"
    BY <1>10 DEF Judge, At
  <2>2. SourceOf(Asked(p), r.tip, JudgedUnder(p)) \in Source /\ Verdict(p) \in Outcome
    BY DEF SourceOf, Source, Verdict, Decide, Outcome
  <2>3. CASE Conclude(p, Verdict(p))
    BY <1>0, <2>1, <2>2, <2>3, ConcludeShape
  <2>4. CASE Becomes(p, [r EXCEPT !.pc = "final",
                           !.source = SourceOf(Asked(p), r.tip, JudgedUnder(p))])
    BY <1>0, <1>m, <2>1, <2>2, <2>4, ToFinal, OnePass
  <2> QED BY <1>10, <2>3, <2>4 DEF Judge
<1>11. ASSUME Final(p) PROVE PassesOK'
  <2>1. r.pc = "final"
    BY <1>11 DEF Final, At
  <2>2. CASE Conclude(p, "refused-not-ready")
    BY <1>0, <2>1, <2>2, ConcludeShape DEF Outcome, Refused
  <2>3. CASE Becomes(p, [r EXCEPT !.pc = "prepare", !.tries = 1])
    BY <1>0, <1>m, <2>1, <2>3, ToPrepare, OnePass
  <2> QED BY <1>11, <2>2, <2>3 DEF Final
<1>12. ASSUME Prepare(p) PROVE PassesOK'
  <2> DEFINE lease == [transfer |-> transfer, landing |-> landing[Asked(p)],
                       memo |-> memo[r.name], standing |-> Standing(p)]
  <2>1. r.pc = "prepare"
    BY <1>12 DEF Prepare, At
  <2>2. r.name \in Name /\ Asked(p) \in Heads
    BY <1>m, <2>1 DEF PassShape, Asked
  <2>3. lease \in Lease
    BY <1>0, <2>2 DEF Lease, StoredOK, Standing
  <2>4. CASE Conclude(p, "failed")
    BY <1>0, <2>1, <2>4, ConcludeShape DEF Outcome
  <2>5. CASE Becomes(p, [r EXCEPT !.pc = "apply", !.lease = lease])
    BY <1>0, <1>m, <2>1, <2>3, <2>5, ToApply, OnePass
  <2> QED BY <1>12, <2>4, <2>5 DEF Prepare
<1>13. ASSUME Land(p) PROVE PassesOK'
  <2>1. r.pc = "apply" /\ r.inputs \in Digest
    BY <1>13, <1>m DEF Land, At, PassShape, Digest
  <2> QED BY <1>0, <1>13, <2>1, NextRequestShape DEF Land
<1>14. ASSUME Contended(p) PROVE PassesOK'
  BY <1>0, <1>14, NotLandedShape DEF Contended, At
<1>15. ASSUME Answer(p) PROVE PassesOK'
  <2>1. r.pc = "answer" /\ r.inputs \in Digest
    BY <1>15, <1>m DEF Answer, At, PassShape
  <2> QED BY <1>0, <1>15, <2>1, NextRequestShape DEF Answer
<1>16. ASSUME EndPass(p) \/ Crash(p) PROVE PassesOK'
  BY <1>0, <1>16, IdleShape, OnePass DEF EndPass, Crash
<1>17. ASSUME Fail(p) PROVE PassesOK'
  <2>1. CASE Becomes(p, IdlePass)
    BY <1>0, <2>1, IdleShape, OnePass
  <2>2. CASE Becomes(p, [r EXCEPT !.queue = @ \ First(@)])
    BY <1>0, <1>m, <2>2, ToKeep, OnePass
  <2>3. CASE NextRequest(p, "void")
    BY <1>0, <2>3, NextRequestShape
  <2>4. CASE Becomes(p, [r EXCEPT !.pc = "take", !.queue = r.left, !.inputs = Unread])
    BY <1>0, <1>m, <1>r, <2>4, ToTake, OnePass
  <2>5. CASE r.pc \in {"evidence", "answer"} /\ NextRequest(p, "take")
    <3>1. r.inputs \in Digest
      BY <1>m, <2>5 DEF PassShape
    <3> QED BY <1>0, <2>5, <3>1, NextRequestShape
  <2>6. CASE r.pc \in {"refuse", "judge", "final", "prepare"} /\ Conclude(p, "failed")
    BY <1>0, <2>6, ConcludeShape DEF Outcome
  <2>7. CASE r.pc = "apply" /\ NotLanded(p)
    BY <1>0, <2>7, NotLandedShape
  <2>8. CASE r.pc = "evidence" /\ Becomes(p, [r EXCEPT !.pc = "refuse", !.evidence = EvidenceNow])
    BY <1>0, <1>m, <1>r, <2>8, ToRefuse, OnePass
  <2>9. CASE r.pc \in {"refuse", "final"} /\ Conclude(p, "refused-not-ready")
    BY <1>0, <2>9, ConcludeShape DEF Outcome, Refused
  <2>10. CASE r.pc = "judge" /\ Misjudge(p)
    <3>1. PICK o \in Outcome : Misread(p, o)
      BY <2>10 DEF Misjudge, Outcome
    <3> QED BY <1>0, <1>m, <2>10, <3>1, ToMisread, OnePass DEF Misread
  <2> QED BY <1>17, <2>1, <2>2, <2>3, <2>4, <2>5, <2>6, <2>7, <2>8, <2>9, <2>10 DEF Fail, At
<1> QED BY <1>1, <1>2, <1>3, <1>4, <1>5, <1>6, <1>7, <1>8, <1>9, <1>10, <1>11, <1>12,
           <1>13, <1>14, <1>15, <1>16, <1>17 DEF PassStep

-----------------------------------------------------------------------------
(***************************************************************************)
(* Every step keeps the stored state well formed.                          *)
(***************************************************************************)

\* A step that only reads leaves the stored state typed.
LEMMA SameStore == ASSUME StoredOK, UNCHANGED <<refs, expired, host, quiet>>
    PROVE  StoredOK'
  BY DEF StoredOK, refs, host

\* An answer to the request at hand is an outcome record.
LEMMA MemoShape ==
    ASSUME PassesOK, NEW p \in Controller, NEW o \in Outcome,
           pass[p].pc \in {"voided", "apply", "answer"}
    PROVE  MemoOf(p, o) \in Memo /\ pass[p].name \in Name /\ Asked(p) \in Heads
  BY Mine DEF PassShape, Pass, MemoOf, Memo, Asked

\* What a landing stores are notes (countersign and evidenceUpdates).
LEMMA AddsNotes == ASSUME NEW h, NEW k \in Nat, NEW source, NEW t
    PROVE  Adds(h, k, source, t) \in SUBSET Note
<1>1. CheckNote \in Note /\ TransferNote(k + 1) \in Note
  BY DEF CheckNote, TransferNote, Note
<1> QED BY <1>1 DEF Adds

\* A landing's transaction stores values of their types (apply).
LEMMA LandStore ==
    ASSUME TypeOK, NEW p \in Controller, Land(p)
    PROVE  StoredOK'
<1>0. StoredOK /\ PassesOK
  BY DEF TypeOK
<1> DEFINE n == pass[p].name
           h == Asked(p)
<1>1. pass[p].pc = "apply"
  BY DEF Land, At
<1>2. MemoOf(p, "land") \in Memo /\ n \in Name /\ h \in Heads
  BY <1>0, <1>1, MemoShape DEF Outcome
<1>3. pass[p].lease \in Lease /\ pass[p].tip \in Nat
  BY <1>0, <1>1, Mine DEF PassShape, Pass
<1>4. history' \in Seq(Entry)
  <2>1. [name |-> n, head |-> h] \in Entry
    BY <1>2 DEF Entry
  <2> QED BY <1>0, <2>1 DEF Land, StoredOK
<1>5. transfer' \in [Tree -> SUBSET Note]
  <2>1. pass[p].lease.transfer \in [Tree -> SUBSET Note]
    BY <1>3 DEF Lease
  <2>2. \A t \in Tree : Stored(p, t) \in SUBSET Note
    BY <1>3, AddsNotes DEF Stored
  <2>3. transfer \in [Tree -> SUBSET Note]
    BY <1>0 DEF StoredOK
  <2> HIDE DEF Tree
  <2> QED BY <2>1, <2>2, <2>3 DEF Land
<1>6. landing' \in [Heads -> Nat] /\ memo' \in [Name -> Memo \cup {None}]
  <2>1. Len(history) + 1 \in Nat
    BY <1>0, Reads
  <2> QED BY <1>0, <1>2, <2>1 DEF Land, StoredOK
<1>7. request' \in [Name -> Heads \cup {None}]
  BY <1>0, <1>2 DEF Land, StoredOK
<1> QED BY <1>0, <1>4, <1>5, <1>6, <1>7 DEF Land, StoredOK, host

\* Every step of a pass leaves the stored state typed (writeMemo, writeAnswer, apply).
LEMMA PassStepStore ==
    ASSUME TypeOK, NEW p \in Controller, PassStep(p) \/ Fail(p) \/ Crash(p)
    PROVE  StoredOK'
<1>0. StoredOK /\ PassesOK
  BY DEF TypeOK
<1>1. CASE VoidDelete(p)
  BY <1>0, <1>1 DEF VoidDelete, StoredOK, host
<1>2. CASE VoidRecord(p)
  <2>1. MemoOf(p, "voided-withdrawn") \in Memo /\ pass[p].name \in Name
    BY <1>0, <1>2, MemoShape DEF VoidRecord, At, Outcome
  <2> QED BY <1>0, <1>2, <2>1 DEF VoidRecord, StoredOK, host
<1>3. CASE Judge(p)
  BY <1>0, <1>3 DEF Judge, StoredOK, refs, host
<1>4. CASE Land(p)
  BY <1>4, LandStore
<1>5. CASE Answer(p)
  <2> DEFINE m == MemoOf(p, pass[p].outcome)
             b == [digest |-> pass[p].inputs, memo |-> m, misread |-> pass[p].misread]
  <2>1. pass[p].pc = "answer"
    BY <1>5 DEF Answer, At
  <2>2. pass[p].outcome \in Outcome /\ pass[p].inputs \in Digest
    BY <1>0, <2>1, Mine DEF PassShape
  <2>3. m \in Memo /\ pass[p].name \in Name
    BY <1>0, <2>1, <2>2, MemoShape
  <2>4. b \in Bound
    <3>1. pass[p].misread \in BOOLEAN
      BY <1>0, Mine DEF Pass
    <3> QED BY <2>2, <2>3, <3>1 DEF Bound
  <2>5. /\ memo' = [memo EXCEPT ![pass[p].name] = m]
        /\ bound' = [bound EXCEPT ![pass[p].name] = b]
        /\ expired' = expired \ {pass[p].name}
        /\ UNCHANGED <<history, request, record, attested, transfer, landing, host, quiet>>
    BY <1>5 DEF Answer
  <2> QED BY <1>0, <2>3, <2>4, <2>5 DEF StoredOK, host
<1>6. CASE EndPass(p)
  BY <1>0, <1>6 DEF EndPass, StoredOK, refs, host
<1>7. CASE Fail(p) \/ Crash(p)
  <2>1. /\ faults' \in 0..MaxFaults /\ quiet' \in [Controller -> SUBSET Change]
        /\ UNCHANGED <<refs, expired, inputs, moves, filed>>
    <3>1. faults > 0 /\ faults' = faults - 1 /\ UNCHANGED <<refs, expired, inputs, moves, filed>>
      BY <1>7 DEF Fail, Crash
    <3>2. faults' \in 0..MaxFaults
      BY <1>0, <3>1, ConstantsAssumption DEF StoredOK
    <3>3. UNCHANGED quiet \/ quiet' = [quiet EXCEPT ![p] = {}]
      BY <1>7 DEF Fail, Crash
    <3>4. quiet' \in [Controller -> SUBSET Change]
      BY <1>0, <3>3 DEF StoredOK
    <3> QED BY <3>1, <3>2, <3>4
  <2> QED BY <1>0, <2>1 DEF StoredOK, refs
<1>8. CASE UNCHANGED <<refs, expired, host, quiet>>
  BY <1>0, <1>8, SameStore
<1> QED BY <1>1, <1>2, <1>3, <1>4, <1>5, <1>6, <1>7, <1>8
       DEF PassStep, List, ReadIndex, VoidRead, ReadInputs, Take, Fingerprint, Refuse,
           Final, Prepare, Contended

\* What the push hook lets replace a record is a record (checkRecord).
LEMMA NextRecordsShape == ASSUME NEW r \in Record \cup {None}
    PROVE  NextRecords(r) \subseteq Record \cup {None}
  BY DEF NextRecords, Record

\* Every write by a pusher or the host keeps the types.
LEMMA ElsewhereType == ASSUME TypeOK, Elsewhere PROVE TypeOK'
<1>0. StoredOK /\ PassesOK
  BY DEF TypeOK
<1>1. PassesOK'
  <2>1. UNCHANGED pass
    BY DEF Elsewhere, Unapprove, Expire, Approve, WriteRecord, Relay, Attest, PushTarget,
           ChangeInputs
  <2> QED BY <1>0, <2>1 DEF PassesOK
<1>m. moves \in 0..MaxMoves /\ moves > 0 => moves - 1 \in 0..MaxMoves
  BY ConstantsAssumption
<1>2. ASSUME NEW n \in Name, Unapprove(n) PROVE StoredOK'
  BY <1>0, <1>m, <1>2 DEF Unapprove, Move, StoredOK
<1>3. ASSUME NEW n \in Name, Expire(n) PROVE StoredOK'
  BY <1>0, <1>3 DEF Expire, StoredOK, refs, host
<1>4. ASSUME NEW n \in Name, NEW h \in Heads, Approve(n, h) PROVE StoredOK'
  <2>1. filed' \in [Name -> [Heads -> Nat]]
    BY <1>0, <1>4 DEF Approve, StoredOK
  <2>2. request' \in [Name -> Heads \cup {None}]
    BY <1>0, <1>4 DEF Approve, StoredOK
  <2> QED BY <1>0, <1>m, <1>4, <2>1, <2>2 DEF Approve, Move, StoredOK
<1>5. ASSUME NEW c \in Change, WriteRecord(c) PROVE StoredOK'
  <2>1. PICK r \in NextRecords(record[c]) :
            /\ record' = [record EXCEPT ![c] = r]
            /\ quiet' = IF r # None /\ r.state # "ready" THEN quiet
                        ELSE [p \in Controller |-> quiet[p] \ {c}]
    BY <1>5 DEF WriteRecord
  <2>2. r \in Record \cup {None}
    BY <1>0, NextRecordsShape DEF StoredOK
  <2>3. record' \in [Change -> Record \cup {None}] /\ quiet' \in [Controller -> SUBSET Change]
    BY <1>0, <2>1, <2>2 DEF StoredOK
  <2> QED BY <1>0, <1>m, <1>5, <2>3 DEF WriteRecord, Move, StoredOK
<1>6. ASSUME NEW t \in Tree, Relay(t) PROVE StoredOK'
  <2>1. RelayedNote \in Note
    BY DEF RelayedNote, Note
  <2> QED BY <1>0, <1>m, <1>6, <2>1 DEF Relay, Move, StoredOK
<1>7. ASSUME NEW t \in Tree, NEW s \in Signer, Attest(t, s) PROVE StoredOK'
  BY <1>0, <1>m, <1>7 DEF Attest, Move, StoredOK
<1>8. ASSUME PushTarget PROVE StoredOK'
  <2>1. history' \in Seq(Entry)
    <3>1. None \in Entry
      BY DEF Entry
    <3> QED BY <1>0, <1>8, <3>1 DEF PushTarget, StoredOK
  <2> QED BY <1>0, <1>m, <1>8, <2>1 DEF PushTarget, Move, StoredOK
<1>9. ASSUME ChangeInputs PROVE StoredOK'
  <2>1. inputs' \in Inputs
    BY <1>0, <1>9, ConstantsAssumption DEF ChangeInputs, StoredOK
  <2> QED BY <1>0, <1>m, <1>9, <2>1 DEF ChangeInputs, Move, StoredOK, refs
<1>10. StoredOK'
  BY <1>2, <1>3, <1>4, <1>5, <1>6, <1>7, <1>8, <1>9 DEF Elsewhere
<1> QED BY <1>1, <1>10 DEF TypeOK

\* Every step keeps the types.
LEMMA NextTypeOK == TypeOK /\ [Next]_vars => TypeOK'
<1> SUFFICES ASSUME TypeOK, [Next]_vars PROVE TypeOK'
  OBVIOUS
<1>1. CASE Elsewhere
  BY <1>1, ElsewhereType
<1>2. ASSUME NEW p \in Controller, PassStep(p) \/ Fail(p) \/ Crash(p) PROVE TypeOK'
  BY <1>2, PassStepShape, PassStepStore DEF TypeOK
<1>3. CASE UNCHANGED vars
  <2>1. StoredOK' = StoredOK /\ PassesOK' = PassesOK
    BY <1>3 DEF vars, refs, StoredOK, PassesOK
  <2> QED BY <2>1 DEF TypeOK
<1> QED BY <1>1, <1>2, <1>3 DEF Next

\* Whatever fails, moves or crashes, each pass has read what its step needs
\* and everything stored is well formed.
THEOREM Typing == Spec => []TypeOK
  BY InitTypeOK, NextTypeOK, PTL DEF Spec

-----------------------------------------------------------------------------
(***************************************************************************)
(* What the landing's transaction protects.                                *)
(***************************************************************************)

\* A step of a controller that is no landing leaves the target, the evidence
\* and the landing records alone.
LEMMA OnlyLandings ==
    ASSUME NEW p \in Controller, PassStep(p) \/ Fail(p) \/ Crash(p), ~Land(p)
    PROVE  UNCHANGED <<history, transfer, landing>>
  BY DEF PassStep, List, ReadIndex, VoidRead, VoidDelete, VoidRecord, ReadInputs, Take,
         Fingerprint, Refuse, Judge, Final, Prepare, Contended, Answer, EndPass, Fail, Crash,
         refs, host

\* A landing stores the union of what it read and what it adds, and it read
\* what is there.
LEMMA LandKeeps ==
    ASSUME NEW p \in Controller, Land(p), NEW t \in Tree
    PROVE  transfer'[t] = transfer[t] \cup Stored(p, t)
<1>1. CASE Stored(p, t) = {}
  BY <1>1 DEF Land
<1>2. CASE Stored(p, t) # {}
  <2>1. t \in Stores(Asked(p), pass[p].tip, pass[p].source)
    BY <1>2 DEF Stores, Stored
  <2>2. transfer[t] = pass[p].lease.transfer[t]
    BY <2>1 DEF Land, Matches
  <2> QED BY <1>2, <2>2 DEF Land
<1> QED BY <1>1, <1>2

\* Everyone else's step, as the target, the evidence and the landing records
\* see it: only a push to the target and a relayed note change them.
LEMMA ElsewhereAdds ==
    ASSUME TypeOK, Elsewhere
    PROVE  /\ UNCHANGED landing
           /\ UNCHANGED history \/ history' = Append(history, None)
           /\ \A t \in Tree : transfer[t] \subseteq transfer'[t]
<1>0. transfer \in [Tree -> SUBSET Note]
  BY DEF TypeOK, StoredOK
<1>1. ASSUME NEW t \in Tree, Relay(t)
      PROVE  UNCHANGED <<landing, history>> /\ \A u \in Tree : transfer[u] \subseteq transfer'[u]
  BY <1>0, <1>1 DEF Relay
<1>2. CASE PushTarget
  BY <1>2 DEF PushTarget
<1>3. CASE UNCHANGED <<landing, history, transfer>>
  BY <1>3
<1> QED BY <1>1, <1>2, <1>3
       DEF Elsewhere, Unapprove, Expire, Approve, WriteRecord, Attest, ChangeInputs, refs

\* Every step keeps the evidence at the integrator's refs (evidenceUpdates leases each).
LEMMA TransferGrows ==
    TypeOK /\ [Next]_vars => \A t \in Tree : transfer[t] \subseteq transfer'[t]
<1> SUFFICES ASSUME TypeOK, [Next]_vars, NEW t \in Tree
             PROVE  transfer[t] \subseteq transfer'[t]
  OBVIOUS
<1>1. CASE Elsewhere
  BY <1>1, ElsewhereAdds
<1>2. ASSUME NEW p \in Controller, PassStep(p) \/ Fail(p) \/ Crash(p)
      PROVE  transfer[t] \subseteq transfer'[t]
  BY <1>2, OnlyLandings, LandKeeps
<1>3. CASE UNCHANGED vars
  BY <1>3 DEF vars, refs
<1> QED BY <1>1, <1>2, <1>3 DEF Next

\* No landing drops a note that someone stored after the landing read.
THEOREM NoNoteIsLost == Spec => EvidenceKept
<1>1. TypeOK /\ [Next]_vars => [\A t \in Tree : transfer[t] \subseteq transfer'[t]]_vars
  BY TransferGrows
<1> QED BY <1>1, Typing, PTL DEF Spec, EvidenceKept

\* How a controller may take a request away.
TakenByController ==
    \A n \in Name : request'[n] # request[n] /\ moves' = moves =>
        /\ request'[n] = None
        /\ \/ history' = Append(history, [name |-> n, head |-> request[n]])
           \/ \E p \in Controller : At(p, "delete") /\ pass[p].name = n /\ Asked(p) = request[n]

\* Every step that takes a request away lands it or voids it (apply, void).
LEMMA NextTakes == TypeOK /\ [Next]_vars => [TakenByController]_vars
<1> SUFFICES ASSUME TypeOK, [Next]_vars, NEW n \in Name, request'[n] # request[n], moves' = moves
             PROVE  /\ request'[n] = None
                    /\ \/ history' = Append(history, [name |-> n, head |-> request[n]])
                       \/ \E p \in Controller : /\ At(p, "delete") /\ pass[p].name = n
                                                /\ Asked(p) = request[n]
  BY DEF TakenByController
<1>0. request \in [Name -> Heads \cup {None}] /\ moves \in Nat
  BY DEF TypeOK, StoredOK
<1>1. CASE Elsewhere
  <2>1. UNCHANGED request \/ Move
    BY <1>1 DEF Elsewhere, Unapprove, Expire, Approve, WriteRecord, Relay, Attest, PushTarget,
                ChangeInputs, refs
  <2> QED BY <1>0, <2>1 DEF Move
<1>2. ASSUME NEW p \in Controller, VoidDelete(p)
      PROVE  request'[n] = None /\ At(p, "delete") /\ pass[p].name = n /\ Asked(p) = request[n]
  BY <1>0, <1>2 DEF VoidDelete
<1>3. ASSUME NEW p \in Controller, Land(p)
      PROVE  request'[n] = None /\ history' = Append(history, [name |-> n, head |-> request[n]])
  <2>1. /\ pass[p].lease.standing /\ request' = [request EXCEPT ![pass[p].name] = None]
        /\ pass[p].name = n
    BY <1>0, <1>3 DEF Land
  <2>2. request[n] = Asked(p)
    BY <1>3, <2>1 DEF Land, Matches
  <2> QED BY <1>0, <1>3, <2>1, <2>2 DEF Land
<1>4. ASSUME NEW p \in Controller, PassStep(p) \/ Fail(p) \/ Crash(p), ~VoidDelete(p), ~Land(p)
      PROVE  UNCHANGED request
  BY <1>4 DEF PassStep, List, ReadIndex, VoidRead, VoidRecord, ReadInputs, Take, Fingerprint,
         Refuse, Judge, Final, Prepare, Contended, Answer, EndPass, Fail, Crash, refs
<1>5. CASE UNCHANGED vars
  BY <1>5 DEF vars, refs
<1> QED BY <1>1, <1>2, <1>3, <1>4, <1>5 DEF Next

\* An approval filed while a pass works on the one before is not lost to it.
THEOREM NoApprovalIsLost == Spec => ApprovalKept
<1>1. TypeOK /\ [Next]_vars => [TakenByController]_vars
  BY NextTakes
<1> QED BY <1>1, Typing, PTL DEF Spec, ApprovalKept, TakenByController

-----------------------------------------------------------------------------
(***************************************************************************)
(* What stands on the target.                                              *)
(***************************************************************************)

\* What landed before the k-th tip makes its tree, whatever lands after.
LEMMA TreeOfThePast ==
    ASSUME TypeOK, history' \in Seq(Entry), NEW k \in 0..Len(history),
           \A i \in 1..Len(history) : history'[i] = history[i]
    PROVE  TreeAt(k)' = TreeAt(k)
<1>1. history \in Seq(Entry) /\ Len(history) \in Nat
  BY DEF TypeOK, StoredOK
<1>2. \A i \in 1..k : history'[i] = history[i]
  BY <1>1
<1> DEFINE F(i) == IF history[i] = None THEN {None} ELSE Brings[history[i].head]
<1>3. \A i \in 1..k : F(i)' = F(i)
  BY <1>2
<1>4. {F(i)' : i \in 1..k} = {F(i) : i \in 1..k}
  BY <1>3
<1> QED BY <1>4 DEF TreeAt

\* The target only grows, by one entry.
LEMMA TargetGrows ==
    ASSUME TypeOK, NEW e \in Entry, history' = Append(history, e)
    PROVE  /\ history' \in Seq(Entry) /\ Len(history') = Len(history) + 1
           /\ history'[Len(history) + 1] = e
           /\ \A i \in 1..Len(history) : history'[i] = history[i]
           /\ \A k \in 0..Len(history) : TreeAt(k)' = TreeAt(k)
<1>1. history \in Seq(Entry)
  BY DEF TypeOK, StoredOK
<1>2. /\ history' \in Seq(Entry) /\ Len(history') = Len(history) + 1
      /\ history'[Len(history) + 1] = e
      /\ \A i \in 1..Len(history) : history'[i] = history[i]
  BY <1>1
<1> QED BY <1>2, TreeOfThePast

\* A landing is of the head its pass asked for, on the tip the pass read.
LEMMA LandEntry ==
    ASSUME TypeOK, NEW p \in Controller, Land(p)
    PROVE  /\ Asked(p) \in Heads /\ Len(history) = pass[p].tip /\ Len(history) \in Nat
           /\ [name |-> pass[p].name, head |-> Asked(p)] \in Entry \ {None}
           /\ history' = Append(history, [name |-> pass[p].name, head |-> Asked(p)])
           /\ landing' = [landing EXCEPT ![Asked(p)] = Len(history) + 1]
<1>1. pass[p].name \in Name /\ Asked(p) \in Heads
  BY Mine DEF TypeOK, Land, At, PassShape, Asked
<1>2. Len(history) = pass[p].tip /\ Len(history) \in Nat
  BY DEF TypeOK, StoredOK, Land, Matches
<1>3. [name |-> pass[p].name, head |-> Asked(p)] \in Entry \ {None}
  BY <1>1, ConstantsAssumption DEF Entry
<1> QED BY <1>2, <1>1, <1>3 DEF Land

\* What landed at i is recorded.
Recorded(i) ==
    history[i] # None =>
        /\ TransferNote(i) \in transfer[LandingTree(history[i].head, i - 1)]
        /\ landing[history[i].head] >= i

\* The landing record of h names a landing of h.
Names(h) ==
    landing[h] # 0 =>
        /\ landing[h] <= Len(history)
        /\ history[landing[h]] # None /\ history[landing[h]].head = h

\* The recorded landings, as one statement for each position and each head.
LEMMA RecordedParts ==
    LandingsRecorded <=> (\A i \in 1..Len(history) : Recorded(i)) /\ (\A h \in Heads : Names(h))
  BY DEF LandingsRecorded, Recorded, Names

\* The tree a landing makes is a tree (materialize).
LEMMA LandingTreeShape ==
    ASSUME NEW h \in Heads, NEW k \in Nat, history \in Seq(Entry), k <= Len(history)
    PROVE  LandingTree(h, k) \in Tree
<1>1. \A i \in 1..k : history[i] \in Entry
  OBVIOUS
<1>2. \A i \in 1..k : (IF history[i] = None THEN {None} ELSE Brings[history[i].head]) \subseteq Delta
  BY <1>1, ConstantsAssumption DEF Entry
<1>3. TreeAt(k) \subseteq Delta
  BY <1>2 DEF TreeAt
<1> QED BY <1>3, ConstantsAssumption DEF LandingTree

\* A step that appends nothing and keeps the landing records keeps what they say.
LEMMA RecordedStays ==
    ASSUME TypeOK, TypeOK', LandingsRecorded, UNCHANGED <<history, landing>>,
           \A t \in Tree : transfer[t] \subseteq transfer'[t]
    PROVE  LandingsRecorded'
<1>1. history \in Seq(Entry) /\ Len(history) \in Nat
  BY DEF TypeOK, StoredOK
<1>2. ASSUME NEW i \in 1..Len(history) PROVE Recorded(i)'
  <2>1. Recorded(i)
    BY RecordedParts
  <2>2. CASE history[i] # None
    <3> DEFINE t == LandingTree(history[i].head, i - 1)
    <3>1. history[i].head \in Heads
      BY <1>1, <2>2 DEF Entry
    <3>2. t \in Tree /\ t' = t
      BY <1>1, <3>1, LandingTreeShape DEF LandingTree, TreeAt
    <3> HIDE DEF t
    <3>3. TransferNote(i) \in transfer'[t]
      BY <2>1, <2>2, <3>2 DEF Recorded, t
    <3> QED BY <2>1, <2>2, <3>2, <3>3 DEF Recorded, t
  <2> QED BY <2>2 DEF Recorded
<1>3. \A h \in Heads : Names(h)'
  BY RecordedParts DEF Names
<1> QED BY <1>2, <1>3, RecordedParts DEF LandingsRecorded, Recorded, Names

\* A step that appends an entry keeps what was recorded, if it raises the
\* landing record of a head it lands to that entry and no other.
LEMMA RecordedGrows ==
    ASSUME TypeOK, TypeOK', LandingsRecorded, NEW e \in Entry, history' = Append(history, e),
           NEW k, k = Len(history),
           \/ e = None /\ UNCHANGED landing
           \/ /\ e # None /\ landing' = [landing EXCEPT ![e.head] = k + 1]
              /\ TransferNote(k + 1) \in transfer'[LandingTree(e.head, k)],
           \A t \in Tree : transfer[t] \subseteq transfer'[t]
    PROVE  LandingsRecorded'
<1>1. history \in Seq(Entry) /\ k \in Nat /\ landing \in [Heads -> Nat]
  BY DEF TypeOK, StoredOK
<1>2. /\ history' \in Seq(Entry) /\ Len(history') = k + 1 /\ history'[k + 1] = e
      /\ \A i \in 1..k : history'[i] = history[i]
      /\ \A j \in 0..k : TreeAt(j)' = TreeAt(j)
  BY TargetGrows
<1>3. \A h \in Heads : landing'[h] = landing[h] \/ (e # None /\ h = e.head /\ landing'[h] = k + 1)
  BY <1>1
<1>4. ASSUME NEW i \in 1..k PROVE Recorded(i)'
  <2>1. Recorded(i)
    BY RecordedParts
  <2>2. CASE history[i] # None
    <3> DEFINE h == history[i].head
               t == LandingTree(h, i - 1)
    <3>1. h \in Heads /\ history'[i] = history[i] /\ i - 1 \in 0..k /\ i - 1 \in Nat /\ i - 1 <= k
      BY <1>1, <1>2, <2>2 DEF Entry
    <3>2. t \in Tree
      BY <1>1, <3>1, LandingTreeShape
    <3>3. LandingTree(h, i - 1)' = t
      BY <1>2, <3>1 DEF LandingTree
    <3>4. TransferNote(i) \in transfer[t] /\ landing[h] >= i
      BY <2>1, <2>2 DEF Recorded
    <3> HIDE DEF t
    <3>5. TransferNote(i) \in transfer'[t]
      BY <3>2, <3>4
    <3>6. landing'[h] >= i
      BY <1>1, <1>3, <3>1, <3>4
    <3> HIDE DEF h
    <3> QED BY <2>2, <3>1, <3>3, <3>5, <3>6 DEF Recorded, h
  <2> QED BY <1>2, <2>2 DEF Recorded
<1>5. Recorded(k + 1)'
  <2>1. CASE e = None
    BY <1>2, <2>1 DEF Recorded
  <2>2. CASE e # None
    <3>1. /\ e.head \in Heads
          /\ TransferNote(k + 1) \in transfer'[LandingTree(e.head, k)]
          /\ landing'[e.head] = k + 1
      BY <1>1, <2>2 DEF Entry
    <3>2. LandingTree(e.head, k)' = LandingTree(e.head, k)
      BY <1>1, <1>2 DEF LandingTree
    <3>3. k + 1 - 1 = k /\ k + 1 >= k + 1
      BY <1>1
    <3> QED BY <1>2, <3>1, <3>2, <3>3 DEF Recorded
  <2> QED BY <2>1, <2>2
<1>6. ASSUME NEW h \in Heads PROVE Names(h)'
  <2>1. Names(h)
    BY RecordedParts
  <2>2. CASE landing'[h] = landing[h]
    BY <1>1, <1>2, <2>1, <2>2 DEF Names
  <2>3. CASE e # None /\ h = e.head /\ landing'[h] = k + 1
    BY <1>1, <1>2, <2>3 DEF Names
  <2> QED BY <1>3, <2>2, <2>3
<1>7. ASSUME NEW i \in 1..Len(history') PROVE Recorded(i)'
  <2>1. i \in 1..k \/ i = k + 1
    BY <1>1, <1>2
  <2>2. CASE i = k + 1
    BY <1>5, <2>2 DEF Recorded
  <2> QED BY <1>4, <2>1, <2>2
<1> QED BY <1>6, <1>7 DEF LandingsRecorded, Recorded, Names

\* A landing stores its transfer statement at its tree and moves its record (apply).
LEMMA LandStores ==
    ASSUME TypeOK, NEW p \in Controller, Land(p)
    PROVE  TransferNote(Len(history) + 1) \in transfer'[LandingTree(Asked(p), Len(history))]
<1> DEFINE t == LandingTree(Asked(p), Len(history))
<1>1. Asked(p) \in Heads /\ Len(history) = pass[p].tip /\ Len(history) \in Nat
  BY LandEntry
<1>2. t \in Tree
  <2>1. history \in Seq(Entry) /\ Len(history) <= Len(history)
    BY <1>1 DEF TypeOK, StoredOK
  <2> QED BY <1>1, <2>1, LandingTreeShape
<1>3. TransferNote(Len(history) + 1) \in Stored(p, t)
  <2>1. TransferNote(Len(history) + 1) # CheckNote
    BY DEF TransferNote, CheckNote
  <2> QED BY <1>1, <2>1 DEF Stored, Adds
<1> HIDE DEF t
<1>4. transfer'[t] = transfer[t] \cup Stored(p, t)
  BY <1>2, LandKeeps
<1> QED BY <1>3, <1>4 DEF t

\* Every step keeps the landings recorded (apply moves both in one transaction).
LEMMA NextRecorded == TypeOK /\ TypeOK' /\ LandingsRecorded /\ [Next]_vars => LandingsRecorded'
<1> SUFFICES ASSUME TypeOK, TypeOK', LandingsRecorded, [Next]_vars PROVE LandingsRecorded'
  OBVIOUS
<1>1. \A t \in Tree : transfer[t] \subseteq transfer'[t]
  BY TransferGrows
<1>2. CASE UNCHANGED <<history, landing>>
  BY <1>1, <1>2, RecordedStays
<1>3. CASE Elsewhere
  <2>1. UNCHANGED landing /\ (UNCHANGED history \/ history' = Append(history, None))
    BY <1>3, ElsewhereAdds
  <2>2. None \in Entry
    BY DEF Entry
  <2>3. CASE history' = Append(history, None)
    BY <1>1, <2>1, <2>2, <2>3, RecordedGrows
  <2> QED BY <1>2, <2>1, <2>3
<1>4. ASSUME NEW p \in Controller, Land(p) PROVE LandingsRecorded'
  <2> DEFINE e == [name |-> pass[p].name, head |-> Asked(p)]
  <2>1. /\ e \in Entry \ {None} /\ history' = Append(history, e) /\ e.head = Asked(p)
        /\ landing' = [landing EXCEPT ![Asked(p)] = Len(history) + 1]
    BY <1>4, LandEntry
  <2>2. TransferNote(Len(history) + 1) \in transfer'[LandingTree(Asked(p), Len(history))]
    BY <1>4, LandStores
  <2> HIDE DEF e
  <2> QED BY <1>1, <2>1, <2>2, RecordedGrows
<1>5. ASSUME NEW p \in Controller, PassStep(p) \/ Fail(p) \/ Crash(p), ~Land(p)
      PROVE  LandingsRecorded'
  BY <1>2, <1>5, OnlyLandings
<1>6. CASE UNCHANGED vars
  BY <1>2, <1>6 DEF vars, refs
<1> QED BY <1>3, <1>4, <1>5, <1>6 DEF Next

\* Every landing leaves its transfer statement at the tree it made and its
\* landing record at its head, and nothing ever takes them away.
THEOREM EveryLandingIsRecorded == Spec => []LandingsRecorded
<1>1. Init => LandingsRecorded
  BY DEF Init, LandingsRecorded
<1>2. TypeOK /\ TypeOK' /\ LandingsRecorded /\ [Next]_vars => LandingsRecorded'
  BY NextRecorded
<1> QED BY <1>1, <1>2, Typing, PTL DEF Spec

-----------------------------------------------------------------------------
(***************************************************************************)
(* What lands was judged on the tip it lands on.                           *)
(***************************************************************************)

Handling == {"evidence", "refuse", "judge", "final", "prepare", "apply"}
Landing == {"final", "prepare", "apply"}

\* A pass that handles a request read a tip that the target has reached.
TipWasRead == \A p \in Controller : pass[p].pc \in Handling => pass[p].tip <= Len(history)

\* A pass that is landing a request judged it on that tip.
Judged == \A p \in Controller : pass[p].pc \in Landing => Applies(Asked(p), pass[p].tip)

JudgedInv == TipWasRead /\ Judged /\ LandsWhatItJudged

\* A step of one controller leaves the passes of the others alone.
LEMMA Others ==
    ASSUME PassesOK, NEW p \in Controller, PassStep(p) \/ Fail(p) \/ Crash(p),
           NEW q \in Controller, q # p
    PROVE  pass'[q] = pass[q]
<1>1. ASSUME NEW s, Becomes(p, s) PROVE pass'[q] = pass[q]
  BY <1>1 DEF PassesOK, Becomes
<1>2. \E s : Becomes(p, s)
  <2>1. NotLanded(p) => \E s : Becomes(p, s)
    BY DEF NotLanded, Conclude
  <2>2. \/ \E step \in Step : NextRequest(p, step) \/ Goto(p, step)
        \/ \E o : Conclude(p, o)
        \/ \E s : Becomes(p, s)
    BY <2>1 DEF PassStep, List, ReadIndex, VoidRead, VoidDelete, VoidRecord, ReadInputs, Take,
           Fingerprint, Refuse, Judge, Final, Prepare, Land, Contended, Answer, EndPass, Fail,
           Misjudge, Misread, Crash, Step
  <2> QED BY <2>2 DEF NextRequest, Goto, Conclude
<1> QED BY <1>1, <1>2

\* How a pass comes to handle a request and to land it.
LEMMA Onward ==
    ASSUME TypeOK, NEW p \in Controller, PassStep(p) \/ Fail(p) \/ Crash(p),
           pass'[p].pc \in Handling
    PROVE  \/ pass'[p].pc = "evidence" /\ pass'[p].tip = Len(history)
           \/ /\ pass[p].pc \in Handling
              /\ pass'[p].tip = pass[p].tip /\ pass'[p].name = pass[p].name
              /\ pass'[p].listed = pass[p].listed
              /\ pass'[p].pc \in Landing =>
                    pass[p].pc \in Landing \/ Verdict(p) = "land"
<1> DEFINE r == pass[p]
<1>0. r \in Pass /\ PassesOK
  BY Mine DEF TypeOK
<1>b. ASSUME NEW s, Becomes(p, s) PROVE pass'[p] = s
  BY <1>0, <1>b DEF PassesOK, Becomes
<1>c. ASSUME NEW o, Conclude(p, o) PROVE pass'[p].pc = "answer"
  <2>1. pass'[p] = [r EXCEPT !.pc = "answer", !.outcome = o]
    BY <1>b, <1>c DEF Conclude
  <2> QED BY <1>0, <2>1 DEF Pass
<1>n. ASSUME NEW step, NextRequest(p, step) PROVE pass'[p].pc = step
  <2> DEFINE s == [r EXCEPT !.pc = step, !.queue = @ \ {r.name}, !.name = None,
                           !.tip = 0, !.evidence = None, !.source = "none",
                           !.outcome = None, !.misread = FALSE, !.lease = None, !.tries = 0]
  <2>1. pass'[p] = s
    BY <1>b, <1>n DEF NextRequest
  <2>2. s.pc = step
    BY <1>0 DEF Pass
  <2> QED BY <2>1, <2>2
<1>t. ASSUME NotLanded(p) PROVE
        \/ pass'[p].pc = "answer"
        \/ pass'[p] = [r EXCEPT !.pc = "prepare", !.lease = None, !.tries = @ + 1]
  BY <1>b, <1>c, <1>t DEF NotLanded
<1>1. ASSUME List(p) PROVE pass'[p].pc = "index"
  <2>1. pass'[p] = [IdlePass EXCEPT !.pc = "index", !.listed = request]
    BY <1>b, <1>1 DEF List
  <2> QED BY <2>1, IdleShape DEF Pass
<1>2. ASSUME ReadIndex(p) PROVE pass'[p].pc = "void"
  <2>1. PICK L, Q : pass'[p] = [r EXCEPT !.pc = "void", !.index = record, !.left = L, !.queue = Q]
    BY <1>b, <1>2 DEF ReadIndex
  <2> QED BY <1>0, <2>1 DEF Pass
<1>3. ASSUME VoidRead(p) PROVE pass'[p].pc \notin Handling
  <2>1. PICK n : \/ pass'[p] = [r EXCEPT !.pc = "delete", !.name = n,
                                         !.tip = Len(history), !.evidence = EvidenceNow]
                 \/ r.pc = "void" /\ pass'[p] = [r EXCEPT !.queue = @ \ {n}]
    BY <1>b, <1>3 DEF VoidRead, At
  <2> QED BY <1>0, <2>1 DEF Pass, Handling
<1>4. ASSUME VoidDelete(p) PROVE pass'[p].pc \notin Handling
  <2>1. \/ pass'[p] = [r EXCEPT !.pc = "voided", !.left = @ \ {r.name}]
        \/ pass'[p].pc = "void"
    BY <1>b, <1>n, <1>4 DEF VoidDelete
  <2> QED BY <1>0, <2>1 DEF Pass, Handling
<1>5. ASSUME VoidRecord(p) PROVE pass'[p].pc = "void"
  BY <1>n, <1>5 DEF VoidRecord
<1>6. ASSUME ReadInputs(p) PROVE pass'[p].pc = "take"
  <2>1. pass'[p] = [r EXCEPT !.pc = "take", !.queue = r.left, !.inputs = inputs]
    BY <1>b, <1>6 DEF ReadInputs
  <2> QED BY <1>0, <2>1 DEF Pass
<1>7. ASSUME Take(p) PROVE pass'[p].pc = "evidence" /\ pass'[p].tip = Len(history)
  <2>1. PICK n : pass'[p] = [r EXCEPT !.pc = "evidence", !.name = n, !.tip = Len(history)]
    BY <1>b, <1>7 DEF Take
  <2> QED BY <1>0, <2>1 DEF Pass
<1>8. ASSUME Fingerprint(p)
      PROVE  \/ pass'[p].pc = "take"
             \/ r.pc = "evidence" /\ pass'[p] = [r EXCEPT !.pc = "refuse", !.evidence = EvidenceNow]
  BY <1>b, <1>n, <1>8 DEF Fingerprint, At
<1>9. ASSUME Refuse(p)
      PROVE  \/ pass'[p].pc = "answer"
             \/ r.pc = "refuse" /\ pass'[p] = [r EXCEPT !.pc = "judge"]
  <2>1. \/ \E o : Conclude(p, o)
        \/ Becomes(p, [r EXCEPT !.pc = "judge"])
    BY <1>9 DEF Refuse, Goto
  <2>2. r.pc = "refuse"
    BY <1>9 DEF Refuse, At
  <2> QED BY <1>b, <1>c, <2>1, <2>2
<1>10. ASSUME Judge(p)
       PROVE  \/ pass'[p].pc = "answer"
              \/ /\ r.pc = "judge" /\ Verdict(p) = "land"
                 /\ pass'[p] = [r EXCEPT !.pc = "final",
                                  !.source = SourceOf(Asked(p), r.tip, JudgedUnder(p))]
  <2> DEFINE s == [r EXCEPT !.pc = "final", !.source = SourceOf(Asked(p), r.tip, JudgedUnder(p))]
  <2>1. \/ Conclude(p, Verdict(p))
        \/ Verdict(p) = "land" /\ Becomes(p, s)
    BY <1>10 DEF Judge
  <2>2. r.pc = "judge"
    BY <1>10 DEF Judge, At
  <2> HIDE DEF s
  <2>3. \/ pass'[p].pc = "answer"
        \/ Verdict(p) = "land" /\ pass'[p] = s
    BY <1>b, <1>c, <2>1
  <2> QED BY <2>2, <2>3 DEF s
<1>11. ASSUME Final(p)
       PROVE  \/ pass'[p].pc = "answer"
              \/ r.pc = "final" /\ pass'[p] = [r EXCEPT !.pc = "prepare", !.tries = 1]
  BY <1>b, <1>c, <1>11 DEF Final, At
<1>12. ASSUME Prepare(p)
       PROVE  \/ pass'[p].pc = "answer"
              \/ r.pc = "prepare" /\ \E l : pass'[p] = [r EXCEPT !.pc = "apply", !.lease = l]
  BY <1>b, <1>c, <1>12 DEF Prepare, At
<1>13. ASSUME Land(p) \/ Answer(p) PROVE pass'[p].pc = "take"
  BY <1>n, <1>13 DEF Land, Answer
<1>14. ASSUME Contended(p)
       PROVE  \/ pass'[p].pc = "answer"
              \/ r.pc = "apply" /\ pass'[p] = [r EXCEPT !.pc = "prepare", !.lease = None, !.tries = @ + 1]
  BY <1>t, <1>14 DEF Contended, At
<1>15. ASSUME EndPass(p) \/ Crash(p) PROVE pass'[p].pc = "idle"
  <2>1. pass'[p] = IdlePass
    BY <1>b, <1>15 DEF EndPass, Crash
  <2> QED BY <2>1 DEF IdlePass
<1>16. ASSUME Fail(p)
       PROVE  \/ pass'[p].pc \notin Handling
              \/ r.pc = "apply" /\ pass'[p] = [r EXCEPT !.pc = "prepare", !.lease = None, !.tries = @ + 1]
              \/ r.pc = "evidence" /\ pass'[p] = [r EXCEPT !.pc = "refuse", !.evidence = EvidenceNow]
  <2>1. CASE Becomes(p, IdlePass)
    BY <1>b, <2>1 DEF IdlePass, Handling
  <2>2. CASE r.pc = "void" /\ Becomes(p, [r EXCEPT !.queue = @ \ First(@)])
    <3>1. pass'[p] = [r EXCEPT !.queue = @ \ First(@)]
      BY <1>b, <2>2
    <3> QED BY <1>0, <2>2, <3>1 DEF Pass, Handling
  <2>3. CASE NextRequest(p, "void") \/ NextRequest(p, "take")
    BY <1>n, <2>3 DEF Handling
  <2>4. CASE Becomes(p, [r EXCEPT !.pc = "take", !.queue = r.left, !.inputs = Unread])
    <3>1. pass'[p] = [r EXCEPT !.pc = "take", !.queue = r.left, !.inputs = Unread]
      BY <1>b, <2>4
    <3> QED BY <1>0, <3>1 DEF Pass, Handling
  <2>5. CASE Conclude(p, "failed")
    BY <1>c, <2>5 DEF Handling
  <2>6. CASE r.pc = "apply" /\ NotLanded(p)
    BY <1>t, <2>6 DEF Handling
  <2>7. CASE r.pc = "evidence" /\ Becomes(p, [r EXCEPT !.pc = "refuse", !.evidence = EvidenceNow])
    BY <1>b, <2>7
  <2>8. CASE Conclude(p, "refused-not-ready")
    BY <1>c, <2>8 DEF Handling
  <2>9. CASE Misjudge(p)
    <3>1. PICK o : pass'[p] = [r EXCEPT !.pc = "answer", !.outcome = o, !.misread = TRUE]
      BY <1>b, <2>9 DEF Misjudge, Misread
    <3> QED BY <1>0, <3>1 DEF Pass, Handling
  <2> QED BY <1>16, <2>1, <2>2, <2>3, <2>4, <2>5, <2>6, <2>7, <2>8, <2>9 DEF Fail, At
<1>17. CASE \/ r.pc = "evidence" /\ pass'[p] = [r EXCEPT !.pc = "refuse", !.evidence = EvidenceNow]
            \/ r.pc = "refuse" /\ pass'[p] = [r EXCEPT !.pc = "judge"]
            \/ r.pc = "final" /\ pass'[p] = [r EXCEPT !.pc = "prepare", !.tries = 1]
            \/ r.pc = "prepare" /\ \E l : pass'[p] = [r EXCEPT !.pc = "apply", !.lease = l]
            \/ r.pc = "apply" /\ pass'[p] = [r EXCEPT !.pc = "prepare", !.lease = None, !.tries = @ + 1]
  BY <1>0, <1>17 DEF Pass, Handling, Landing
<1>18. CASE /\ r.pc = "judge" /\ Verdict(p) = "land"
            /\ pass'[p] = [r EXCEPT !.pc = "final",
                              !.source = SourceOf(Asked(p), r.tip, JudgedUnder(p))]
  BY <1>0, <1>18 DEF Pass, Handling, Landing
<1> QED BY <1>1, <1>2, <1>3, <1>4, <1>5, <1>6, <1>7, <1>8, <1>9, <1>10, <1>11, <1>12, <1>13,
           <1>14, <1>15, <1>16, <1>17, <1>18 DEF PassStep, Handling

\* Every step leaves the target as it is or adds one commit to it.
LEMMA SameTrees ==
    ASSUME TypeOK, [Next]_vars
    PROVE  \/ UNCHANGED history
           \/ \E e \in Entry : history' = Append(history, e)
<1>1. CASE Elsewhere
  BY <1>1, ElsewhereAdds DEF Entry
<1>2. ASSUME NEW p \in Controller, Land(p) PROVE \E e \in Entry : history' = Append(history, e)
  BY <1>2, LandEntry
<1>3. ASSUME NEW p \in Controller, PassStep(p) \/ Fail(p) \/ Crash(p), ~Land(p)
      PROVE  UNCHANGED history
  BY <1>3, OnlyLandings
<1>4. CASE UNCHANGED vars
  BY <1>4 DEF vars, refs
<1> QED BY <1>1, <1>2, <1>3, <1>4 DEF Next

\* The past of the target does not change.
LEMMA PastStays ==
    ASSUME TypeOK, [Next]_vars
    PROVE  /\ Len(history) \in Nat /\ Len(history') \in Nat /\ Len(history) <= Len(history')
           /\ \A i \in 1..Len(history) : history'[i] = history[i]
           /\ \A k \in 0..Len(history) : TreeAt(k)' = TreeAt(k)
<1>0. Len(history) \in Nat
  BY DEF TypeOK, StoredOK
<1>1. CASE UNCHANGED history
  BY <1>0, <1>1 DEF TreeAt
<1>2. ASSUME NEW e \in Entry, history' = Append(history, e)
      PROVE  /\ Len(history') = Len(history) + 1
             /\ \A i \in 1..Len(history) : history'[i] = history[i]
             /\ \A k \in 0..Len(history) : TreeAt(k)' = TreeAt(k)
  BY <1>2, TargetGrows
<1> QED BY <1>0, <1>1, <1>2, SameTrees

\* Every step keeps that what lands was judged at its tip (act, land).
LEMMA NextJudged == TypeOK /\ JudgedInv /\ [Next]_vars => JudgedInv'
<1> SUFFICES ASSUME TypeOK, JudgedInv, [Next]_vars PROVE JudgedInv'
  OBVIOUS
<1>p. /\ Len(history) \in Nat /\ Len(history') \in Nat /\ Len(history) <= Len(history')
      /\ \A i \in 1..Len(history) : history'[i] = history[i]
  BY PastStays
<1>t. \A k \in 0..Len(history) : TreeAt(k)' = TreeAt(k)
  BY PastStays
<1>f. \A p \in Controller : pass[p] \in Pass
  BY DEF TypeOK, PassesOK
\* How the pass of p moves, whoever takes the step.
<1>1. ASSUME NEW p \in Controller, pass'[p].pc \in Handling
      PROVE  \/ pass'[p].pc = "evidence" /\ pass'[p].tip = Len(history)
             \/ /\ pass[p].pc \in Handling
                /\ pass'[p].tip = pass[p].tip /\ pass'[p].name = pass[p].name
                /\ pass'[p].listed = pass[p].listed
                /\ pass'[p].pc \in Landing =>
                      pass[p].pc \in Landing \/ Verdict(p) = "land"
  <2>1. CASE UNCHANGED pass
    BY <1>1, <2>1
  <2>2. ASSUME NEW q \in Controller, PassStep(q) \/ Fail(q) \/ Crash(q), q # p
        PROVE  pass'[p] = pass[p]
    BY <2>2, Others DEF TypeOK
  <2>3. CASE PassStep(p) \/ Fail(p) \/ Crash(p)
    BY <1>1, <2>3, Onward
  <2>4. Elsewhere \/ UNCHANGED vars => UNCHANGED pass
    BY DEF Elsewhere, Unapprove, Expire, Approve, WriteRecord, Relay, Attest, PushTarget,
           ChangeInputs, vars
  <2> QED BY <1>1, <2>1, <2>2, <2>3, <2>4 DEF Next
<1>2. TipWasRead'
  <2> SUFFICES ASSUME NEW p \in Controller, pass'[p].pc \in Handling
               PROVE  pass'[p].tip <= Len(history')
    BY DEF TipWasRead
  <2>1. CASE pass'[p].tip = Len(history)
    BY <1>p, <2>1
  <2>2. CASE pass[p].pc \in Handling /\ pass'[p].tip = pass[p].tip
    <3>1. pass[p].tip <= Len(history) /\ pass[p].tip \in Nat
      BY <1>f, <2>2 DEF JudgedInv, TipWasRead, Pass
    <3> QED BY <1>p, <2>2, <3>1
  <2> QED BY <1>1, <2>1, <2>2
<1>3. Judged'
  <2> SUFFICES ASSUME NEW p \in Controller, pass'[p].pc \in Landing
               PROVE  Applies(Asked(p), pass[p].tip)'
    BY DEF Judged
  <2>1. /\ pass[p].pc \in Handling
        /\ pass'[p].tip = pass[p].tip /\ pass'[p].name = pass[p].name
        /\ pass'[p].listed = pass[p].listed
        /\ pass[p].pc \in Landing \/ Verdict(p) = "land"
    BY <1>1 DEF Handling, Landing
  <2>2. Applies(Asked(p), pass[p].tip)
    <3>1. Verdict(p) = "land" => Applies(Asked(p), pass[p].tip)
      BY DEF Verdict, Decide
    <3> QED BY <2>1, <3>1 DEF JudgedInv, Judged
  <2>3. pass[p].tip \in 0..Len(history)
    BY <1>f, <1>p, <2>1 DEF JudgedInv, TipWasRead, Pass
  <2>4. Asked(p)' = Asked(p)
    BY <2>1 DEF Asked
  <2>5. PICK k \in 0..Len(history) : k = pass[p].tip /\ k = pass'[p].tip
    BY <2>1, <2>3
  <2>6. TreeAt(k)' = TreeAt(k)
    BY <1>t
  <2>7. Applies(Asked(p), k)'
    BY <2>2, <2>4, <2>5, <2>6 DEF Applies, Apart
  <2> QED BY <2>5, <2>7
<1>4. LandsWhatItJudged'
  <2> SUFFICES ASSUME NEW i \in 1..Len(history'), history'[i] # None
               PROVE  Applies(history[i].head, i - 1)'
    BY DEF LandsWhatItJudged
  <2>1. i \in Nat /\ i - 1 \in Nat
    BY <1>p
  <2>2. CASE i \in 1..Len(history)
    <3>1. history'[i] = history[i] /\ i - 1 \in 0..Len(history)
      BY <1>p, <2>2
    <3>2. TreeAt(i - 1)' = TreeAt(i - 1)
      BY <1>t, <3>1
    <3>3. Applies(history[i].head, i - 1)
      BY <2>2, <3>1 DEF JudgedInv, LandsWhatItJudged
    <3> QED BY <3>1, <3>2, <3>3 DEF Applies, Apart
  <2>3. ASSUME NEW p \in Controller, Land(p), i = Len(history) + 1
        PROVE  Applies(history[i].head, i - 1)'
    <3>1. /\ Len(history) = pass[p].tip /\ pass[p].pc = "apply"
          /\ history'[i].head = Asked(p)
      <4> DEFINE e == [name |-> pass[p].name, head |-> Asked(p)]
      <4>1. e \in Entry /\ history' = Append(history, e) /\ Len(history) = pass[p].tip
        BY <2>3, LandEntry
      <4>2. e.head = Asked(p) /\ pass[p].pc = "apply"
        BY <2>3 DEF Land, At
      <4> HIDE DEF e
      <4>3. history'[i] = e
        BY <2>3, <4>1, TargetGrows
      <4> QED BY <4>1, <4>2, <4>3
    <3>2. i - 1 = pass[p].tip /\ i - 1 \in 0..Len(history)
      BY <1>p, <2>3, <3>1
    <3>3. Applies(Asked(p), i - 1)
      BY <3>1, <3>2 DEF JudgedInv, Judged, Landing
    <3>4. TreeAt(i - 1)' = TreeAt(i - 1)
      BY <1>t, <3>2
    <3> QED BY <3>1, <3>3, <3>4 DEF Applies, Apart
  <2>4. CASE history' = Append(history, None)
    <3>1. None \in Entry
      BY DEF Entry
    <3>2. Len(history') = Len(history) + 1 /\ history'[Len(history) + 1] = None
      BY <2>4, <3>1, TargetGrows
    <3> QED BY <1>p, <2>2, <3>2
  <2>5. CASE UNCHANGED history
    BY <2>2, <2>5
  <2>6. ASSUME NEW p \in Controller, Land(p) PROVE Applies(history[i].head, i - 1)'
    <3>1. Len(history') = Len(history) + 1
      BY <2>6, LandEntry, TargetGrows
    <3>2. i \in 1..Len(history) \/ i = Len(history) + 1
      BY <1>p, <3>1
    <3> QED BY <2>2, <2>3, <2>6, <3>2
  <2>7. ASSUME NEW p \in Controller, PassStep(p) \/ Fail(p) \/ Crash(p), ~Land(p)
        PROVE  UNCHANGED history
    BY <2>7, OnlyLandings
  <2>8. CASE Elsewhere
    BY <2>4, <2>5, <2>8, ElsewhereAdds
  <2>9. CASE UNCHANGED vars
    BY <2>5, <2>9 DEF vars, refs
  <2> QED BY <2>5, <2>6, <2>7, <2>8, <2>9 DEF Next
<1> QED BY <1>2, <1>3, <1>4 DEF JudgedInv

\* A landing is made on the very tip its head was judged on: the delta that
\* lands applies there.
THEOREM LandingsApply == Spec => []LandsWhatItJudged
<1>1. Init => JudgedInv
  BY DEF Init, JudgedInv, TipWasRead, Judged, LandsWhatItJudged, IdlePass, Handling, Landing
<1>2. TypeOK /\ JudgedInv /\ [Next]_vars => JudgedInv'
  BY NextJudged
<1>3. JudgedInv => LandsWhatItJudged
  BY DEF JudgedInv
<1> QED BY <1>1, <1>2, <1>3, Typing, PTL DEF Spec
=============================================================================
