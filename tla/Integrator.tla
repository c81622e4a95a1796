----------------------------- MODULE Integrator -----------------------------
(***************************************************************************)
(* The integrator: a controller that reads the requests, records, evidence *)
(* and policy inputs of one served repository, judges each request, and    *)
(* lands the ones that pass (integrator/refs.go, records.go, inputs.go,    *)
(* transfer.go).                                                           *)
(*                                                                         *)
(* The repository's refs are shared with every pusher and with any other   *)
(* controller, so a pass is a sequence of separate reads and writes, and   *)
(* anything may happen between two of them.  Only the landing's one ref    *)
(* transaction compares what it replaces with what was read.               *)
(*                                                                         *)
(* One protected target is modelled.  It only ever gains commits, so a     *)
(* commit on it is named by its position in `history' and a tip by the     *)
(* length of the history it closes.                                        *)
(***************************************************************************)
EXTENDS Integers, Sequences, FiniteSets

CONSTANTS
    Controller,     \* the processes that run passes: watch, and reconcile by hand
    Name,           \* request names, numbered in ref order
    Heads,           \* the heads that may be requested
    Change,         \* change IDs
    Signer,         \* signers whose notes a push may store
    SignerSet,      \* contents the known-signers file may have
    Floor,          \* contents the floor may have
    None,           \* a ref that does not exist, or a field with no value yet
    Unread,         \* the inputs of a pass that could not read one of them
    NamedFor,       \* NamedFor[n]: the change a name c-<ID> is for, or None
    Brings,         \* Brings[h]: h and the version heads among its ancestors
    MergeHead,      \* the heads whose line of commits holds a merge
    Conflicts,      \* <<h, g>>: h's delta does not apply where g has landed
    Disturbs,       \* <<h, g>>: landing g changes the closures of h's checks
    NeedsEvidence,  \* the floors under which a change needs an attestation
    Successor,      \* Successor[i]: the inputs that may replace the inputs i
    LandingTries,   \* landingTries: tries of one landing's transaction
    NoteLimit,      \* the notes the push hook reads in one attestation ref
    MaxMoves,       \* bound: writes by pushers and by the host
    MaxFaults       \* bound: failures and crashes of controllers

Inputs == [floor : Floor, signers : SignerSet]

\* What a push straight to the target brings is one opaque delta, None.
Delta == Heads \cup {None}
Tree == SUBSET Delta

ASSUME ConstantsAssumption ==
    /\ Name \subseteq Nat
    /\ None \notin Heads \cup Change \cup Name \cup [name : Name, head : Heads]
    /\ Unread \notin Inputs /\ None \notin Inputs
    /\ SignerSet \subseteq SUBSET Signer
    /\ NamedFor \in [Name -> Change \cup {None}]
    /\ Brings \in [Heads -> SUBSET Heads] /\ \A h \in Heads : h \in Brings[h]
    /\ MergeHead \subseteq Heads
    /\ Conflicts \subseteq Heads \X Delta /\ Disturbs \subseteq Heads \X Delta
    /\ NeedsEvidence \subseteq Floor
    /\ Successor \in [Inputs -> SUBSET Inputs]
    /\ LandingTries \in Nat \ {0} /\ NoteLimit \in Nat
    /\ MaxMoves \in Nat /\ MaxFaults \in Nat

-----------------------------------------------------------------------------
(***************************************************************************)
(* State.                                                                  *)
(***************************************************************************)

VARIABLES
    history,    \* the target: what landed or was pushed, in order
    request,    \* request[n]: the head the request names, or None
    record,     \* record[c]: the change's record, or None
    attested,   \* attested[t]: who signed stored notes about the tree t
    transfer,   \* transfer[t]: the notes at the integrator's own ref for t
    landing,    \* landing[h]: the position the landing record names, or 0
    memo,       \* memo[n]: the outcome record, or None
    bound,      \* bound[n]: the inputs record, or None
    expired,    \* names whose recorded failure is older than retryAfter
    inputs,     \* the floor and the known-signers file, as they are now
    pass,       \* pass[p]: what the pass of controller p has read so far
    moves,      \* writes left to pushers and the host
    faults      \* failures and crashes left

\* History variables: nothing reads them but the properties.
VARIABLES
    filed,      \* filed[n][h]: how often h was requested under n
    quiet       \* quiet[p]: changes not ready since p's judgement began

refs == <<history, request, record, attested, transfer, landing, memo, bound>>
vars == <<refs, expired, inputs, pass, moves, faults, filed, quiet>>

\* An entry of the target: the landing of a head, or None for a direct push.
Entry == [name : Name, head : Heads] \cup {None}

\* A record, by what the integrator reads of it: its state, and the heads
\* its versions name.
Record == [state : {"ready", "draft", "withdrawn"}, heads : SUBSET Heads]

\* A note at the integrator's own attestation ref, by its path: a check's
\* countersigned note, a note of its that someone relayed, or the transfer
\* statement of the landing at one position.
Note == {"check", "relayed", "transfer"} \X Nat
CheckNote == <<"check", 0>>
RelayedNote == <<"relayed", 0>>
TransferNote(k) == <<"transfer", k>>

Evidence == [attested : [Tree -> SUBSET Signer], transfer : [Tree -> SUBSET Note]]

\* Whose evidence a landing stands on: nothing was required, the change's
\* own, or that of the tree that lands.
Source == {"none", "own", "direct"}

Refused == {"refused-not-ready", "refused-merge"}
Outcome == Refused \cup {"land", "stale", "reject", "voided-withdrawn", "failed"}
Memo == [head : Heads, tip : Nat, evidence : Evidence, outcome : Outcome]
Digest == Inputs \cup {Unread}

\* The inputs record: the inputs, and the outcome record they are bound to.
\* Here and in a pass, `misread' is history: it says that git or attest
\* failed under the verdict, which nothing the code stores tells.
Bound == [digest : Digest, memo : Memo, misread : BOOLEAN]
Lease == [transfer : [Tree -> SUBSET Note], landing : Nat,
          memo : Memo \cup {None}, standing : BOOLEAN]

Step == {"idle", "index", "void", "delete", "voided", "take", "evidence",
         "refuse", "judge", "final", "prepare", "apply", "answer"}

Pass == [pc : Step,
         listed   : [Name -> Heads \cup {None}],         \* requests()
         index    : [Change -> Record \cup {None}],     \* readRecords()
         queue    : SUBSET Name,        \* names this phase has still to take
         left     : SUBSET Name,        \* names left after the voiding
         name     : Name \cup {None},   \* the request being handled
         tip      : Nat,                \* its target's tip when it was taken
         evidence : Evidence \cup {None},       \* evidenceState()
         inputs   : Digest \cup {None},         \* inputState()
         source   : Source,             \* what the landing stands on
         outcome  : Outcome \cup {None},
         misread  : BOOLEAN,            \* git or attest failed under the verdict
         lease    : Lease \cup {None},  \* what prepareLanding read
         tries    : 0..LandingTries]

IdlePass == [pc |-> "idle", listed |-> [n \in Name |-> None],
             index |-> [c \in Change |-> None], queue |-> {}, left |-> {},
             name |-> None, tip |-> 0, evidence |-> None, inputs |-> None,
             source |-> "none", outcome |-> None, misread |-> FALSE, lease |-> None,
             tries |-> 0]

\* What a step has read of, once a pass has come to it.
PassShape(s) ==
    /\ \A n \in s.queue \cup s.left : s.listed[n] \in Heads
    /\ s.pc \notin {"idle", "index", "void", "take"} =>
            s.name \in Name /\ s.listed[s.name] \in Heads
    /\ s.pc \in {"delete", "voided", "refuse", "judge", "final", "prepare", "apply", "answer"}
            => s.evidence \in Evidence
    /\ s.pc \in {"take", "evidence", "refuse", "answer"} => s.inputs \in Digest
    /\ s.pc \in {"judge", "final", "prepare", "apply"} => s.inputs \in Inputs
    /\ s.pc = "apply" => s.lease \in Lease
    /\ s.pc = "answer" => s.outcome \in Outcome

PassesOK == pass \in [Controller -> Pass] /\ \A p \in Controller : PassShape(pass[p])

StoredOK ==
    /\ history \in Seq(Entry)
    /\ request \in [Name -> Heads \cup {None}]
    /\ record \in [Change -> Record \cup {None}]
    /\ attested \in [Tree -> SUBSET Signer]
    /\ transfer \in [Tree -> SUBSET Note]
    /\ landing \in [Heads -> Nat]
    /\ memo \in [Name -> Memo \cup {None}]
    /\ bound \in [Name -> Bound \cup {None}]
    /\ expired \subseteq Name
    /\ inputs \in Inputs
    /\ moves \in 0..MaxMoves /\ faults \in 0..MaxFaults
    /\ filed \in [Name -> [Heads -> Nat]]
    /\ quiet \in [Controller -> SUBSET Change]

TypeOK == StoredOK /\ PassesOK

\* A repository nothing has landed in yet, with any requests, records and
\* evidence the push hook admits.
Init ==
    /\ history = <<>>
    /\ request \in [Name -> Heads \cup {None}]
    /\ record \in [Change -> {r \in Record : r.heads # {}} \cup {None}]
    /\ attested \in [Tree -> SUBSET Signer]
    /\ transfer = [t \in Tree |-> {}]
    /\ landing = [h \in Heads |-> 0]
    /\ memo = [n \in Name |-> None]
    /\ bound = [n \in Name |-> None]
    /\ expired = {}
    /\ inputs \in Inputs
    /\ pass = [p \in Controller |-> IdlePass]
    /\ moves = MaxMoves /\ faults = MaxFaults
    /\ filed = [n \in Name |-> [h \in Heads |-> IF request[n] = h THEN 1 ELSE 0]]
    /\ quiet = [p \in Controller |-> {}]

-----------------------------------------------------------------------------
(***************************************************************************)
(* What a pass computes from what it has read.                             *)
(***************************************************************************)

\* The requests of S that come first in ref order: one, where S has any.
First(S) == {n \in S : \A m \in S : n <= m}

Asked(p) == pass[p].listed[pass[p].name]

EvidenceNow == [attested |-> attested, transfer |-> transfer]

\* The tree at the k-th tip, and the tree that landing h there makes.
TreeAt(k) == UNION {IF history[i] = None THEN {None} ELSE Brings[history[i].head] : i \in 1..k}
LandingTree(h, k) == TreeAt(k) \cup Brings[h]

\* Whether nothing at the k-th tip stands against h in the relation R.
Apart(R, h, k) == \A b \in Brings[h], g \in TreeAt(k) \ Brings[h] : <<b, g>> \notin R

Applies(h, k) == Apart(Conflicts, h, k)

\* Evidence for a tree: a note about it by a signer who counts.
Vouched(t, signers) == attested[t] \cap signers # {}


\* The commit rule for h at the k-th tip under the inputs i: the delta
\* applies, and evidence stands where the floor requires any.  The change's
\* own transfers while the closures it names are unchanged; the landing
\* tree's needs no transfer, and is preferred.
OwnStands(h, k, i) == Vouched(Brings[h], i.signers) /\ Apart(Disturbs, h, k)
DirectStands(h, k, i) ==
    LandingTree(h, k) # Brings[h] /\ Vouched(LandingTree(h, k), i.signers)

Decide(h, k, i) ==
    IF /\ Applies(h, k)
       /\ i.floor \notin NeedsEvidence \/ OwnStands(h, k, i) \/ DirectStands(h, k, i)
    THEN "land" ELSE "stale"

SourceOf(h, k, i) ==
    CASE i.floor \notin NeedsEvidence -> "none"
      [] i.floor \in NeedsEvidence /\ DirectStands(h, k, i) -> "direct"
      [] OTHER -> "own"

\* Mutant: a tree's transfer statement is stored the first time it lands.
Adds_OncePerTree(h, k, source, t) ==
    {m \in {TransferNote(k + 1)} :
        t = LandingTree(h, k) /\ \A j \in 1..k : TransferNote(j) \notin transfer[t]}

\* The notes that landing h on the k-th tip stores at the tree t's ref.
Adds(h, k, source, t) ==
    {m \in {CheckNote, TransferNote(k + 1)} :
        IF m = CheckNote THEN \/ source = "own" /\ t = Brings[h]
                              \/ source = "direct" /\ t = LandingTree(h, k)
                         ELSE t = LandingTree(h, k)}

Stores(h, k, source) == {t \in Tree : Adds(h, k, source, t) # {}}

\* Mutant: only the change a request is named for voids it.
Voiding_NamedOnly(idx, n, h) ==
    IF NamedFor[n] # None /\ idx[NamedFor[n]] # None /\ idx[NamedFor[n]].state = "withdrawn"
    THEN {NamedFor[n]} ELSE {}

\* The changes that void the request n for h, as the records in idx have
\* it: the withdrawn change n is named for, or else one with h as a version.
Withdrawn(idx, c) == idx[c] # None /\ idx[c].state = "withdrawn"
Voiding(idx, n, h) ==
    IF NamedFor[n] # None /\ Withdrawn(idx, NamedFor[n]) THEN {NamedFor[n]}
    ELSE {c \in Change : Withdrawn(idx, c) /\ h \in idx[c].heads}

\* The record rules.  The record n is named for is the stored one; any
\* record that holds back a head the request brings is looked up in idx.
NotReadied(n, h) ==
    /\ NamedFor[n] # None
    /\ LET r == record[NamedFor[n]]
       IN  r = None \/ r.state # "ready" \/ h \notin r.heads

\* Mutant: only the request's own head is looked up, not what is below it.
Paused_HeadOnly(idx, h) == \E c \in Change : /\ idx[c] # None /\ idx[c].state # "ready"
                                             /\ h \in idx[c].heads
Paused(idx, h) == \E c \in Change : /\ idx[c] # None /\ idx[c].state # "ready"
                                    /\ idx[c].heads \cap Brings[h] # {}
HeldBack(idx, n, h) == NotReadied(n, h) \/ Paused(idx, h)

\* The inputs the outcome record of n was written under, or None.
InputsOf(n) == IF bound[n] # None /\ memo[n] # None /\ bound[n].memo = memo[n]
               THEN bound[n].digest ELSE None

\* Mutant: an answer stands whatever the inputs have become.
Answered_NoInputs(n, h, k, e, d) ==
    /\ memo[n] # None /\ memo[n].head = h /\ memo[n].tip = k /\ memo[n].evidence = e
    /\ \/ memo[n].outcome \in {"land", "stale", "reject"}
       \/ memo[n].outcome = "failed" /\ n \notin expired

\* Whether the stored answer to n stands for head h, tip k, evidence e and
\* inputs d.
Answered(n, h, k, e, d) ==
    /\ memo[n] # None /\ InputsOf(n) = d
    /\ memo[n].head = h /\ memo[n].tip = k /\ memo[n].evidence = e
    /\ \/ memo[n].outcome \in {"land", "stale", "reject"} /\ d # Unread
       \/ memo[n].outcome = "failed" /\ n \notin expired

-----------------------------------------------------------------------------
(***************************************************************************)
(* A pass of the controller p.                                             *)
(***************************************************************************)

At(p, step) == pass[p].pc = step
Becomes(p, s) == pass' = [pass EXCEPT ![p] = s]
Goto(p, step) == Becomes(p, [pass[p] EXCEPT !.pc = step])
Conclude(p, outcome) == Becomes(p, [pass[p] EXCEPT !.pc = "answer", !.outcome = outcome])

\* The pass is done with the request at hand and goes on at step.
NextRequest(p, step) ==
    Becomes(p, [pass[p] EXCEPT !.pc = step, !.queue = @ \ {pass[p].name}, !.name = None,
                          !.tip = 0, !.evidence = None, !.source = "none",
                          !.outcome = None, !.misread = FALSE, !.lease = None,
                          !.tries = 0])

host == <<inputs, moves, faults, filed>>

\* requests(): a pass over no request does nothing more.
List(p) ==
    /\ At(p, "idle") /\ \E n \in Name : request[n] # None
    /\ Becomes(p, [IdlePass EXCEPT !.pc = "index", !.listed = request])
    /\ UNCHANGED <<refs, expired, host, quiet>>

\* readRecords(), and which requests voidWithdrawn will void.
ReadIndex(p) ==
    /\ At(p, "index")
    /\ LET pending == {n \in Name : pass[p].listed[n] # None}
       IN  Becomes(p, [pass[p] EXCEPT !.pc = "void", !.index = record, !.left = pending,
                !.queue = {n \in pending : Voiding(record, n, pass[p].listed[n]) # {}}])
    /\ UNCHANGED <<refs, expired, host, quiet>>

\* void(), up to the deletion: the record is read again, and the request is
\* kept unless the record still voids it.
VoidRead(p) ==
    /\ At(p, "void")
    /\ \E n \in First(pass[p].queue) :
       LET h == pass[p].listed[n]
       IN  \E c \in Voiding(pass[p].index, n, h) :
            IF Withdrawn(record, c) /\ (NamedFor[n] = c \/ h \in record[c].heads)
            THEN Becomes(p, [pass[p] EXCEPT !.pc = "delete", !.name = n,
                                            !.tip = Len(history), !.evidence = EvidenceNow])
            ELSE Becomes(p, [pass[p] EXCEPT !.queue = @ \ {n}])
    /\ UNCHANGED <<refs, expired, host, quiet>>

\* The deletion, leased on the head the pass listed.
VoidDelete(p) ==
    /\ At(p, "delete")
    /\ LET n == pass[p].name
       IN  IF request[n] = Asked(p)
           THEN /\ request' = [request EXCEPT ![n] = None]
                /\ Becomes(p, [pass[p] EXCEPT !.pc = "voided", !.left = @ \ {n}])
           ELSE NextRequest(p, "void") /\ UNCHANGED request
    /\ UNCHANGED <<history, record, attested, transfer, landing, memo, bound, expired, host, quiet>>

MemoOf(p, outcome) == [head |-> Asked(p), tip |-> pass[p].tip,
                       evidence |-> pass[p].evidence, outcome |-> outcome]

\* The voiding's outcome record, written without an inputs record.
VoidRecord(p) ==
    /\ At(p, "voided")
    /\ memo' = [memo EXCEPT ![pass[p].name] = MemoOf(p, "voided-withdrawn")]
    /\ expired' = expired \ {pass[p].name}
    /\ NextRequest(p, "void")
    /\ UNCHANGED <<history, request, record, attested, transfer, landing, bound, host, quiet>>

\* inputState(): the floor is copied and the known-signers file read once.
ReadInputs(p) ==
    /\ At(p, "void") /\ pass[p].queue = {}
    /\ Becomes(p, [pass[p] EXCEPT !.pc = "take", !.queue = pass[p].left, !.inputs = inputs])
    /\ UNCHANGED <<refs, expired, host, quiet>>

Take(p) ==
    /\ At(p, "take")
    /\ \E n \in First(pass[p].queue) :
        Becomes(p, [pass[p] EXCEPT !.pc = "evidence", !.name = n, !.tip = Len(history)])
    /\ UNCHANGED <<refs, expired, host, quiet>>

\* evidenceState(), and the request is skipped where its answer stands.
Fingerprint(p) ==
    /\ At(p, "evidence")
    /\ IF Answered(pass[p].name, Asked(p), pass[p].tip, EvidenceNow, pass[p].inputs)
       THEN NextRequest(p, "take")
       ELSE Becomes(p, [pass[p] EXCEPT !.pc = "refuse", !.evidence = EvidenceNow])
    /\ UNCHANGED <<refs, expired, host, quiet>>

\* refuse(), under the records as indexed; then no verdict is reached
\* under inputs that did not read.
Refuse(p) ==
    /\ At(p, "refuse")
    /\ CASE HeldBack(pass[p].index, pass[p].name, Asked(p)) -> Conclude(p, "refused-not-ready")
         [] ~HeldBack(pass[p].index, pass[p].name, Asked(p)) /\ Asked(p) \in MergeHead
                -> Conclude(p, "refused-merge")
         [] OTHER -> IF pass[p].inputs = Unread THEN Conclude(p, "failed") ELSE Goto(p, "judge")
    /\ UNCHANGED <<refs, expired, host, quiet>>

\* What the verdict is decided under: the pass's copy of the floor, and the
\* known-signers file as attest reads it again.
JudgedUnder(p) == [floor |-> pass[p].inputs.floor, signers |-> inputs.signers]

Verdict(p) == Decide(Asked(p), pass[p].tip, JudgedUnder(p))

\* materialize() and Decide(), and for a landing composeTransfer() and
\* countersign().
Judge(p) ==
    /\ At(p, "judge")
    /\ IF Verdict(p) = "land"
       THEN Becomes(p, [pass[p] EXCEPT !.pc = "final",
                        !.source = SourceOf(Asked(p), pass[p].tip, JudgedUnder(p))])
       ELSE Conclude(p, Verdict(p))
    /\ quiet' = [quiet EXCEPT ![p] = {c \in Change : record[c] # None /\ record[c].state # "ready"}]
    /\ UNCHANGED <<refs, expired, host>>

\* finalRefusal(): every record is read again.
Final(p) ==
    /\ At(p, "final")
    /\ IF HeldBack(record, pass[p].name, Asked(p)) THEN Conclude(p, "refused-not-ready")
       ELSE Becomes(p, [pass[p] EXCEPT !.pc = "prepare", !.tries = 1])
    /\ UNCHANGED <<refs, expired, host, quiet>>

\* What a landing stores at the ref of the tree t that holds these notes.
Stored(p, t) == Adds(Asked(p), pass[p].tip, pass[p].source, t)

\* Mutant: the notes already there are measured, not what they become.
Readable_AsRead(p) ==
    \A t \in Stores(Asked(p), pass[p].tip, pass[p].source) : Cardinality(transfer[t]) <= NoteLimit

\* hookReadable(): every note set the landing would store can be read back.
Readable(p) ==
    \A t \in Stores(Asked(p), pass[p].tip, pass[p].source) :
        Cardinality(transfer[t] \cup Stored(p, t)) <= NoteLimit

\* Mutant: a landing leaves its request standing.
Standing_Never(p) == FALSE

\* Whether the landing consumes the request: only while it names what lands.
Standing(p) == request[pass[p].name] = Asked(p)

\* prepareLanding(): a note set past what the push hook reads fails.
Prepare(p) ==
    /\ At(p, "prepare")
    /\ IF Readable(p)
       THEN Becomes(p, [pass[p] EXCEPT !.pc = "apply",
                !.lease = [transfer |-> transfer, landing |-> landing[Asked(p)],
                              memo |-> memo[pass[p].name],
                              standing |-> Standing(p)]])
       ELSE Conclude(p, "failed")
    /\ UNCHANGED <<refs, expired, host, quiet>>

\* Mutants: the transaction does not compare the target, the evidence refs,
\* or the request.
Matches_NoTarget(p) ==
    /\ \A t \in Stores(Asked(p), pass[p].tip, pass[p].source) :
            transfer[t] = pass[p].lease.transfer[t]
    /\ pass[p].lease.standing => request[pass[p].name] = Asked(p)
Matches_NoEvidence(p) ==
    /\ Len(history) = pass[p].tip
    /\ pass[p].lease.standing => request[pass[p].name] = Asked(p)
Matches_NoRequest(p) ==
    /\ Len(history) = pass[p].tip
    /\ \A t \in Stores(Asked(p), pass[p].tip, pass[p].source) :
            transfer[t] = pass[p].lease.transfer[t]

\* Every ref of the transaction still has the value it was read at.
Matches(p) ==
    LET lease == pass[p].lease IN
    /\ Len(history) = pass[p].tip
    /\ \A t \in Stores(Asked(p), pass[p].tip, pass[p].source) : transfer[t] = lease.transfer[t]
    /\ landing[Asked(p)] = lease.landing
    /\ memo[pass[p].name] = lease.memo
    /\ lease.standing => request[pass[p].name] = Asked(p)

\* The commit point: the target, the evidence, the landing record, the
\* outcome record and the request move together.
Land(p) ==
    /\ At(p, "apply") /\ Matches(p)
    /\ LET n == pass[p].name
           h == Asked(p)
       IN  /\ history' = Append(history, [name |-> n, head |-> h])
           /\ transfer' = [t \in Tree |-> IF Stored(p, t) = {} THEN transfer[t]
                                        ELSE pass[p].lease.transfer[t] \cup Stored(p, t)]
           /\ landing' = [landing EXCEPT ![h] = Len(history) + 1]
           /\ memo' = [memo EXCEPT ![n] = MemoOf(p, "land")]
           /\ expired' = expired \ {n}
           /\ request' = IF pass[p].lease.standing THEN [request EXCEPT ![n] = None] ELSE request
    /\ NextRequest(p, "take")
    /\ UNCHANGED <<record, attested, bound, host, quiet>>

\* Mutant: a record ref that moved is tried again without end.
NotLanded_Forever(p) ==
    IF Len(history) # pass[p].tip THEN Conclude(p, "failed")
    ELSE Becomes(p, [pass[p] EXCEPT !.pc = "prepare", !.lease = None, !.tries = @ + 1])

\* The transaction failed.  A target that moved ends the attempt; a record
\* ref that moved is read again, landingTries times in all.
NotLanded(p) ==
    IF Len(history) # pass[p].tip \/ pass[p].tries = LandingTries THEN Conclude(p, "failed")
    ELSE Becomes(p, [pass[p] EXCEPT !.pc = "prepare", !.lease = None, !.tries = @ + 1])

Contended(p) ==
    /\ At(p, "apply") /\ ~Matches(p) /\ NotLanded(p)
    /\ UNCHANGED <<refs, expired, host, quiet>>

\* writeAnswer(): the outcome record and the inputs record move together,
\* compared with nothing.
Answer(p) ==
    /\ At(p, "answer")
    /\ LET n == pass[p].name
           m == MemoOf(p, pass[p].outcome)
       IN  /\ memo' = [memo EXCEPT ![n] = m]
           /\ bound' = [bound EXCEPT ![n] = [digest |-> pass[p].inputs, memo |-> m,
                                              misread |-> pass[p].misread]]
           /\ expired' = expired \ {n}
    /\ NextRequest(p, "take")
    /\ UNCHANGED <<history, request, record, attested, transfer, landing, host, quiet>>

EndPass(p) ==
    /\ At(p, "take") /\ pass[p].queue = {}
    /\ Becomes(p, IdlePass)
    /\ quiet' = [quiet EXCEPT ![p] = {}]
    /\ UNCHANGED <<refs, expired, host>>

\* Whether a note that attest does not get to verify rejects h: it is
\* taken for a tampered one, and judged where no other note about its tree
\* counts.
Unverified(h, k, i) ==
    /\ i.floor \in NeedsEvidence /\ Applies(h, k)
    /\ \E t \in {Brings[h], LandingTree(h, k)} :
            \E s \in attested[t] : attested[t] \cap i.signers \subseteq {s}

Misread(p, outcome) ==
    Becomes(p, [pass[p] EXCEPT !.pc = "answer", !.outcome = outcome, !.misread = TRUE])

\* The failures a verdict is reached on.  Past the tip the head was built
\* on, a git merge-tree that fails reads as a conflict, and an attest
\* inputs that fails as a check whose evidence does not transfer.
Misjudge(p) ==
    \/ pass[p].tip > 0 /\ Misread(p, "stale")
    \/ Unverified(Asked(p), pass[p].tip, JudgedUnder(p)) /\ Misread(p, "reject")

\* One git command, attest command or file of the step at hand fails.  An
\* answer that does not read is no answer, and the record a request is
\* named for that does not read is not ready.
Fail(p) ==
    /\ faults > 0 /\ faults' = faults - 1
    /\ \/ At(p, "index") /\ Becomes(p, IdlePass)
       \/ /\ At(p, "void") /\ pass[p].queue # {}
          /\ Becomes(p, [pass[p] EXCEPT !.queue = @ \ First(@)])
       \/ pass[p].pc \in {"delete", "voided"} /\ NextRequest(p, "void")
       \/ /\ At(p, "void") /\ pass[p].queue = {}
          /\ Becomes(p, [pass[p] EXCEPT !.pc = "take", !.queue = pass[p].left,
                                  !.inputs = Unread])
       \/ pass[p].pc \in {"evidence", "answer"} /\ NextRequest(p, "take")
       \/ At(p, "evidence") /\ Becomes(p, [pass[p] EXCEPT !.pc = "refuse", !.evidence = EvidenceNow])
       \/ /\ pass[p].pc \in {"refuse", "final"} /\ NamedFor[pass[p].name] # None
          /\ Conclude(p, "refused-not-ready")
       \/ pass[p].pc \in {"refuse", "judge", "final", "prepare"} /\ Conclude(p, "failed")
       \/ At(p, "judge") /\ Misjudge(p)
       \/ At(p, "apply") /\ NotLanded(p)
    /\ UNCHANGED <<refs, expired, inputs, moves, filed, quiet>>

\* The process dies, or the unit is stopped: what it read is gone.
Crash(p) ==
    /\ ~At(p, "idle") /\ faults > 0 /\ faults' = faults - 1
    /\ Becomes(p, IdlePass)
    /\ quiet' = [quiet EXCEPT ![p] = {}]
    /\ UNCHANGED <<refs, expired, inputs, moves, filed>>

-----------------------------------------------------------------------------
(***************************************************************************)
(* Everything else that writes the refs, as the push hook admits it, and   *)
(* the host.                                                               *)
(***************************************************************************)

Move == moves > 0 /\ moves' = moves - 1

Approve(n, h) ==
    /\ Move /\ request[n] # h
    /\ request' = [request EXCEPT ![n] = h]
    /\ filed' = [filed EXCEPT ![n][h] = @ + 1]
    /\ UNCHANGED <<history, record, attested, transfer, landing, memo, bound,
                   expired, inputs, pass, faults, quiet>>

Unapprove(n) ==
    /\ Move /\ request[n] # None
    /\ request' = [request EXCEPT ![n] = None]
    /\ UNCHANGED <<history, record, attested, transfer, landing, memo, bound,
                   expired, inputs, pass, faults, filed, quiet>>

\* What the push hook lets replace the record r: the rows of checkRecord.
NextRecords(r) ==
    IF r = None THEN {[state |-> "ready", heads |-> {h}] : h \in Heads}
    ELSE {[state |-> s, heads |-> r.heads] :
             s \in {"ready", "draft", "withdrawn"}
                     \ (IF r.state = "withdrawn" THEN {"draft", "withdrawn"} ELSE {r.state})}
         \cup {[state |-> "ready", heads |-> r.heads \cup {h}] : h \in Heads}
         \cup {None}

WriteRecord(c) ==
    /\ Move
    /\ \E r \in NextRecords(record[c]) :
        /\ record' = [record EXCEPT ![c] = r]
        /\ quiet' = IF r # None /\ r.state # "ready" THEN quiet
                    ELSE [p \in Controller |-> quiet[p] \ {c}]
    /\ UNCHANGED <<history, request, attested, transfer, landing, memo, bound,
                   expired, inputs, pass, faults, filed>>

\* The trees a worker attests: a head's own, and the one it would land.
Attestable == UNION {{Brings[h], LandingTree(h, Len(history))} : h \in Heads}

Attest(t, s) ==
    /\ Move /\ t \in Attestable /\ s \notin attested[t]
    /\ attested' = [attested EXCEPT ![t] = @ \cup {s}]
    /\ UNCHANGED <<history, request, record, transfer, landing, memo, bound,
                   expired, inputs, pass, faults, filed, quiet>>

\* Someone pushes a note of the integrator's own to its ref for t.
Relay(t) ==
    /\ Move /\ t \in Attestable
    /\ RelayedNote \notin transfer[t] /\ Cardinality(transfer[t]) < NoteLimit
    /\ transfer' = [transfer EXCEPT ![t] = @ \cup {RelayedNote}]
    /\ UNCHANGED <<history, request, record, attested, landing, memo, bound,
                   expired, inputs, pass, faults, filed, quiet>>

PushTarget ==
    /\ Move
    /\ history' = Append(history, None)
    /\ UNCHANGED <<request, record, attested, transfer, landing, memo, bound,
                   expired, inputs, pass, faults, filed, quiet>>

\* The floor lands a change, or the known-signers file is compiled again.
ChangeInputs ==
    /\ Move
    /\ inputs' \in Successor[inputs]
    /\ UNCHANGED <<refs, expired, pass, faults, filed, quiet>>

\* retryAfter runs out on a recorded failure.
Expire(n) ==
    /\ memo[n] # None /\ n \notin expired
    /\ memo[n].outcome = "failed"
    /\ expired' = expired \cup {n}
    /\ UNCHANGED <<refs, host, pass, quiet>>

-----------------------------------------------------------------------------
PassStep(p) ==
    \/ List(p) \/ ReadIndex(p)
    \/ VoidRead(p) \/ VoidDelete(p) \/ VoidRecord(p) \/ ReadInputs(p)
    \/ Take(p) \/ Fingerprint(p) \/ Refuse(p) \/ Judge(p) \/ Final(p)
    \/ Prepare(p) \/ Land(p) \/ Contended(p) \/ Answer(p) \/ EndPass(p)

Elsewhere ==
    \/ \E n \in Name : Unapprove(n) \/ Expire(n)
    \/ \E n \in Name, h \in Heads : Approve(n, h)
    \/ \E c \in Change : WriteRecord(c)
    \/ \E t \in Tree : Relay(t) \/ \E s \in Signer : Attest(t, s)
    \/ PushTarget \/ ChangeInputs

Next == Elsewhere \/ \E p \in Controller : PassStep(p) \/ Fail(p) \/ Crash(p)

Spec == Init /\ [][Next]_vars

\* watch starts a pass at each interval and a pass runs to its end, and a
\* recorded failure grows old.  Nothing else is promised: no one has to
\* push, and nothing has to fail.
Fairness ==
    /\ \A p \in Controller : WF_vars(PassStep(p))
    /\ \A n \in Name : WF_vars(Expire(n))

FairSpec == Spec /\ Fairness
-----------------------------------------------------------------------------
(***************************************************************************)
(* Properties.                                                             *)
(***************************************************************************)

\* Every landing is recorded: its transfer statement is stored at the ref of
\* the tree that landed, however often that tree landed before, and the
\* landing record of its head names a landing of that head, the last one.
LandingsRecorded ==
    /\ \A i \in 1..Len(history) : history[i] # None =>
            /\ TransferNote(i) \in transfer[LandingTree(history[i].head, i - 1)]
            /\ landing[history[i].head] >= i
    /\ \A h \in Heads : landing[h] # 0 =>
            /\ landing[h] <= Len(history)
            /\ history[landing[h]] # None /\ history[landing[h]].head = h

\* What lands applies to the very tip it lands on, though the tip may move
\* while its verdict is being reached and its statement signed.
LandsWhatItJudged ==
    \A i \in 1..Len(history) : history[i] # None => Applies(history[i].head, i - 1)

\* No landing stores more at one ref than the push hook can read, so that a
\* ref the integrator wrote keeps taking notes from pushes.
EvidenceReadable == \A t \in Tree : Cardinality(transfer[t]) <= NoteLimit

\* Whether the stored answer to n makes a pass skip the request.
SkippedNow(n) ==
    request[n] # None /\ Answered(n, request[n], Len(history), EvidenceNow, inputs)

\* An answer that makes a pass skip a request is the answer a pass would
\* reach now: no request is passed over that would land, but for one whose
\* verdict git or attest failed under.
StandingAnswerIsTrue ==
    \A n \in Name :
        SkippedNow(n) /\ ~bound[n].misread
            => memo[n].outcome \in {"failed", Decide(request[n], Len(history), inputs)}

\* Published evidence is never dropped or replaced, by a landing that builds
\* its note sets from a read other writers have overtaken.
EvidenceKept == [][\A t \in Tree : transfer[t] \subseteq transfer'[t]]_vars

\* A controller takes away a request only by landing the head it names, or
\* by voiding it at the head the pass listed: an approval filed meanwhile
\* stays.  (A pusher's removal spends a move.)
ApprovalKept ==
    [][\A n \in Name : request'[n] # request[n] /\ moves' = moves =>
        /\ request'[n] = None
        /\ \/ history' = Append(history, [name |-> n, head |-> request[n]])
           \/ \E p \in Controller : At(p, "delete") /\ pass[p].name = n /\ Asked(p) = request[n]
      ]_vars

\* A change that stays unready from the verdict on a request to its landing
\* lands none of its version heads, under any name and below any head.
PausedNeverLands ==
    [][\A p \in Controller : At(p, "apply") /\ history' # history /\ pass'[p] # pass[p] =>
        \A c \in quiet[p] : record[c].heads \cap Brings[Asked(p)] = {}
      ]_vars

\* Whether a withdrawn change voids the request n for h: the change it is
\* named for, or one with h as a version.
Voided(n, h) ==
    \E c \in Change : Withdrawn(record, c) /\ (NamedFor[n] = c \/ h \in record[c].heads)

\* A request is voided only while a change that voids it is withdrawn
\* (docs/architecture.md, the integrator's step 2).
VoidsOnlyWhileWithdrawn ==
    [][\A n \in Name :
        request[n] # None /\ request'[n] = None /\ moves' = moves /\ history' = history
            => Voided(n, request[n])
      ]_vars

\* Whether a pass that nothing interrupts would land the request n.
WouldLand(n) ==
    LET h == request[n] IN
    /\ h # None /\ h \notin MergeHead /\ ~HeldBack(record, n, h)
    /\ Decide(h, Len(history), inputs) = "land"
    /\ \A t \in Tree : Cardinality(transfer[t]) + 2 <= NoteLimit

\* Once pushes and failures cease, a request that could land stays behind
\* only where the answer that stands is a verdict git or attest failed
\* under: every other answer, a recorded failure with them, is taken up again.
EventuallyServed ==
    <>[](\A n \in Name : WouldLand(n) => SkippedNow(n) /\ bound[n].misread)

\* Once pushes and failures cease, no request is left that a withdrawn
\* change voids.
WithdrawalVoids ==
    <>[](\A n \in Name : request[n] # None => ~Voided(n, request[n]))

\* One landing spends one approval: the integrator keeps the promise of
\* LandingPromise, where what is owed is what was filed and has not landed.
Landed(n, h) == Cardinality({i \in 1..Len(history) : history[i] = [name |-> n, head |-> h]})
owed == [n \in Name |-> [h \in Heads |-> filed[n][h] - Landed(n, h)]]
Promise == INSTANCE LandingPromise WITH
    Name <- Name, Heads <- Heads, None <- None,
    history <- history, request <- request, owed <- owed
OneLandingPerApproval == Promise!Spec
=============================================================================
