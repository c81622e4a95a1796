--------------------------- MODULE PushHookProofs ---------------------------
(***************************************************************************)
(* Proofs about pushes to records and reports, for any principals, changes *)
(* and bounds, and any number of pushes beside one another: what a record  *)
(* ref holds, that records follow ChangeLifecycle, and that no more of     *)
(* them are held than the hook allows.                                     *)
(***************************************************************************)
EXTENDS PushHook, SequenceTheorems, FiniteSetTheorems, TLAPS

-----------------------------------------------------------------------------
(***************************************************************************)
(* Histories.                                                              *)
(***************************************************************************)

\* What every record ref's history keeps: seq is the place, the commits hold
\* the heads of the versions, and the newest version is active.
Kept(s) ==
    /\ s \in Seq(Commit)
    /\ \A i \in 1..Len(s) : s[i].record.seq = i
    /\ s # <<>> =>
          LET r == Newest(s).record IN
          /\ \A j \in 1..Len(r.versions) : \E i \in 1..Len(s) : r.versions[j].head = s[i].head
          /\ r.active = Len(r.versions)

\* What SubSeq from the first is.
LEMMA PrefixIs ==
  ASSUME NEW S, NEW s \in Seq(S), NEW n \in 0..Len(s)
  PROVE  /\ SubSeq(s, 1, n) \in Seq(S) /\ Len(SubSeq(s, 1, n)) = n
         /\ \A i \in 1..n : SubSeq(s, 1, n)[i] = s[i]
<1>1. n \in Nat /\ \A i \in 1..n : s[i] \in S  BY ElementOfSeq
<1>2. /\ SubSeq(s, 1, n) \in Seq(S)
      /\ Len(SubSeq(s, 1, n)) = IF 1 <= n THEN n - 1 + 1 ELSE 0
      /\ \A i \in 1..n - 1 + 1 : SubSeq(s, 1, n)[i] = s[1 + i - 1]
  BY <1>1, SubSeqProperties
<1>3. \A i \in 1..n : i \in 1..n - 1 + 1 /\ s[1 + i - 1] = s[i]  BY <1>1
<1> QED  BY <1>1, <1>2, <1>3

\* A history that is not empty has a newest commit, and those it is onto.
LEMMA OntoIs ==
  ASSUME NEW S, NEW s \in Seq(S), s # <<>>
  PROVE  /\ Len(s) \in Nat \ {0} /\ Newest(s) \in S
         /\ Onto(s) \in Seq(S) /\ Len(Onto(s)) = Len(s) - 1
         /\ \A i \in 1..Len(s) - 1 : Onto(s)[i] = s[i]
<1>1. Len(s) \in Nat \ {0}  BY EmptySeq
<1>2. Newest(s) \in S  BY <1>1, ElementOfSeq DEF Newest
<1>3. /\ Onto(s) \in Seq(S) /\ Len(Onto(s)) = Len(s) - 1
      /\ \A i \in 1..Len(s) - 1 : Onto(s)[i] = s[i]
  <2>1. Len(s) - 1 \in 0..Len(s)  BY <1>1
  <2> QED  BY <2>1, PrefixIs DEF Onto
<1> QED  BY <1>1, <1>2, <1>3

\* The newest commit's record has a version at least.
LEMMA NewestIs ==
  ASSUME NEW s \in Seq(Commit), s # <<>>
  PROVE  LET r == Newest(s).record IN
         /\ r \in Record /\ r.versions \in Seq(Version) /\ Len(r.versions) \in Nat \ {0}
         /\ r.owner \in Principal /\ r.state \in State /\ r.seq \in 1..MaxSeq
         /\ r.active \in 1..Len(r.versions)
         /\ ActiveVersion(r) \in Version /\ Newest(r.versions) \in Version
<1> DEFINE r == Newest(s).record
<1>1. Newest(s) \in Commit  BY OntoIs
<1>2. /\ r \in Record /\ r.versions \in Seq(Version)
      /\ r.owner \in Principal /\ r.state \in State /\ r.seq \in 1..MaxSeq
      /\ r.active \in 1..Len(r.versions)
  BY <1>1 DEF Commit, Record
<1>3. Len(r.versions) \in Nat \ {0}  BY <1>2
<1>4. ActiveVersion(r) \in Version /\ Newest(r.versions) \in Version
  BY <1>2, <1>3, ElementOfSeq DEF ActiveVersion, Newest
<1> QED  BY <1>2, <1>3, <1>4

\* A record's first commit is of its one version.
LEMMA CreateKeeps ==
  ASSUME NEW p, NEW new \in Seq(Commit), new # <<>>, CheckCreate(p, new)
  PROVE  Kept(new)
BY NewestIs DEF CheckCreate, Kept, Newest

\* What the rows after create admit continues the history.
LEMMA UpdateKeeps ==
  ASSUME NEW p, NEW old, Kept(old), old # <<>>, NEW new \in Seq(Commit), new # <<>>,
         CheckUpdate(p, old, new)
  PROVE  Kept(new)
<1> DEFINE before == Newest(old).record
           after == Newest(new).record
           n == Len(new)
<1>1. /\ n \in Nat \ {0} /\ Len(old) = n - 1
      /\ \A i \in 1..n - 1 : new[i] = old[i]
  BY OntoIs DEF CheckUpdate
<1>2. old \in Seq(Commit)  BY DEF Kept
<1>3. n - 1 \in Nat \ {0}  BY <1>1, <1>2, OntoIs
<1>4. before.seq = n - 1  BY <1>1, <1>3 DEF Kept, Newest
<1>5. before.active = Len(before.versions)  BY DEF Kept
<1>6. \A j \in 1..Len(before.versions) : \E i \in 1..n - 1 : before.versions[j].head = new[i].head
  BY <1>1 DEF Kept
<1>7. after.versions \in Seq(Version) /\ before.versions \in Seq(Version)
  BY <1>2, NewestIs
<1>8. CASE Newest(new).head = None
  <2>1. after.seq = n /\ after.active = before.active /\ after.versions = before.versions
    BY <1>4, <1>8 DEF CheckUpdate, CheckStateChange
  <2>2. \A i \in 1..n : new[i].record.seq = i
    <3>1. \A i \in 1..n - 1 : new[i].record.seq = i  BY <1>1 DEF Kept
    <3> QED  BY <3>1, <2>1, <1>1 DEF Newest
  <2>3. \A j \in 1..Len(after.versions) : \E i \in 1..n : after.versions[j].head = new[i].head
    BY <2>1, <1>6, <1>3
  <2> QED  BY <1>1, <1>5, <2>1, <2>2, <2>3 DEF Kept
<1>9. CASE Newest(new).head # None
  <2>1. CheckNewVersion(p, before, after, Newest(new).head)
    BY <1>9 DEF CheckUpdate
  <2>2. /\ after.seq = n /\ after.active = Len(after.versions)
        /\ Len(after.versions) = Len(before.versions) + 1
        /\ SubSeq(after.versions, 1, Len(before.versions)) = before.versions
        /\ Newest(after.versions).head = new[n].head
    <3>1. after.seq = before.seq + 1 /\ Newest(after.versions).head = Newest(new).head
      BY <2>1 DEF CheckNewVersion
    <3>2. Newest(new) = new[n]  BY <1>1 DEF Newest
    <3>3. n \in Nat  BY <1>3
    <3> HIDE DEF n, before, after
    <3>4. after.seq = n  BY <1>4, <3>1, <3>3
    <3> QED  BY <2>1, <3>1, <3>2, <3>4 DEF CheckNewVersion
  <2>3. \A j \in 1..Len(before.versions) : after.versions[j] = before.versions[j]
    <3>1. Len(before.versions) \in 0..Len(after.versions)  BY <1>7, <2>2
    <3> QED  BY <1>7, <2>2, <3>1, PrefixIs
  <2>5. \A i \in 1..n : new[i].record.seq = i
    <3>1. \A i \in 1..n - 1 : new[i].record.seq = i  BY <1>1 DEF Kept
    <3> QED  BY <3>1, <2>2, <1>1 DEF Newest
  <2>4. \A j \in 1..Len(after.versions) : \E i \in 1..n : after.versions[j].head = new[i].head
    <3> SUFFICES ASSUME NEW j \in 1..Len(after.versions)
                 PROVE  \E i \in 1..n : after.versions[j].head = new[i].head
      OBVIOUS
    <3>1. CASE j \in 1..Len(before.versions)
      <4>1. PICK i \in 1..n - 1 : before.versions[j].head = new[i].head
        BY <3>1, <1>6
      <4>2. i \in 1..n  BY <1>1
      <4> QED  BY <3>1, <2>3, <4>1, <4>2
    <3>2. CASE j = Len(after.versions)
      BY <3>2, <2>2, <1>1 DEF Newest
    <3> QED  BY <3>1, <3>2, <2>2, <1>7
  <2>6. after.active = Len(after.versions)  BY <2>2
  <2> QED  BY <2>4, <2>5, <2>6 DEF Kept
<1> QED  BY <1>8, <1>9

\* An update the hook admits to a history that keeps makes one that does.
LEMMA AdmittedKeeps ==
  ASSUME NEW p \in Principal, NEW u \in RecordUpdate, CheckRecord(p, u), Kept(u.old)
  PROVE  Kept(u.new)
<1>1. u.new \in Seq(Commit)  BY DEF RecordUpdate
<1>2. Kept(<<>>)  BY DEF Kept
<1> QED  BY <1>1, <1>2, CreateKeeps, UpdateKeeps DEF CheckRecord, Creates

-----------------------------------------------------------------------------
(***************************************************************************)
(* Pushes.                                                                 *)
(***************************************************************************)

\* A record near a history is a record.
LEMMA NearIsRecord ==
  ASSUME NEW p \in Principal, NEW old \in Seq(Commit), NEW r \in Near(p, old)
  PROVE  r \in Record
<1> DEFINE owners == {p} \cup {old[i].record.owner : i \in 1..Len(old)}
           versions == IF old = <<>> THEN <<>> ELSE Newest(old).record.versions
           longer == {Append(versions, v) : v \in [head : Heads, branch : Branch, uploader : owners]}
           seq == IF old = <<>> THEN 0 ELSE Newest(old).record.seq
<1>1. owners \subseteq Principal
  <2>1. \A i \in 1..Len(old) : old[i] \in Commit  BY ElementOfSeq
  <2> QED  BY <2>1 DEF Commit, Record
<1>2. versions \in Seq(Version)  BY NewestIs
<1>3. [head : Heads, branch : Branch, uploader : owners] \subseteq Version
  BY <1>1 DEF Version
<1>4. longer \subseteq Seq(Version)
  <2>1. ASSUME NEW v \in Version  PROVE Append(versions, v) \in Seq(Version)
    BY <1>2, <2>1
  <2> HIDE DEF versions
  <2> QED  BY <1>3, <2>1
<1>5. Len(versions) \in Nat  BY <1>2
<1> HIDE DEF owners, versions, longer, seq
<1>6. /\ r \in [owner : owners, state : State, seq : {seq, seq + 1} \cap 1..MaxSeq,
                versions : longer \cup {versions}, active : {Len(versions), Len(versions) + 1}]
      /\ r.active \in 1..Len(r.versions)
  BY DEF Near, owners, versions, longer, seq
<1> QED  BY <1>1, <1>2, <1>4, <1>5, <1>6 DEF Record

\* What a push is offered to write is of the right type, and admitted.
LEMMA AdmittedIs ==
  ASSUME record \in [Change -> Seq(Commit)], NEW p \in Principal, NEW u \in Admitted(p)
  PROVE  u \in RecordUpdate /\ CheckRecord(p, u)
<1>1. PICK c \in Change : u \in AdmittedTo(p, c)  BY DEF Admitted
<1>2. <<>> \in Seq(Commit) /\ record[c] \in Seq(Commit)  BY EmptySeq
<1>3. CASE u = Removal(c) /\ CheckRecord(p, u)
  BY <1>2, <1>3 DEF Removal, RecordUpdate
<1>4. CASE \E w \in Offers(p, c) : u = Update(c, w[1], w[2], w[3]) /\ CheckRecord(p, u)
  <2>1. PICK w \in Offers(p, c) : u = Update(c, w[1], w[2], w[3]) /\ CheckRecord(p, u)
    BY <1>4
  <2>2. /\ w[1] \in Seq(Commit) /\ w[2] \in Near(p, record[c])
        /\ w[3] \in Heads \cup {None}
    BY <1>2 DEF Offers
  <2>3. [record |-> w[2], head |-> w[3]] \in Commit
    BY <1>2, <2>2, NearIsRecord DEF Commit
  <2>4. Append(w[1], [record |-> w[2], head |-> w[3]]) \in Seq(Commit)
    BY <2>2, <2>3, AppendProperties
  <2> QED  BY <1>2, <2>1, <2>4 DEF Update, RecordUpdate
<1> QED  BY <1>1, <1>3, <1>4 DEF AdmittedTo

\* A batch is made of what it is chosen from.
LEMMA BatchOf ==
  ASSUME NEW S, NEW R \in Batches(S)  PROVE  R \subseteq S
<1>1. CASE R = {}  BY <1>1
<1>2. CASE \E f \in [1..MaxUpdates -> S] : R = {f[i] : i \in 1..MaxUpdates}
  BY <1>2
<1> QED  BY <1>1, <1>2 DEF Batches

\* What a push in hand was judged to be; past the reports, each is of a
\* change that had a record.
PushOK ==
    \A p \in Principal :
        /\ \A u \in push[p].records : CheckRecord(p, u)
        /\ \A u \in push[p].reports :
              /\ u.new > 0
              /\ push[p].stage = "accepted" => u.change \in recorded

\* The inductive invariant: the refs keep their histories, whatever the
\* pushes in hand found.
HookInv ==
    /\ TypeOK
    /\ \A c \in Change : Kept(record[c])
    /\ PushOK
    /\ \A c \in Change : record[c] # <<>> => c \in recorded
    /\ ReportsOfRecorded

\* It holds at first.
LEMMA HookInit ==
  ASSUME Init  PROVE  HookInv
<1>1. <<>> \in Seq(Commit) /\ Kept(<<>>)  BY EmptySeq DEF Kept
<1>2. NoPush \in Push  BY DEF NoPush, Push
<1>3. TypeOK  BY <1>1, <1>2 DEF Init, TypeOK
<1> QED  BY <1>1, <1>3 DEF Init, HookInv, PushOK, NoPush, ReportsOfRecorded

\* Receive judges what it takes in hand.
LEMMA ReceiveOK ==
  ASSUME HookInv, NEW p \in Principal, Receive(p)  PROVE  HookInv'
<1>1. PICK records \in Batches(Admitted(p)), reports \in {{}} \cup {{u} : u \in ReportOffers} :
         /\ \A u \in reports : CheckReport(p, u)
         /\ push' = [push EXCEPT ![p] =
                       [stage |-> "counted", records |-> records, reports |-> reports]]
  BY DEF Receive
<1>2. UNCHANGED <<record, report, recorded>>  BY DEF Receive
<1>3. \A u \in records : u \in RecordUpdate /\ CheckRecord(p, u)
  BY AdmittedIs, BatchOf DEF HookInv, TypeOK
<1>4. \A u \in reports : u \in ReportUpdate /\ u.new > 0
  BY DEF ReportOffers, ReportUpdate, HookInv, TypeOK
<1>5. TypeOK'
  BY <1>1, <1>2, <1>3, <1>4 DEF HookInv, TypeOK, Push
<1>6. PushOK'
  BY <1>1, <1>2, <1>3, <1>4 DEF HookInv, PushOK, TypeOK
<1> QED  BY <1>2, <1>5, <1>6 DEF HookInv, ReportsOfRecorded

\* Accept reads the refs of the records the reports are about.
LEMMA AcceptOK ==
  ASSUME HookInv, NEW p \in Principal, Accept(p)  PROVE  HookInv'
<1>1. UNCHANGED <<record, report, recorded>>  BY DEF Accept
<1>2. push[p] \in Push /\ NoPush \in Push  BY DEF HookInv, TypeOK, NoPush, Push
<1>3. CASE push' = [push EXCEPT ![p] = NoPush]
  BY <1>1, <1>2, <1>3 DEF HookInv, TypeOK, PushOK, NoPush, ReportsOfRecorded
<1>4. CASE /\ \A u \in push[p].reports : HasRecord(u.change)
           /\ push' = [push EXCEPT ![p] = [@ EXCEPT !.stage = "accepted"]]
  <2>1. \A u \in push[p].reports : u.change \in recorded
    BY <1>2, <1>4 DEF HasRecord, HookInv, Push, ReportUpdate
  <2>2. TypeOK'  BY <1>1, <1>2, <1>4 DEF HookInv, TypeOK, Push
  <2>3. PushOK'  BY <1>1, <1>2, <1>4, <2>1 DEF HookInv, TypeOK, PushOK, Push
  <2> QED  BY <1>1, <2>2, <2>3 DEF HookInv, ReportsOfRecorded
<1> QED  BY <1>3, <1>4 DEF Accept

\* What is left of a push was in hand.
LEMMA RestOK ==
  ASSUME HookInv, NEW p \in Principal, push[p].stage = "accepted",
         NEW rest, rest \in Push, rest.stage = push[p].stage,
         rest.records \subseteq push[p].records, rest.reports \subseteq push[p].reports,
         Rest(p, rest), recorded \subseteq recorded'
  PROVE  push' \in [Principal -> Push] /\ PushOK'
<1>1. NoPush \in Push  BY DEF NoPush, Push
<1>2. CASE push' = [push EXCEPT ![p] = NoPush]
  BY <1>1, <1>2 DEF HookInv, TypeOK, PushOK, NoPush
<1>3. CASE push' = [push EXCEPT ![p] = rest]
  BY <1>3 DEF HookInv, TypeOK, PushOK
<1> QED  BY <1>2, <1>3 DEF Rest

\* A record ref moves only from the value its update was judged against.
LEMMA InstallRecordOK ==
  ASSUME HookInv, NEW p \in Principal, InstallRecord(p)  PROVE  HookInv'
<1>1. PICK u \in push[p].records :
        /\ IF record[u.change] = u.old
           THEN /\ record' = [record EXCEPT ![u.change] = u.new]
                /\ recorded' = recorded \cup {u.change}
           ELSE UNCHANGED <<record, recorded>>
        /\ Rest(p, [push[p] EXCEPT !.records = @ \ {u}])
  BY DEF InstallRecord
<1>2. push[p].stage = "accepted" /\ UNCHANGED report  BY DEF InstallRecord
<1>3. push[p] \in Push /\ u \in RecordUpdate /\ CheckRecord(p, u)
  BY DEF HookInv, TypeOK, PushOK, Push
<1>4. u.change \in Change /\ u.old \in Seq(Commit) /\ u.new \in Seq(Commit)
  BY <1>3 DEF RecordUpdate
<1>5. [push[p] EXCEPT !.records = @ \ {u}] \in Push  BY <1>3 DEF Push
<1>6. recorded \subseteq recorded'  BY <1>1
<1>7. push' \in [Principal -> Push] /\ PushOK'
  BY <1>1, <1>2, <1>3, <1>5, <1>6, RestOK DEF Push
<1>8. CASE /\ record[u.change] = u.old
           /\ record' = [record EXCEPT ![u.change] = u.new]
           /\ recorded' = recorded \cup {u.change}
  <2>1. Kept(u.new)  BY <1>3, <1>4, <1>8, AdmittedKeeps DEF HookInv
  <2> QED  BY <1>2, <1>4, <1>7, <1>8, <2>1 DEF HookInv, TypeOK, ReportsOfRecorded
<1>9. CASE UNCHANGED <<record, recorded>>
  BY <1>2, <1>7, <1>9 DEF HookInv, TypeOK, ReportsOfRecorded
<1> QED  BY <1>1, <1>8, <1>9

\* A report goes in for a change that had a record when it was judged.
LEMMA InstallReportOK ==
  ASSUME HookInv, NEW p \in Principal, InstallReport(p)  PROVE  HookInv'
<1>1. PICK u \in push[p].reports :
        /\ report' = IF report[u.change] = u.old THEN [report EXCEPT ![u.change] = u.new] ELSE report
        /\ Rest(p, [push[p] EXCEPT !.reports = @ \ {u}])
  BY DEF InstallReport
<1>2. push[p].stage = "accepted" /\ UNCHANGED <<record, recorded>>  BY DEF InstallReport
<1>3. push[p] \in Push /\ u \in ReportUpdate /\ u.change \in recorded
  BY <1>2 DEF HookInv, TypeOK, PushOK, Push
<1>4. u.change \in Change /\ u.new \in Nat  BY <1>3 DEF ReportUpdate
<1>5. [push[p] EXCEPT !.reports = @ \ {u}] \in Push  BY <1>3 DEF Push
<1>6. push' \in [Principal -> Push] /\ PushOK'
  BY <1>1, <1>2, <1>3, <1>5, RestOK DEF Push
<1>7. report' \in [Change -> Nat] /\ ReportsOfRecorded'
  BY <1>1, <1>2, <1>3, <1>4 DEF HookInv, TypeOK, ReportsOfRecorded
<1> QED  BY <1>2, <1>6, <1>7 DEF HookInv, TypeOK

\* Every step keeps the invariant.
LEMMA HookStep ==
  ASSUME HookInv, [Next]_vars  PROVE  HookInv'
<1>1. CASE UNCHANGED vars
  BY <1>1 DEF vars, HookInv, TypeOK, PushOK, ReportsOfRecorded
<1>2. ASSUME NEW p \in Principal, Abort(p)  PROVE HookInv'
  <2>1. NoPush \in Push  BY DEF NoPush, Push
  <2> QED  BY <1>2, <2>1 DEF Abort, HookInv, TypeOK, PushOK, NoPush, ReportsOfRecorded
<1> QED
  BY <1>1, <1>2, ReceiveOK, AcceptOK, InstallRecordOK, InstallReportOK DEF Next

\* The invariant of every behaviour.
LEMMA Invariance == Spec => []HookInv
BY HookInit, HookStep, PTL DEF Spec

\* The types of the refs and of the pushes in hand (valleyhook/main.go).
THEOREM Typing == Spec => []TypeOK
<1>1. HookInv => TypeOK  BY DEF HookInv
<1> QED  BY <1>1, Invariance, PTL

\* A record's seq is its place in the history of its ref, whichever pushes
\* race for it (valleyhook/record.go).
THEOREM NoUpdateIsLost == Spec => []SeqIsPlace
<1>1. HookInv => SeqIsPlace  BY DEF HookInv, Kept, SeqIsPlace
<1> QED  BY <1>1, Invariance, PTL

\* A record ref reaches every head its versions name, and its newest version
\* is the active one (valleyhook/record.go).
THEOREM EveryHeadIsHeld == Spec => []HeadsHeld
<1>1. ASSUME HookInv  PROVE HeadsHeld
  <2>1. \A c \in Change : Kept(record[c])  BY <1>1 DEF HookInv
  <2> SUFFICES ASSUME NEW c \in Change, record[c] # <<>>
               PROVE  LET r == Newest(record[c]).record IN
                      /\ {v.head : v \in {r.versions[i] : i \in 1..Len(r.versions)}}
                              \subseteq {record[c][i].head : i \in 1..Len(record[c])}
                      /\ r.active = Len(r.versions)
    BY DEF HeadsHeld
  <2> QED  BY <2>1 DEF Kept
<1> QED  BY <1>1, Invariance, PTL

\* No report goes in for a change that never had a record, though its record
\* may be gone when it does (valleyhook/report.go).
THEOREM NoReportOfNothing == Spec => []ReportsOfRecorded
<1>1. HookInv => ReportsOfRecorded  BY DEF HookInv
<1> QED  BY <1>1, Invariance, PTL

-----------------------------------------------------------------------------
(***************************************************************************)
(* The refinement of ChangeLifecycle.                                      *)
(***************************************************************************)

\* What the lifecycle sees of a history: that of its newest record, which is
\* never None.
Seen(s) == IF s = <<>> THEN None
           ELSE LET r == Newest(s).record
                IN  [owner |-> r.owner, state |-> r.state, versions |-> r.versions]

\* A history that is not empty is seen as a record.
LEMMA SeenIs ==
  ASSUME NEW s, Kept(s), s # <<>>
  PROVE  LET r == Newest(s).record IN
         /\ Seen(s) = [owner |-> r.owner, state |-> r.state, versions |-> r.versions]
         /\ Seen(s) # None
         /\ Newest(r.versions) = ActiveVersion(r)
<1> DEFINE r == Newest(s).record
<1>1. s \in Seq(Commit) /\ r.active = Len(r.versions)  BY DEF Kept
<1>2. r.owner \in Principal /\ r.state \in State /\ r.versions \in Seq(Version)
  BY <1>1, NewestIs
<1>3. Seen(s) = [owner |-> r.owner, state |-> r.state, versions |-> r.versions]
  BY DEF Seen
<1>4. Seen(s) # None  BY <1>2, <1>3, ConstantsAssumption
<1>5. Newest(r.versions) = ActiveVersion(r)  BY <1>1 DEF Newest, ActiveVersion
<1> QED  BY <1>3, <1>4, <1>5

\* A record update that git installs is a step of the lifecycle, by the
\* principal that pushed it.
LEMMA UpdateIsStep ==
  ASSUME HookInv, NEW p \in Principal, NEW u \in RecordUpdate, CheckRecord(p, u),
         record[u.change] = u.old, record' = [record EXCEPT ![u.change] = u.new]
  PROVE  Lifecycle!Next
<1> DEFINE c == u.change
<1>1. c \in Change /\ u.old \in Seq(Commit) /\ u.new \in Seq(Commit)
  BY DEF RecordUpdate
<1>2. Kept(u.old) /\ Kept(u.new)
  BY <1>1, AdmittedKeeps DEF HookInv
<1>3. /\ change = [d \in Change |-> Seen(record[d])]
      /\ change' = [d \in Change |-> Seen(record'[d])]
  BY DEF change, Seen
<1>4. change[c] = Seen(u.old) /\ change' = [change EXCEPT ![c] = Seen(u.new)]
  <2>1. change[c] = Seen(u.old)  BY <1>1, <1>3
  <2>2. \A d \in Change : Seen(record'[d]) = IF d = c THEN Seen(u.new) ELSE Seen(record[d])
    BY <1>1 DEF HookInv, TypeOK
  <2> QED  BY <1>1, <1>3, <2>1, <2>2
<1>5. Version = Lifecycle!Version /\ State = Lifecycle!State
  BY DEF Version, Lifecycle!Version, State, Lifecycle!State
<1>6. CASE u.old # <<>> /\ u.new = <<>> /\ p \in Approver
  <2>1. change[c] # None /\ Seen(u.new) = None
    BY <1>2, <1>4, <1>6, SeenIs DEF Seen
  <2>2. Lifecycle!Delete(p, c)  BY <1>4, <1>6, <2>1 DEF Lifecycle!Delete
  <2> QED  BY <1>1, <2>2 DEF Lifecycle!Next
<1>7. CASE Creates(u) /\ CheckCreate(p, u.new)
  <2> DEFINE r == Newest(u.new).record
             v == r.versions[1]
  <2>1. u.new # <<>> /\ u.old = <<>>  BY <1>7 DEF Creates
  <2>2. /\ r.versions \in Seq(Version) /\ Len(r.versions) = 1
        /\ v.uploader = p /\ r.owner = p /\ r.state = "ready"
    BY <1>1, <1>7, <2>1, NewestIs DEF CheckCreate, Newest
  <2>3. v \in Version /\ r.versions = <<v>>  BY <2>2
  <2>4. Seen(u.new) = [owner |-> p, state |-> "ready", versions |-> <<v>>]
    BY <1>2, <2>1, <2>2, <2>3, SeenIs
  <2>5. change[c] = None  BY <1>4, <2>1 DEF Seen
  <2>6. Lifecycle!Create(p, c)
    BY <1>4, <1>5, <2>2, <2>3, <2>4, <2>5 DEF Lifecycle!Create
  <2> QED  BY <1>1, <2>6 DEF Lifecycle!Next
<1>8. CASE u.old # <<>> /\ u.new # <<>> /\ CheckUpdate(p, u.old, u.new)
  <2> DEFINE before == Newest(u.old).record
             after == Newest(u.new).record
             v == Newest(after.versions)
  <2>1. /\ change[c] = [owner |-> before.owner, state |-> before.state,
                        versions |-> before.versions]
        /\ change[c] # None
        /\ Lifecycle!Newest(c) = ActiveVersion(before)
    BY <1>2, <1>4, <1>8, SeenIs DEF Lifecycle!Newest, Newest
  <2>2. Seen(u.new) = [owner |-> after.owner, state |-> after.state, versions |-> after.versions]
    BY <1>2, <1>8, SeenIs
  <2>3. /\ after.state \in State /\ after.versions \in Seq(Version)
        /\ before.versions \in Seq(Version) /\ v \in Version
    BY <1>1, <1>8, NewestIs
  <2>4. MayUpdate(p, before) <=> Lifecycle!MayUpdate(p, c)
    BY <2>1 DEF MayUpdate, Lifecycle!MayUpdate
  <2>5. CASE Newest(u.new).head = None
    <3>1. MayUpdate(p, before) /\ CheckStateChange(before, after)
      BY <1>8, <2>5 DEF CheckUpdate
    <3>2. Seen(u.new) = [change[c] EXCEPT !.state = after.state]
      BY <2>1, <2>2, <3>1 DEF CheckStateChange
    <3>3. change' = [change EXCEPT ![c].state = after.state]
      BY <1>4, <3>2
    <3>4. /\ after.state # change[c].state
          /\ change[c].state = "withdrawn" => after.state # "draft"
      BY <2>1, <3>1 DEF CheckStateChange
    <3>5. Lifecycle!SetState(p, c, after.state)
      BY <2>1, <2>4, <3>1, <3>3, <3>4 DEF Lifecycle!SetState
    <3> QED  BY <1>1, <1>5, <2>3, <3>5 DEF Lifecycle!Next
  <2>6. CASE Newest(u.new).head # None
    <3>1. CheckNewVersion(p, before, after, Newest(u.new).head)
      BY <1>8, <2>6 DEF CheckUpdate
    <3>2. /\ v.uploader = p /\ v.head # ActiveVersion(before).head
          /\ after.state = "ready" /\ after.owner = before.owner
      BY <3>1 DEF CheckNewVersion
    <3>3. \/ MayUpdate(p, before)
          \/ /\ p \in Restacker /\ before.state = "ready"
             /\ v.branch = ActiveVersion(before).branch
      BY <1>8, <2>6 DEF CheckUpdate, CheckRestack
    <3>4. after.versions = Append(before.versions, v)
      <4>1. /\ Len(after.versions) = Len(before.versions) + 1
            /\ SubSeq(after.versions, 1, Len(before.versions)) = before.versions
        BY <3>1 DEF CheckNewVersion
      <4>2. Len(before.versions) \in 0..Len(after.versions)  BY <2>3, <4>1
      <4>3. \A i \in 1..Len(before.versions) : after.versions[i] = before.versions[i]
        BY <2>3, <4>1, <4>2, PrefixIs
      <4> DEFINE t == Append(before.versions, v)
      <4>4. /\ t \in Seq(Version) /\ Len(t) = Len(before.versions) + 1
            /\ \A i \in 1..Len(before.versions) : t[i] = before.versions[i]
            /\ t[Len(before.versions) + 1] = v
        BY <2>3, AppendProperties
      <4>5. \A i \in 1..Len(after.versions) : after.versions[i] = t[i]
        <5>1. after.versions[Len(after.versions)] = v  BY DEF Newest
        <5>2. Len(before.versions) \in Nat  BY <2>3
        <5> HIDE DEF before, after, v, t
        <5> QED  BY <4>1, <4>3, <4>4, <5>1, <5>2
      <4> HIDE DEF t
      <4>6. after.versions = t  BY <2>3, <4>1, <4>4, <4>5, SeqEqual
      <4> QED  BY <4>6 DEF t
    <3>5. Seen(u.new) = [owner |-> before.owner, state |-> "ready",
                         versions |-> Append(before.versions, v)]
      BY <2>2, <3>2, <3>4
    <3> HIDE DEF before, after, v
    <3>6. change[c].owner = before.owner /\ change[c].versions = before.versions
      BY <2>1
    <3>7. Lifecycle!AddVersion(p, c)
      <4>1. /\ change[c] # None /\ v \in Lifecycle!Version
            /\ v.uploader = p /\ v.head # Lifecycle!Newest(c).head
            /\ \/ Lifecycle!MayUpdate(p, c)
               \/ /\ p \in Restacker /\ change[c].state = "ready"
                  /\ v.branch = Lifecycle!Newest(c).branch
        BY <1>5, <2>1, <2>3, <2>4, <3>2, <3>3
      <4>2. change' = [change EXCEPT ![c] = [owner |-> @.owner, state |-> "ready",
                                           versions |-> Append(@.versions, v)]]
        BY <1>4, <3>5, <3>6
      <4> QED  BY <4>1, <4>2 DEF Lifecycle!AddVersion
    <3> QED  BY <1>1, <3>7 DEF Lifecycle!Next
  <2> QED  BY <2>5, <2>6
<1> QED  BY <1>6, <1>7, <1>8 DEF CheckRecord

\* Each step of a push is a step of the lifecycle or none.
LEMMA HookRefines ==
  ASSUME HookInv, [Next]_vars  PROVE  [Lifecycle!Next]_change
<1>1. CASE UNCHANGED record  BY <1>1 DEF change
<1>2. CASE record' # record
  <2>1. PICK p \in Principal : InstallRecord(p)
    BY <1>2 DEF Next, vars, Receive, Accept, InstallReport, Abort
  <2>2. PICK u \in push[p].records :
           record[u.change] = u.old /\ record' = [record EXCEPT ![u.change] = u.new]
    BY <1>2, <2>1 DEF InstallRecord
  <2>3. u \in RecordUpdate /\ CheckRecord(p, u)
    BY DEF HookInv, TypeOK, PushOK, Push
  <2> QED  BY <2>2, <2>3, UpdateIsStep
<1> QED  BY <1>1, <1>2

\* The records follow the lifecycle of their changes, though each push was
\* judged before others moved refs, and may be installed in part
\* (valleyhook/record.go).
THEOREM HookImplementsLifecycle == Spec => RecordsFollowLifecycle
<1>1. Init => Lifecycle!Init  BY DEF Init, Lifecycle!Init, change
<1> QED
  BY <1>1, Invariance, HookRefines, PTL DEF Spec, RecordsFollowLifecycle, Lifecycle!Spec
-----------------------------------------------------------------------------
(***************************************************************************)
(* The bound on records.                                                   *)
(***************************************************************************)

\* A set of finite subsets of a finite set has a least one.
LEMMA LeastSubset ==
  ASSUME NEW S, IsFiniteSet(S), NEW F, F \subseteq SUBSET S, F # {}
  PROVE  \E T \in F : \A U \in F : U \subseteq T => U = T
<1>1. IsWellFoundedOn(StrictSubsetOrdering(S), SUBSET S)
  BY FS_StrictSubsetOrderingWellFounded, FS_FiniteSubsetsOfFinite
<1>2. PICK T \in F : \A U \in F : ~ (<<U, T>> \in StrictSubsetOrdering(S))
  BY <1>1, WFMin
<1>3. ASSUME NEW U \in F, U \subseteq T  PROVE U = T
  BY <1>2, <1>3 DEF StrictSubsetOrdering
<1> QED  BY <1>2, <1>3

\* Two sets together are no more than the one and the other.
LEMMA UnionSmall ==
  ASSUME NEW S, IsFiniteSet(S), NEW T, IsFiniteSet(T)
  PROVE  /\ IsFiniteSet(S \cup T) /\ Cardinality(S \cup T) \in Nat
         /\ Cardinality(S \cup T) <= Cardinality(S) + Cardinality(T)
<1>1. S \cap T \in SUBSET S  OBVIOUS
<1>2. /\ Cardinality(S) \in Nat /\ Cardinality(T) \in Nat /\ Cardinality(S \cap T) \in Nat
  BY <1>1, FS_Subset, FS_CardinalityType
<1>3. /\ IsFiniteSet(S \cup T)
      /\ Cardinality(S \cup T) = Cardinality(S) + Cardinality(T) - Cardinality(S \cap T)
  BY FS_Union
<1>4. \A a, b, c, d \in Nat : a = b + c - d => a <= b + c  OBVIOUS
<1>5. Cardinality(S \cup T) \in Nat  BY <1>3, FS_CardinalityType
<1> QED  BY <1>2, <1>3, <1>4, <1>5

\* What the sets of a family hold together.
Together(F, Q) == UNION {F[q] : q \in Q}

\* Of n sets of at most m each, no more than n * m.  Were there indices it is
\* false of, it would be false of a least set of them, and not of that set
\* less one.
LEMMA TogetherSmall ==
  ASSUME NEW Q, IsFiniteSet(Q), NEW F, NEW m \in Nat,
         \A q \in Q : IsFiniteSet(F[q]) /\ Cardinality(F[q]) <= m
  PROVE  IsFiniteSet(Together(F, Q)) /\ Cardinality(Together(F, Q)) <= Cardinality(Q) * m
<1> DEFINE Small(R) == /\ IsFiniteSet(Together(F, R))
                       /\ Cardinality(Together(F, R)) <= Cardinality(R) * m
           Bad == {R \in SUBSET Q : ~Small(R)}
<1> SUFFICES ASSUME Bad # {}  PROVE FALSE
  OBVIOUS
<1>1. PICK R \in Bad : \A U \in Bad : U \subseteq R => U = R
  <2>1. Bad \subseteq SUBSET Q  OBVIOUS
  <2> HIDE DEF Bad
  <2> QED  BY <2>1, LeastSubset
<1>2. R # {}
  <2>1. Together(F, {}) = {}  BY DEF Together
  <2>2. Cardinality({}) = 0 /\ IsFiniteSet({})  BY FS_EmptySet
  <2>3. Small({})  BY <2>1, <2>2
  <2> QED  BY <2>3
<1>3. PICK x : x \in R  BY <1>2
<1>4. Small(R \ {x})
  <2>1. R \ {x} \in SUBSET Q /\ R \ {x} # R /\ R \ {x} \subseteq R  BY <1>3
  <2>2. R \ {x} \notin Bad  BY <2>1, <1>1
  <2> QED  BY <2>1, <2>2
<1>5. Together(F, R) = Together(F, R \ {x}) \cup F[x]  BY <1>3 DEF Together
<1>6. IsFiniteSet(R) /\ Cardinality(R) \in Nat /\ Cardinality(R \ {x}) = Cardinality(R) - 1
  BY <1>3, FS_Subset, FS_RemoveElement, FS_CardinalityType
<1>7. IsFiniteSet(F[x]) /\ Cardinality(F[x]) <= m /\ Cardinality(F[x]) \in Nat
  BY <1>3, FS_CardinalityType
<1> DEFINE T == Together(F, R \ {x})
<1>8. IsFiniteSet(T) /\ Cardinality(T) \in Nat /\ Cardinality(T) <= (Cardinality(R) - 1) * m
  BY <1>4, <1>6, FS_CardinalityType
<1> HIDE DEF T
<1>9. IsFiniteSet(T \cup F[x])
      /\ Cardinality(T \cup F[x]) <= Cardinality(T) + Cardinality(F[x])
  BY <1>7, <1>8, UnionSmall
<1>10. Cardinality(T \cup F[x]) \in Nat  BY <1>9, FS_CardinalityType
<1>11. (Cardinality(R) - 1) * m + m = Cardinality(R) * m  BY <1>6
<1>12. Cardinality(T \cup F[x]) <= Cardinality(R) * m
  <2> DEFINE a == Cardinality(T)  b == Cardinality(F[x])  c == Cardinality(T \cup F[x])
             d == (Cardinality(R) - 1) * m  e == Cardinality(R) * m
  <2>1. a \in Nat /\ b \in Nat /\ c \in Nat /\ d \in Int /\ e \in Int
    BY <1>6, <1>7, <1>8, <1>10
  <2>2. a <= d /\ b <= m /\ c <= a + b /\ d + m = e  BY <1>7, <1>8, <1>9, <1>11
  <2> HIDE DEF a, b, c, d, e
  <2>3. c <= e  BY <2>1, <2>2
  <2> QED  BY <2>3 DEF c, e
<1>13. Together(F, R) = T \cup F[x]  BY <1>5 DEF T
<1>14. Small(R)  BY <1>9, <1>12, <1>13
<1> QED  BY <1>1, <1>14

\* The changes p's push in hand may yet create the records of.
Flight == [p \in Principal |-> {u.change : u \in New(push[p].records)}]

\* A batch is at most MaxUpdates updates, and no more of them create.
LEMMA BatchSmall ==
  ASSUME NEW S, NEW R \in Batches(S)
  PROVE  /\ IsFiniteSet(New(R)) /\ Cardinality(New(R)) <= MaxUpdates
         /\ IsFiniteSet({u.change : u \in New(R)})
         /\ Cardinality({u.change : u \in New(R)}) <= Cardinality(New(R))
<1>0. MaxUpdates \in Nat  BY ConstantsAssumption
<1>1. IsFiniteSet(R) /\ Cardinality(R) <= MaxUpdates
  <2>1. CASE R = {}  BY <1>0, <2>1, FS_EmptySet
  <2>2. CASE \E f \in [1..MaxUpdates -> S] : R = {f[i] : i \in 1..MaxUpdates}
    <3>1. PICK f \in [1..MaxUpdates -> S] : R = {f[i] : i \in 1..MaxUpdates}
      BY <2>2
    <3>2. f \in Surjection(1..MaxUpdates, R)  BY <3>1 DEF Surjection
    <3>3. IsFiniteSet(1..MaxUpdates) /\ Cardinality(1..MaxUpdates) = MaxUpdates
      BY <1>0, FS_Interval
    <3> QED  BY <3>2, <3>3, FS_Surjection
  <2> QED  BY <2>1, <2>2 DEF Batches
<1>2. New(R) \in SUBSET R  BY DEF New
<1>3. IsFiniteSet(New(R)) /\ Cardinality(New(R)) <= MaxUpdates
  <2>1. IsFiniteSet(New(R)) /\ Cardinality(New(R)) <= Cardinality(R)
    BY <1>1, <1>2, FS_Subset
  <2>2. Cardinality(R) \in Nat /\ Cardinality(New(R)) \in Nat  BY <1>1, <2>1, FS_CardinalityType
  <2> QED  BY <1>0, <1>1, <2>1, <2>2
<1>4. /\ IsFiniteSet({u.change : u \in New(R)})
      /\ Cardinality({u.change : u \in New(R)}) <= Cardinality(New(R))
  <2> DEFINE g == [u \in New(R) |-> u.change]
             T == {u.change : u \in New(R)}
  <2>1. g \in Surjection(New(R), T)  BY DEF Surjection
  <2> HIDE DEF g, T
  <2>2. IsFiniteSet(T) /\ Cardinality(T) <= Cardinality(New(R))
    BY <1>3, <2>1, FS_Surjection
  <2> QED  BY <2>2 DEF T
<1> QED  BY <1>3, <1>4

\* The inductive invariant of the bound: no push in hand creates more than
\* one push may, and the records there are and those the pushes may yet
\* create are together within the bound.
BoundOK ==
    /\ \A p \in Principal :
          /\ push[p].stage = "none" => push[p] = NoPush
          /\ IsFiniteSet(Flight[p]) /\ Cardinality(Flight[p]) <= MaxUpdates
    /\ LET all == Held \cup Together(Flight, Principal)
       IN  /\ IsFiniteSet(all)
           /\ Cardinality(all) <= MaxRecords + (Cardinality(Principal) - 1) * MaxUpdates

\* No more records are in hand or held after a step than before it.
LEMMA NoMoreIsBound ==
  ASSUME BoundOK,
         \A p \in Principal : Flight'[p] \subseteq Flight[p],
         \A p \in Principal : push'[p].stage = "none" => push'[p] = NoPush,
         Held' \subseteq Held \cup Together(Flight, Principal)
  PROVE  BoundOK'
<1> DEFINE all == Held \cup Together(Flight, Principal)
           m == MaxRecords + (Cardinality(Principal) - 1) * MaxUpdates
<1>0. /\ Principal # {} /\ IsFiniteSet(Principal) /\ Cardinality(Principal) \in Nat
      /\ MaxUpdates \in Nat /\ MaxRecords \in Nat /\ m \in Int
  BY ConstantsAssumption, FS_CardinalityType
<1>1. Together(Flight', Principal) \subseteq Together(Flight, Principal)
  BY DEF Together
<1>2. all' \in SUBSET all  BY <1>1
<1>3. IsFiniteSet(all) /\ Cardinality(all) <= m  BY DEF BoundOK
<1>4. IsFiniteSet(all') /\ Cardinality(all') <= m
  <2> DEFINE new == all'
  <2>1. new \in SUBSET all  BY <1>2
  <2> HIDE DEF new, all
  <2>2. IsFiniteSet(new) /\ Cardinality(new) <= Cardinality(all)  BY <1>3, <2>1, FS_Subset
  <2>3. Cardinality(new) \in Nat /\ Cardinality(all) \in Nat  BY <1>3, <2>2, FS_CardinalityType
  <2> HIDE DEF m
  <2>4. Cardinality(new) <= m  BY <1>0, <1>3, <2>2, <2>3
  <2> QED  BY <2>2, <2>4 DEF new
<1>5. ASSUME NEW p \in Principal
      PROVE  IsFiniteSet(Flight'[p]) /\ Cardinality(Flight'[p]) <= MaxUpdates
  <2> DEFINE A == Flight[p]  B == Flight'[p]
  <2>1. B \in SUBSET A /\ IsFiniteSet(A) /\ Cardinality(A) <= MaxUpdates  BY DEF BoundOK
  <2> HIDE DEF A, B
  <2>2. IsFiniteSet(B) /\ Cardinality(B) <= Cardinality(A)  BY <2>1, FS_Subset
  <2>3. Cardinality(B) \in Nat /\ Cardinality(A) \in Nat  BY <2>1, <2>2, FS_CardinalityType
  <2>4. Cardinality(B) <= MaxUpdates  BY <1>0, <2>1, <2>2, <2>3
  <2> QED  BY <2>2, <2>4 DEF B
<1> QED  BY <1>4, <1>5 DEF BoundOK

\* The push of p ends, or goes on with no more than it had.
Left(p) ==
    /\ \A q \in Principal \ {p} : push'[q] = push[q]
    /\ \/ push'[p] = NoPush
       \/ push'[p].stage = "accepted" /\ push'[p].records \subseteq push[p].records

\* Such a step keeps the bound, where it creates what was in flight.
LEMMA LeftFlies ==
  ASSUME BoundOK, NEW p \in Principal, Left(p),
         Held' \subseteq Held \cup Together(Flight, Principal)
  PROVE  BoundOK'
<1>1. New(NoPush.records) = {}  BY DEF New, NoPush
<1>2. \A q \in Principal : Flight'[q] \subseteq Flight[q]
  BY <1>1 DEF Left, Flight, New
<1>3. \A q \in Principal : push'[q].stage = "none" => push'[q] = NoPush
  BY DEF Left, BoundOK
<1> QED  BY <1>2, <1>3, NoMoreIsBound

\* A push that creates is taken where the records there are leave it room;
\* the others in hand are as they were.
LEMMA ReceiveInBound ==
  ASSUME HookInv, BoundOK, NEW p \in Principal, Receive(p)
  PROVE  BoundOK'
<1>1. PICK records \in Batches(Admitted(p)), reports \in {{}} \cup {{u} : u \in ReportOffers} :
         /\ WithinBound(records)
         /\ push' = [push EXCEPT ![p] =
                       [stage |-> "counted", records |-> records, reports |-> reports]]
  BY DEF Receive
<1>2. push[p].stage = "none" /\ UNCHANGED record  BY DEF Receive
<1>3. Held' = Held  BY <1>2 DEF Held
<1>4. push \in [Principal -> Push]  BY DEF HookInv, TypeOK
<1>5. /\ Flight'[p] = {u.change : u \in New(records)}
      /\ \A q \in Principal \ {p} : Flight'[q] = Flight[q]
  BY <1>1, <1>4 DEF Flight
<1>6. Flight[p] = {}
  <2>1. push[p].records = {}  BY <1>2 DEF BoundOK, NoPush
  <2> QED  BY <2>1 DEF Flight, New
<1>7. \A q \in Principal : push'[q].stage = "none" => push'[q] = NoPush
  BY <1>1, <1>4 DEF BoundOK
<1>8. CASE New(records) = {}
  <2>1. \A q \in Principal : Flight'[q] \subseteq Flight[q]  BY <1>5, <1>8
  <2> QED  BY <1>3, <1>7, <2>1, NoMoreIsBound
<1>9. CASE New(records) # {}
  <2> DEFINE mine == Flight'[p]
             others == Principal \ {p}
             rest == Together(Flight, others)
             h == Cardinality(Held)
             n == Cardinality(Principal)
  <2>1. /\ IsFiniteSet(Principal) /\ n \in Nat \ {0} /\ IsFiniteSet(others)
        /\ Cardinality(others) = n - 1 /\ MaxUpdates \in Nat /\ MaxRecords \in Nat
    BY ConstantsAssumption, FS_CardinalityType, FS_RemoveElement, FS_EmptySet
  <2>2. IsFiniteSet(Held) /\ h \in Nat
    <3>1. IsFiniteSet(Held \cup Together(Flight, Principal))  BY DEF BoundOK
    <3>2. Held \in SUBSET (Held \cup Together(Flight, Principal))  OBVIOUS
    <3> QED  BY <3>1, <3>2, FS_Subset, FS_CardinalityType
  <2>3. /\ IsFiniteSet(mine) /\ Cardinality(mine) \in Nat
        /\ Cardinality(mine) <= MaxUpdates /\ h + Cardinality(mine) <= MaxRecords
    <3>1. h + Cardinality(New(records)) <= MaxRecords  BY <1>1, <1>9 DEF WithinBound
    <3>2. /\ IsFiniteSet(New(records)) /\ Cardinality(New(records)) <= MaxUpdates
          /\ IsFiniteSet(mine) /\ Cardinality(mine) <= Cardinality(New(records))
      BY <1>5, BatchSmall
    <3>3. Cardinality(New(records)) \in Nat /\ Cardinality(mine) \in Nat
      BY <3>2, FS_CardinalityType
    <3> HIDE DEF mine, h
    <3> QED  BY <2>1, <2>2, <3>1, <3>2, <3>3
  <2>4. IsFiniteSet(rest) /\ Cardinality(rest) \in Nat /\ Cardinality(rest) <= (n - 1) * MaxUpdates
    <3>1. \A q \in others : IsFiniteSet(Flight[q]) /\ Cardinality(Flight[q]) <= MaxUpdates
      BY DEF BoundOK
    <3>2. IsFiniteSet(rest) /\ Cardinality(rest) <= Cardinality(others) * MaxUpdates
      BY <2>1, <3>1, TogetherSmall
    <3> QED  BY <2>1, <3>2, FS_CardinalityType
  <2>5. Held' \cup Together(Flight', Principal) = (Held \cup mine) \cup rest
    BY <1>3, <1>5 DEF Together
  <2> HIDE DEF mine, others, rest
  <2>6. /\ IsFiniteSet(Held \cup mine) /\ Cardinality(Held \cup mine) \in Nat
        /\ Cardinality(Held \cup mine) <= h + Cardinality(mine)
    BY <2>2, <2>3, UnionSmall
  <2>7. /\ IsFiniteSet((Held \cup mine) \cup rest)
        /\ Cardinality((Held \cup mine) \cup rest) \in Nat
        /\ Cardinality((Held \cup mine) \cup rest) <= Cardinality(Held \cup mine) + Cardinality(rest)
    BY <2>4, <2>6, UnionSmall
  <2>8. Cardinality((Held \cup mine) \cup rest) <= MaxRecords + (n - 1) * MaxUpdates
    <3> DEFINE a == Cardinality((Held \cup mine) \cup rest)  b == Cardinality(Held \cup mine)
               c == Cardinality(rest)  d == (n - 1) * MaxUpdates  e == Cardinality(mine)
    <3>1. a \in Nat /\ b \in Nat /\ c \in Nat /\ d \in Int /\ e \in Nat /\ h \in Nat
      BY <2>1, <2>2, <2>3, <2>4, <2>6, <2>7
    <3>2. a <= b + c /\ b <= h + e /\ h + e <= MaxRecords /\ c <= d
      BY <2>3, <2>4, <2>6, <2>7
    <3> HIDE DEF a, b, c, d, e, h
    <3>3. a <= MaxRecords + d  BY <2>1, <3>1, <3>2
    <3> QED  BY <3>3 DEF a, d
  <2>9. \A q \in Principal :
           IsFiniteSet(Flight'[q]) /\ Cardinality(Flight'[q]) <= MaxUpdates
    BY <1>5, <2>3 DEF BoundOK, mine
  <2> QED  BY <1>7, <2>5, <2>7, <2>8, <2>9 DEF BoundOK
<1> QED  BY <1>8, <1>9

\* A record git installs was in flight, or of a change that had one.
LEMMA InstallInBound ==
  ASSUME HookInv, BoundOK, NEW p \in Principal, InstallRecord(p)
  PROVE  BoundOK'
<1>1. PICK u \in push[p].records :
        /\ IF record[u.change] = u.old
           THEN /\ record' = [record EXCEPT ![u.change] = u.new]
                /\ recorded' = recorded \cup {u.change}
           ELSE UNCHANGED <<record, recorded>>
        /\ Rest(p, [push[p] EXCEPT !.records = @ \ {u}])
  BY DEF InstallRecord
<1>2. push[p].stage = "accepted"  BY DEF InstallRecord
<1>3. push \in [Principal -> Push] /\ record \in [Change -> Seq(Commit)]
  BY DEF HookInv, TypeOK
<1>4. Left(p)
  <2> DEFINE rest == [push[p] EXCEPT !.records = @ \ {u}]
  <2>1. rest.stage = "accepted" /\ rest.records \subseteq push[p].records
    BY <1>2, <1>3 DEF Push
  <2> HIDE DEF rest
  <2> QED  BY <1>1, <1>3, <2>1 DEF Rest, rest, Left, NoPush
<1>5. Held' \subseteq Held \cup Together(Flight, Principal)
  <2> SUFFICES ASSUME NEW c \in Held', c \notin Held  PROVE c \in Flight[p]
    BY DEF Together
  <2>1. record'[c] # <<>> /\ record[c] = <<>> /\ c \in Change  BY DEF Held
  <2>2. c = u.change /\ record[c] = u.old /\ record'[c] = u.new  BY <1>1, <1>3, <2>1
  <2>3. u \in New(push[p].records)  BY <2>1, <2>2 DEF New, Creates
  <2> QED  BY <2>2, <2>3 DEF Flight
<1> QED  BY <1>3, <1>4, <1>5, LeftFlies

\* Every step keeps it.
LEMMA BoundStep ==
  ASSUME HookInv, BoundOK, [Next]_vars  PROVE  BoundOK'
<1>0. push \in [Principal -> Push]  BY DEF HookInv, TypeOK
<1>1. CASE UNCHANGED vars
  BY <1>1 DEF vars, BoundOK, Held, Flight, Together
<1>2. ASSUME NEW p \in Principal, Accept(p) \/ InstallReport(p) \/ Abort(p)  PROVE BoundOK'
  <2>1. UNCHANGED record  BY <1>2 DEF Accept, InstallReport, Abort
  <2>2. Held' \subseteq Held  BY <2>1 DEF Held
  <2>3. CASE Accept(p)
    <3>1. Left(p)  BY <1>0, <2>3 DEF Accept, Left, NoPush, Push
    <3> QED  BY <1>0, <2>2, <3>1, LeftFlies
  <2>4. CASE InstallReport(p)
    <3>1. PICK u : Rest(p, [push[p] EXCEPT !.reports = @ \ {u}])
      BY <2>4 DEF InstallReport
    <3> DEFINE rest == [push[p] EXCEPT !.reports = @ \ {u}]
    <3>2. rest.stage = "accepted" /\ rest.records \subseteq push[p].records
      BY <1>0, <2>4 DEF Push, InstallReport
    <3> HIDE DEF rest
    <3>3. Left(p)  BY <1>0, <3>1, <3>2 DEF Rest, rest, Left, NoPush
    <3> QED  BY <1>0, <2>2, <3>3, LeftFlies
  <2>5. CASE Abort(p)
    <3>1. Left(p)  BY <1>0, <2>5 DEF Abort, Left, NoPush
    <3> QED  BY <1>0, <2>2, <3>1, LeftFlies
  <2> QED  BY <1>2, <2>3, <2>4, <2>5
<1> QED
  BY <1>1, <1>2, ReceiveInBound, InstallInBound DEF Next

\* The repository holds no more records than the bound and what the pushes
\* beside one another had in flight: each counted the records there were, and
\* none counted the others' (valleyhook/main.go).
THEOREM RecordsStayBounded == Spec => []RecordsBounded
<1>1. ASSUME Init  PROVE BoundOK
  <2>1. Held = {} /\ \A p \in Principal : Flight[p] = {}
    BY <1>1 DEF Init, Held, Flight, NoPush, New
  <2>2. Held \cup Together(Flight, Principal) = {}  BY <2>1 DEF Together
  <2>3. IsFiniteSet({}) /\ Cardinality({}) = 0  BY FS_EmptySet
  <2>4. 0 <= MaxUpdates /\ 0 <= MaxRecords + (Cardinality(Principal) - 1) * MaxUpdates
    <3>1. MaxUpdates \in Nat /\ MaxRecords \in Nat /\ Cardinality(Principal) \in Nat \ {0}
      BY ConstantsAssumption, FS_CardinalityType, FS_EmptySet
    <3>2. \A n \in Nat \ {0} : (n - 1) * MaxUpdates \in Nat  BY <3>1
    <3> QED  BY <3>1, <3>2
  <2>5. \A p \in Principal : push[p] = NoPush  BY <1>1 DEF Init
  <2> QED  BY <2>1, <2>2, <2>3, <2>4, <2>5 DEF BoundOK
<1>2. ASSUME BoundOK  PROVE RecordsBounded
  <2> DEFINE all == Held \cup Together(Flight, Principal)
             m == MaxRecords + (Cardinality(Principal) - 1) * MaxUpdates
  <2>1. IsFiniteSet(all) /\ Cardinality(all) <= m /\ Held \in SUBSET all  BY <1>2 DEF BoundOK
  <2>2. m \in Int  BY ConstantsAssumption, FS_CardinalityType
  <2> HIDE DEF all, m
  <2>3. IsFiniteSet(Held) /\ Cardinality(Held) <= Cardinality(all)  BY <2>1, FS_Subset
  <2>4. Cardinality(Held) \in Nat /\ Cardinality(all) \in Nat  BY <2>1, <2>3, FS_CardinalityType
  <2>5. Cardinality(Held) <= m  BY <2>1, <2>2, <2>3, <2>4
  <2> QED  BY <2>5 DEF RecordsBounded, m
<1>3. HookInv /\ BoundOK /\ [Next]_vars => BoundOK'  BY BoundStep
<1> QED  BY <1>1, <1>2, <1>3, Invariance, PTL DEF Spec
=============================================================================
