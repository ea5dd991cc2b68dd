-------------------------- MODULE NotionReadingProofs --------------------------
(***************************************************************************)
(* What holds of everything that is read back from Notion: the comparison  *)
(* of a page with its task, the scan of the tables, and the review of what *)
(* a restore has isolated.  The three do not share state; each part below  *)
(* is about one of them.                                                   *)
(***************************************************************************)
EXTENDS NotionMerge, NotionScan, RestoreReview, TLAPS

----------------------------------------------------------------------------
(* The comparison.  Sides that have their types are all that the three     *)
(* decisions need; that every step keeps the types is the invariant.       *)

(* The merge of three sides has a value in every field. *)
LEMMA MergedType ==
  ASSUME NEW b \in TaskFields, NEW l \in TaskFields, NEW r \in TaskFields
  PROVE  Merged(b, l, r) \in TaskFields
  BY DEF Merged, TaskFields

(* A patched page has a value in every field. *)
LEMMA PatchedType ==
  ASSUME NEW l \in TaskFields, NEW r \in TaskFields, NEW patch,
         patch = RemotePatch(r, l, r)
  PROVE  [f \in Field |-> IF f \in DOMAIN patch THEN patch[f] ELSE r[f]] \in TaskFields
  BY DEF RemotePatch, PatchFields, TaskFields

(* Edits, merges and sends keep the types of the three sides. *)
THEOREM MergeTyped == MergeSpec => []MergeTypeOK
<1>1. MergeInit => MergeTypeOK
  BY DEF MergeInit, MergeTypeOK
<1>2. MergeTypeOK /\ [MergeNext]_mergeVars => MergeTypeOK'
  <2> SUFFICES ASSUME MergeTypeOK, [MergeNext]_mergeVars
               PROVE  MergeTypeOK'
    OBVIOUS
  <2>1. ASSUME NEW f \in Field, NEW v \in Value, EditLocal(f, v)
        PROVE  MergeTypeOK'
    BY <2>1 DEF EditLocal, MergeTypeOK, TaskFields
  <2>2. ASSUME NEW f \in Field, NEW v \in Value, EditRemote(f, v)
        PROVE  MergeTypeOK'
    BY <2>2 DEF EditRemote, MergeTypeOK, TaskFields
  <2>3. CASE Rebase
    BY <2>3, MergedType DEF Rebase, MergeTypeOK
  <2>4. CASE Push
    BY <2>4, PatchedType DEF Push, MergeTypeOK
  <2>5. CASE UNCHANGED mergeVars
    BY <2>5 DEF mergeVars, MergeTypeOK
  <2>6. QED
    BY <2>1, <2>2, <2>3, <2>4, <2>5 DEF MergeNext
<1>3. QED
  BY <1>1, <1>2, PTL DEF MergeSpec

(* The merge keeps the only side that moved, and Notion's value where both *)
(* did, in every reachable state (reconcileNotionTask).                    *)
THEOREM MergeDecided == MergeSpec => []MergeDecides
<1>1. MergeTypeOK => MergeDecides
  BY DEF MergeTypeOK, MergeDecides, Merged, PatchFields, Changed
<1>2. QED
  BY <1>1, MergeTyped, PTL

(* The PATCH of the second comparison is the PATCH of the first, in every  *)
(* reachable state (the two calls of dispatchOne).                         *)
THEOREM PatchesAgree == MergeSpec => []SecondPatchAgrees
<1>1. MergeTypeOK => SecondPatchAgrees
  <2> SUFFICES ASSUME MergeTypeOK
               PROVE  SecondPatchAgrees
    OBVIOUS
  <2> DEFINE merged == Merged(baseline, local, remote)
  <2>1. PatchFields(remote, merged, remote) = PatchFields(baseline, local, remote)
    BY DEF PatchFields, Changed, Merged
  <2>2. \A f \in PatchFields(baseline, local, remote) : merged[f] = local[f]
    BY DEF PatchFields, Merged
  <2>3. QED
    BY <2>1, <2>2 DEF SecondPatchAgrees, RemotePatch
<1>2. QED
  BY <1>1, MergeTyped, PTL

(* Conflicts are recorded exactly for the local edits that the merge       *)
(* discards, in every reachable state (reconcileNotionTask).               *)
THEOREM ConflictsRecorded == MergeSpec => []ConflictsAreLosses
<1>1. MergeTypeOK => ConflictsAreLosses
  BY DEF MergeTypeOK, ConflictsAreLosses, Conflicts, Merged, PatchFields, Changed
<1>2. QED
  BY <1>1, MergeTyped, PTL

----------------------------------------------------------------------------
(* The review of an isolated operation. *)

Time == Nat \ {0}
Review == [at : Nat, outcome : Outcomes \cup {"none"}]
FenceRow == [dataset : Nat, paused : BOOLEAN, at : Nat]
Reading == [phase : {"reading"}, review : Review, fence : FenceRow, at : Nat]
Observed == [phase : {"observed"}, review : Review, fence : FenceRow, new : Review]

(* What an outcome says of the page was so at its time or later. *)
Witnessed(r) == r.outcome \in Pages \ {"absent"} => \E t \in r.at..clock : <<t, r.outcome>> \in past

ReviewTyped ==
  /\ clock \in Nat /\ page \in Pages /\ newest \in Nat
  /\ review \in Review /\ fence \in FenceRow
  /\ audit \in [Auditor -> {NoAudit} \cup Reading \cup Observed]
  /\ past \in SUBSET (Nat \X Pages)

(* What is on record is the newest, and every observation, recorded or on  *)
(* its way, and every backup, tells of a page that was seen.               *)
AuditsSeen ==
  \A p \in Auditor :
    /\ audit[p].phase = "reading" => audit[p].at <= clock
    /\ audit[p].phase = "observed" => Witnessed(audit[p].new)
ReviewInv ==
  /\ ReviewTyped
  /\ review.at = newest /\ Witnessed(review)
  /\ <<clock, page>> \in past
  /\ \A seen \in past : seen[1] <= clock
  /\ AuditsSeen

LEMMA ReviewRows ==
  /\ NoReview \in Review /\ NoReview.outcome = "none" /\ NoReview.at = 0
  /\ NoAudit.phase = "idle" /\ NoAudit \notin Reading /\ NoAudit \notin Observed
  /\ \A a \in Reading : a.phase = "reading" /\ a.review \in Review /\ a.fence \in FenceRow
                        /\ a.at \in Nat
  /\ \A a \in Observed : a.phase = "observed" /\ a.new \in Review
  BY DEF NoReview, NoAudit, Review, Reading, Observed

LEMMA AuditFacts ==
  ASSUME ReviewInv, NEW p \in Auditor
  PROVE  /\ audit[p] \in {NoAudit} \cup Reading \cup Observed
         /\ audit[p].phase = "reading" => audit[p] \in Reading /\ audit[p].at <= clock
         /\ audit[p].phase = "observed" => audit[p] \in Observed /\ Witnessed(audit[p].new)
  BY ReviewRows DEF ReviewInv, ReviewTyped, AuditsSeen

(* A witness stays while time passes and the past grows. *)
LEMMA WitnessStays ==
  ASSUME NEW r \in Review, Witnessed(r), clock \in Nat, clock' \in Nat, clock <= clock',
         past \subseteq past'
  PROVE  r.outcome \in Pages \ {"absent"} => \E t \in r.at..clock' : <<t, r.outcome>> \in past'
<1> SUFFICES ASSUME r.outcome \in Pages \ {"absent"}
             PROVE  \E t \in r.at..clock' : <<t, r.outcome>> \in past'
  OBVIOUS
<1>1. PICK t \in r.at..clock : <<t, r.outcome>> \in past
  BY DEF Witnessed
<1>2. t \in r.at..clock'
  BY DEF Review
<1>3. QED
  BY <1>1, <1>2

(* One audit takes a step that leaves the page and the time alone. *)
LEMMA AuditMoves ==
  ASSUME ReviewInv, NEW p \in Auditor, UNCHANGED <<clock, page, past>>,
         review' \in Review, fence' \in FenceRow, newest' \in Nat,
         review'.at = newest', Witnessed(review)', 
         NEW a \in {NoAudit} \cup Reading \cup Observed, audit' = [audit EXCEPT ![p] = a],
         a \in Reading => a.at <= clock, a \in Observed => Witnessed(a.new)
  PROVE  ReviewInv'
<1>1. /\ audit' \in [Auditor -> {NoAudit} \cup Reading \cup Observed]
      /\ audit'[p] = a /\ \A q \in Auditor \ {p} : audit'[q] = audit[q]
  BY DEF ReviewInv, ReviewTyped
<1>2. AuditsSeen'
  <2> SUFFICES ASSUME NEW q \in Auditor
               PROVE  /\ audit'[q].phase = "reading" => audit'[q].at <= clock'
                      /\ audit'[q].phase = "observed" => Witnessed(audit[q].new)'
    BY DEF AuditsSeen
  <2>1. CASE q = p
    BY <1>1, <2>1, ReviewRows DEF Witnessed
  <2>2. CASE q # p
    BY <1>1, <2>2, AuditFacts DEF Witnessed
  <2>3. QED
    BY <2>1, <2>2
<1>3. ReviewTyped'
  BY <1>1 DEF ReviewInv, ReviewTyped
<1>4. QED
  BY <1>2, <1>3 DEF ReviewInv

(* The audits rest while the record, the fence, the page or the time move. *)
LEMMA AuditsRest ==
  ASSUME ReviewInv, audit' = audit, clock' \in Nat, clock <= clock', past \subseteq past'
  PROVE  AuditsSeen'
<1> SUFFICES ASSUME NEW q \in Auditor
             PROVE  /\ audit'[q].phase = "reading" => audit'[q].at <= clock'
                    /\ audit'[q].phase = "observed" => Witnessed(audit[q].new)'
  BY DEF AuditsSeen
<1>1. clock \in Nat
  BY DEF ReviewInv, ReviewTyped
<1>2. audit[q].phase = "reading" => audit[q].at \in Nat /\ audit[q].at <= clock
  BY AuditFacts, ReviewRows
<1>3. audit[q].phase = "observed" => audit[q].new \in Review /\ Witnessed(audit[q].new)
  BY AuditFacts, ReviewRows
<1>4. audit[q].phase = "observed" =>
        (audit[q].new.outcome \in Pages \ {"absent"} =>
           \E t \in audit[q].new.at..clock' : <<t, audit[q].new.outcome>> \in past')
  BY <1>1, <1>3, WitnessStays
<1>5. QED
  BY <1>1, <1>2, <1>4 DEF Witnessed

(* The outcome of a backup was seen, wherever the backup was made. *)
LEMMA BackupsSeen ==
  ASSUME ReviewInv, NEW theirs \in Backups
  PROVE  theirs \in Review /\ Witnessed(theirs)
<1>1. CASE theirs = NoReview
  BY <1>1, ReviewRows DEF Witnessed, Pages
<1>2. CASE theirs # NoReview
  <2>1. PICK seen \in past : theirs = [at |-> seen[1], outcome |-> seen[2]]
    BY <1>2 DEF Backups
  <2>2. /\ seen[1] \in Nat /\ seen[2] \in Pages /\ seen = <<seen[1], seen[2]>>
        /\ seen[1] <= clock /\ clock \in Nat
    BY DEF ReviewInv, ReviewTyped
  <2>3. theirs \in Review /\ theirs.at = seen[1] /\ theirs.outcome = seen[2]
    BY <2>1, <2>2 DEF Review, Outcomes
  <2>4. seen[1] \in theirs.at..clock /\ <<seen[1], theirs.outcome>> \in past
    BY <2>2, <2>3
  <2>5. QED
    BY <2>3, <2>4 DEF Witnessed
<1>3. QED
  BY <1>1, <1>2

LEMMA AuditStepKeeps ==
  ASSUME ReviewInv, NEW p \in Auditor, AuditStep(p)
  PROVE  ReviewInv'
<1>1. /\ clock \in Nat /\ page \in Pages /\ newest \in Nat /\ review \in Review
      /\ fence \in FenceRow /\ review.at = newest /\ Witnessed(review)
      /\ <<clock, page>> \in past
  BY DEF ReviewInv, ReviewTyped
<1>2. CASE BeginAudit(p)
  <2> DEFINE a == [phase |-> "reading", review |-> review, fence |-> fence, at |-> clock]
  <2>1. a \in Reading /\ a \notin Observed /\ a.at <= clock
    BY <1>1 DEF Reading, Observed
  <2>2. audit' = [audit EXCEPT ![p] = a]
        /\ UNCHANGED <<clock, fence, review, page, moves, newest, past>>
    BY <1>2 DEF BeginAudit
  <2> HIDE DEF a
  <2>3. QED
    BY <1>1, <2>1, <2>2, AuditMoves DEF Witnessed
<1>3. CASE Observe(p)
  <2>1. PICK outcome \in Outcomes :
          /\ MayObserve(outcome)
          /\ audit' = [audit EXCEPT ![p] =
               [phase |-> "observed", review |-> @.review, fence |-> @.fence,
                new |-> [at |-> @.at, outcome |-> outcome]]]
    BY <1>3 DEF Observe
  <2> DEFINE new == [at |-> audit[p].at, outcome |-> outcome]
             a == [phase |-> "observed", review |-> audit[p].review, fence |-> audit[p].fence,
                   new |-> new]
  <2>2. audit[p] \in Reading /\ audit[p].at <= clock
    BY <1>3, AuditFacts DEF Observe
  <2>3. new \in Review /\ new.at <= clock /\ new.at \in Nat /\ new.outcome = outcome
    BY <2>2, ReviewRows DEF Review
  <2>4. audit' = [audit EXCEPT ![p] = a]
        /\ UNCHANGED <<clock, fence, review, page, moves, newest, past>>
    BY <1>3, <2>1 DEF Observe
  <2> HIDE DEF new
  <2>5. Witnessed(new)
    <3> SUFFICES ASSUME new.outcome \in Pages \ {"absent"}
                 PROVE  \E t \in new.at..clock : <<t, new.outcome>> \in past
      BY DEF Witnessed
    <3>1. new.outcome = page
      BY <2>1, <2>3 DEF MayObserve, Pages
    <3>2. clock \in new.at..clock
      BY <1>1, <2>3
    <3>3. QED
      BY <1>1, <3>1, <3>2
  <2>6. a \in Observed /\ a \notin Reading /\ a.new = new
    BY <2>2, <2>3, ReviewRows DEF Observed, Reading
  <2> HIDE DEF a
  <2>7. QED
    BY <1>1, <2>4, <2>5, <2>6, AuditMoves DEF Witnessed
<1>4. CASE RecordReview(p)
  <2>1. audit[p].new \in Review /\ Witnessed(audit[p].new)
    BY <1>4, AuditFacts, ReviewRows DEF RecordReview
  <2>2. audit' = [audit EXCEPT ![p] = NoAudit] /\ UNCHANGED <<clock, fence, page, moves, past>>
    BY <1>4 DEF RecordReview
  <2>3. /\ review' \in Review /\ newest' \in Nat /\ review'.at = newest'
        /\ Witnessed(review)'
    <3>1. CASE MayRecord(p)
      <4>1. review' = audit[p].new /\ newest' = Larger(newest, audit[p].new.at)
        BY <1>4, <3>1 DEF RecordReview
      <4>2. newest' = audit[p].new.at /\ newest' \in Nat
        BY <1>1, <2>1, <3>1, <4>1 DEF MayRecord, Larger, Review
      <4>3. QED
        BY <2>1, <2>2, <4>1, <4>2 DEF Witnessed
    <3>2. CASE ~MayRecord(p)
      <4>1. UNCHANGED <<review, newest>>
        BY <1>4, <3>2 DEF RecordReview
      <4>2. QED
        BY <1>1, <2>2, <4>1 DEF Witnessed
    <3>3. QED
      BY <3>1, <3>2
  <2>4. QED
    BY <1>1, <2>2, <2>3, ReviewRows, AuditMoves
<1>5. CASE LoseAudit(p)
  BY <1>1, <1>5, ReviewRows, AuditMoves DEF LoseAudit, Witnessed
<1>6. QED
  BY <1>2, <1>3, <1>4, <1>5 DEF AuditStep

LEMMA ReviewStepKeeps ==
  ASSUME ReviewInv, [ReviewNext]_reviewVars
  PROVE  ReviewInv'
<1>1. /\ clock \in Nat /\ page \in Pages /\ newest \in Nat /\ review \in Review
      /\ fence \in FenceRow /\ review.at = newest /\ Witnessed(review)
      /\ <<clock, page>> \in past /\ past \in SUBSET (Nat \X Pages)
      /\ \A seen \in past : seen[1] <= clock
      /\ audit \in [Auditor -> {NoAudit} \cup Reading \cup Observed]
  BY DEF ReviewInv, ReviewTyped
<1>2. ASSUME NEW p \in Auditor, AuditStep(p)
      PROVE  ReviewInv'
  BY <1>2, AuditStepKeeps
<1>3. CASE PauseForRestore \/ LeaveFence
  <2>1. UNCHANGED <<clock, review, audit, page, moves, newest, past>>
    BY <1>3 DEF PauseForRestore, LeaveFence
  <2>2. fence' \in FenceRow
    BY <1>1, <1>3 DEF PauseForRestore, LeaveFence, FenceRow
  <2>3. AuditsSeen'
    BY <1>1, <2>1, AuditsRest
  <2>4. QED
    BY <1>1, <2>1, <2>2, <2>3 DEF ReviewInv, ReviewTyped, Witnessed
<1>4. CASE ReplaceData
  <2>1. PICK theirs \in Backups : /\ review' = Newer(review, theirs)
                                  /\ newest' = Larger(newest, theirs.at)
    BY <1>4 DEF ReplaceData
  <2>2. theirs \in Review /\ Witnessed(theirs)
    BY BackupsSeen
  <2>3. /\ UNCHANGED <<clock, audit, page, moves, past>>
        /\ fence' = [dataset |-> fence.dataset + 1, paused |-> TRUE, at |-> clock]
    BY <1>4 DEF ReplaceData
  <2>4. fence' \in FenceRow
    BY <1>1, <2>3 DEF FenceRow
  <2>5. AuditsSeen'
    BY <1>1, <2>3, AuditsRest
  <2>6. /\ review' \in {review, theirs} /\ review'.at = newest' /\ newest' \in Nat
    BY <1>1, <2>1, <2>2 DEF Newer, Larger, Review
  <2>7. review' \in Review /\ Witnessed(review)'
    BY <1>1, <2>2, <2>3, <2>6 DEF Witnessed
  <2>8. QED
    BY <1>1, <2>3, <2>4, <2>5, <2>6, <2>7 DEF ReviewInv, ReviewTyped
<1>5. CASE MovePage
  <2>1. /\ page' \in Pages /\ past' = past \cup {<<clock, page'>>}
        /\ UNCHANGED <<clock, fence, review, audit, newest>>
    BY <1>5 DEF MovePage
  <2>2. past' \in SUBSET (Nat \X Pages) /\ \A seen \in past' : seen[1] <= clock
    BY <1>1, <2>1
  <2>3. AuditsSeen' /\ Witnessed(review)'
    BY <1>1, <2>1, AuditsRest, WitnessStays DEF Witnessed
  <2>4. QED
    BY <1>1, <2>1, <2>2, <2>3 DEF ReviewInv, ReviewTyped
<1>6. CASE TimePasses
  <2>1. /\ clock' = clock + 1 /\ past' = past \cup {<<clock', page>>}
        /\ UNCHANGED <<fence, review, audit, page, newest>>
    BY <1>6 DEF TimePasses
  <2>2. clock' \in Nat /\ clock <= clock'
    BY <1>1, <2>1
  <2>3. past' \in SUBSET (Nat \X Pages) /\ \A seen \in past' : seen[1] <= clock'
    <3>1. \A seen \in past : seen[1] \in Nat
      BY <1>1
    <3>2. QED
      BY <1>1, <2>1, <2>2, <3>1
  <2>4. AuditsSeen'
    BY <2>1, <2>2, AuditsRest
  <2>5. Witnessed(review)'
    BY <1>1, <2>1, <2>2, WitnessStays DEF Witnessed
  <2>6. QED
    BY <1>1, <2>1, <2>2, <2>3, <2>4, <2>5 DEF ReviewInv, ReviewTyped
<1>7. CASE UNCHANGED reviewVars
  <2>1. UNCHANGED <<clock, fence, review, audit, page, moves, newest, past>>
    BY <1>7 DEF reviewVars
  <2>2. AuditsSeen'
    BY <1>1, <2>1, AuditsRest
  <2>3. QED
    BY <1>1, <2>1, <2>2 DEF ReviewInv, ReviewTyped, Witnessed
<1>8. QED
  BY <1>2, <1>3, <1>4, <1>5, <1>6, <1>7 DEF ReviewNext

LEMMA ReviewBegins == ReviewInit => ReviewInv
<1> SUFFICES ASSUME ReviewInit PROVE ReviewInv
  OBVIOUS
<1>1. /\ clock = 1 /\ page \in Pages /\ newest = 0 /\ review = NoReview /\ past = {<<1, page>>}
      /\ fence = [dataset |-> 0, paused |-> TRUE, at |-> 1]
      /\ audit = [p \in Auditor |-> NoAudit]
  BY DEF ReviewInit
<1>2. ReviewTyped
  BY <1>1, ReviewRows DEF ReviewTyped, FenceRow
<1>3. AuditsSeen
  BY <1>1, ReviewRows DEF AuditsSeen
<1>4. Witnessed(review)
  BY <1>1, ReviewRows DEF Witnessed, Pages
<1>5. QED
  BY <1>1, <1>2, <1>3, <1>4, ReviewRows DEF ReviewInv

(* The review on record is the newest that was recorded or imported, and   *)
(* the page it tells of was there at its time or later, for any number of  *)
(* processes that read, restores of any backups and changes of the page    *)
(* (recordNotionRestoreReview, replaceAllData).                            *)
THEOREM NewestReview == ReviewSpec => []LatestReview
<1>1. ReviewInv => LatestReview
  BY DEF ReviewInv, LatestReview, Witnessed
<1>2. ReviewInv /\ [ReviewNext]_reviewVars => ReviewInv'
  BY ReviewStepKeeps
<1>3. QED
  BY <1>1, <1>2, ReviewBegins, PTL DEF ReviewSpec

----------------------------------------------------------------------------
(* The scan of the tables. *)

TaskRow == [here : BOOLEAN, archived : BOOLEAN, holds : Nat]
PageRow == [there : BOOLEAN, trash : BOOLEAN, holds : Nat]
RuleRow == [days : SUBSET Day, trash : BOOLEAN, edits : Nat]
ReadRows == UNION {[D -> Nat] : D \in SUBSET Day}
Scanning == [phase : {"begin", "read", "apply"}, table : 1..3, binding : Nat, attempt : Nat,
             revision : Nat, known : SUBSET Day, rows : ReadRows, gone : SUBSET Day,
             rule : RuleRow]

ScanTyped ==
  /\ revision \in Nat /\ binding \in Nat
  /\ tasks \in [Day -> TaskRow]
  /\ mapped \in [Day -> {"none", "create", "page"}]
  /\ owed \in SUBSET Day
  /\ marks \in [1..3 -> [attempt : Nat, applied : Nat]]
  /\ scan \in [Reader -> {NoScan} \cup Scanning]
  /\ pages \in [Day -> PageRow] /\ copies \in [Day -> {0, 1}] /\ rule \in RuleRow
  /\ edits \in [Day -> Nat]

(* An occurrence is linked from the moment it is made, and has one page    *)
(* once it was sent.                                                       *)
Linked ==
  \A d \in Day :
    /\ tasks[d].here <=> mapped[d] # "none"
    /\ d \in owed => tasks[d].here
    /\ pages[d].there <=> mapped[d] = "page"
    /\ copies[d] = IF mapped[d] = "page" THEN 1 ELSE 0

(* A task holds the last edit, and so does its page unless it is owed.     *)
Holding ==
  \A d \in Day :
    /\ IF tasks[d].here THEN tasks[d].holds = edits[d] ELSE edits[d] = 0
    /\ tasks[d].here /\ d \notin owed => mapped[d] = "page" /\ pages[d].holds = edits[d]

(* A reading of the tasks has missed nothing while the data did not move.  *)
ReadSound(p) ==
  /\ scan[p].revision <= revision
  /\ scan[p].phase = "apply" => \A d \in DOMAIN scan[p].rows : mapped[d] = "page"
  /\ scan[p].table = 3 /\ scan[p].revision = revision =>
       /\ scan[p].phase = "read" => owed = {}
       /\ scan[p].phase = "apply" => \A d \in DOMAIN scan[p].rows : scan[p].rows[d] = edits[d]
ReadsSound == \A p \in Reader : scan[p] # NoScan => ReadSound(p)

MarksOrdered == \A i \in 1..3 : marks[i].applied <= marks[i].attempt

ScanInv == ScanTyped /\ Linked /\ Holding /\ ReadsSound /\ MarksOrdered

(* What a step may never do. *)
InOrder == \A i \in 1..3 : marks'[i].applied >= marks[i].applied
GoodScanStep == ScanInv' /\ InOrder

LEMMA ScanFacts ==
  ASSUME ScanInv, NEW p \in Reader, scan[p].phase # "idle"
  PROVE  /\ scan[p] \in Scanning /\ scan[p] # NoScan /\ ReadSound(p)
         /\ scan[p].phase \in {"begin", "read", "apply"} /\ scan[p].table \in 1..3
         /\ scan[p].rows \in ReadRows /\ DOMAIN scan[p].rows \in SUBSET Day
         /\ \A d \in DOMAIN scan[p].rows : scan[p].rows[d] \in Nat
         /\ scan[p].gone \in SUBSET Day /\ scan[p].known \in SUBSET Day
         /\ scan[p].attempt \in Nat /\ scan[p].revision \in Nat
<1>1. scan[p] \in {NoScan} \cup Scanning /\ NoScan.phase = "idle"
  BY DEF ScanInv, ScanTyped, NoScan
<1>2. scan[p] \in Scanning /\ scan[p] # NoScan
  BY <1>1
<1>3. scan[p].rows \in ReadRows
  BY <1>2 DEF Scanning
<1>4. PICK D \in SUBSET Day : scan[p].rows \in [D -> Nat]
  BY <1>3 DEF ReadRows
<1>5. QED
  BY <1>2, <1>3, <1>4 DEF ScanInv, ReadsSound, Scanning

LEMMA ScanRows ==
  /\ NoScan.phase = "idle" /\ NoScan \notin Scanning
  /\ \A s \in Scanning : s.phase # "idle" /\ s # NoScan
  BY DEF NoScan, Scanning

(* Other readers go on while the store moves. *)
LEMMA ReadStays ==
  ASSUME ScanInv, NEW p \in Reader, scan'[p] = scan[p], revision' \in Nat, revision <= revision',
         \A d \in Day : mapped[d] = "page" => mapped'[d] = "page",
         revision' = revision => owed' \subseteq owed /\ edits' = edits
  PROVE  scan'[p] # NoScan => ReadSound(p)'
<1> SUFFICES ASSUME scan[p] # NoScan PROVE ReadSound(p)'
  OBVIOUS
<1>1. scan[p].phase # "idle"
  BY ScanRows DEF ScanInv, ScanTyped
<1>2. /\ ReadSound(p) /\ scan[p].revision \in Nat /\ DOMAIN scan[p].rows \in SUBSET Day
      /\ revision \in Nat
  BY <1>1, ScanFacts DEF ScanInv, ScanTyped
<1>3. /\ scan[p].revision <= revision'
      /\ scan[p].revision = revision' => revision' = revision
  BY <1>2 DEF ReadSound
<1>4. scan[p].phase = "apply" => \A d \in DOMAIN scan[p].rows : mapped'[d] = "page"
  BY <1>2 DEF ReadSound
<1>5. scan[p].table = 3 /\ scan[p].revision = revision' =>
        /\ scan[p].phase = "read" => owed' = {}
        /\ scan[p].phase = "apply" => \A d \in DOMAIN scan[p].rows : scan[p].rows[d] = edits'[d]
  BY <1>2, <1>3 DEF ReadSound
<1>6. QED
  BY <1>3, <1>4, <1>5 DEF ReadSound

(* A step of one reader that leaves tasks, links and pages alone. *)
LEMMA ReaderMoves ==
  ASSUME ScanInv, NEW p \in Reader, NEW s \in {NoScan} \cup Scanning,
         scan' = [scan EXCEPT ![p] = s],
         UNCHANGED <<binding, tasks, mapped, owed, pages, copies, rule, edits>>,
         revision' \in Nat, revision <= revision',
         marks' \in [1..3 -> [attempt : Nat, applied : Nat]], MarksOrdered', InOrder,
         s # NoScan => ReadSound(p)'
  PROVE  GoodScanStep
<1>1. /\ scan' \in [Reader -> {NoScan} \cup Scanning] /\ scan'[p] = s
      /\ \A q \in Reader \ {p} : scan'[q] = scan[q]
  BY DEF ScanInv, ScanTyped
<1>2. ScanTyped' /\ Linked' /\ Holding'
  BY <1>1 DEF ScanInv, ScanTyped, Linked, Holding
<1>3. ASSUME NEW q \in Reader
      PROVE  scan'[q] # NoScan => ReadSound(q)'
  <2>1. CASE q = p
    BY <1>1, <2>1
  <2>2. CASE q # p
    BY <1>1, <2>2, ReadStays
  <2>3. QED
    BY <2>1, <2>2
<1>4. ReadsSound'
  BY <1>3 DEF ReadsSound
<1>5. QED
  BY <1>2, <1>4 DEF GoodScanStep, ScanInv

LEMMA SameMarks ==
  ASSUME ScanInv, marks' = marks
  PROVE  marks' \in [1..3 -> [attempt : Nat, applied : Nat]] /\ MarksOrdered' /\ InOrder
<1>1. \A i \in 1..3 : marks[i].applied \in Nat
  BY DEF ScanInv, ScanTyped
<1>2. QED
  BY <1>1 DEF ScanInv, ScanTyped, MarksOrdered, InOrder

LEMMA SameRevision ==
  ASSUME ScanInv, revision' = revision
  PROVE  revision' \in Nat /\ revision <= revision' /\ revision \in Nat
<1>1. revision \in Nat
  BY DEF ScanInv, ScanTyped
<1>2. QED
  BY <1>1

LEMMA EnterGood ==
  ASSUME ScanInv, NEW p \in Reader, EnterScan(p)
  PROVE  GoodScanStep
<1> DEFINE s == [phase |-> "begin", table |-> 1, binding |-> binding, attempt |-> 0,
                 revision |-> 0, known |-> {d \in Day : mapped[d] = "page"},
                 rows |-> [d \in {} |-> 0], gone |-> {}, rule |-> rule]
<1>1. /\ scan' = [scan EXCEPT ![p] = s]
      /\ UNCHANGED <<binding, tasks, mapped, owed, pages, copies, rule, edits, revision, marks>>
  BY DEF EnterScan, connectionVars, localVars, notion
<1>2. [d \in {} |-> 0] \in ReadRows
  <2>1. {} \in SUBSET Day /\ [d \in {} |-> 0] \in [{} -> Nat]
    OBVIOUS
  <2>2. QED
    BY <2>1 DEF ReadRows
<1>3. binding \in Nat /\ rule \in RuleRow /\ revision \in Nat
  BY DEF ScanInv, ScanTyped
<1>4. s \in Scanning /\ s.phase = "begin" /\ s.table = 1 /\ s.revision = 0
  BY <1>2, <1>3 DEF Scanning
<1> HIDE DEF s
<1>5. scan'[p] = s
  BY <1>1 DEF ScanInv, ScanTyped
<1>6. ReadSound(p)'
  BY <1>1, <1>3, <1>4, <1>5 DEF ReadSound
<1>7. QED
  BY <1>1, <1>4, <1>6, SameMarks, SameRevision, ReaderMoves

LEMMA BeginScanGood ==
  ASSUME ScanInv, NEW p \in Reader, Begin(p)
  PROVE  GoodScanStep
<1> DEFINE i == Table(p)
           k == marks[i].attempt + 1
           s == [scan[p] EXCEPT !.phase = "read", !.attempt = k, !.revision = revision]
           row == [marks[i] EXCEPT !.attempt = k]
<1>1. /\ scan[p].phase = "begin" /\ MayBegin(p)
      /\ marks' = [marks EXCEPT ![i].attempt = k]
      /\ scan' = [scan EXCEPT ![p].phase = "read", ![p].attempt = k, ![p].revision = revision]
      /\ UNCHANGED <<binding, tasks, mapped, owed, pages, copies, rule, edits, revision>>
  BY DEF Begin, connectionVars, notion
<1>2. scan[p] \in Scanning /\ i \in 1..3 /\ scan[p].phase # "idle"
  BY <1>1, ScanFacts DEF Table
<1>3. marks \in [1..3 -> [attempt : Nat, applied : Nat]] /\ revision \in Nat
  BY DEF ScanInv, ScanTyped
<1>4. marks[i].attempt \in Nat /\ marks[i].applied \in Nat /\ k \in Nat
      /\ marks[i].applied <= marks[i].attempt
  BY <1>2, <1>3 DEF ScanInv, MarksOrdered
<1>5. row \in [attempt : Nat, applied : Nat] /\ row.attempt = k /\ row.applied = marks[i].applied
  BY <1>2, <1>3, <1>4
<1>6. s \in Scanning /\ s.phase = "read" /\ s.revision = revision /\ s.table = i
  BY <1>2, <1>3, <1>4 DEF Scanning, Table
<1>7. marks' = [marks EXCEPT ![i] = row] /\ scan' = [scan EXCEPT ![p] = s]
  BY <1>1
<1>8. i = 3 => owed = {}
  BY <1>1 DEF MayBegin, Unresolved
<1> HIDE DEF i, k, s, row
<1>9. /\ marks' \in [1..3 -> [attempt : Nat, applied : Nat]] /\ marks'[i] = row
      /\ \A j \in 1..3 : j # i => marks'[j] = marks[j]
  BY <1>2, <1>3, <1>5, <1>7
<1>10. MarksOrdered' /\ InOrder
  <2> SUFFICES ASSUME NEW j \in 1..3
               PROVE  marks'[j].applied <= marks'[j].attempt /\ marks'[j].applied >= marks[j].applied
    BY DEF MarksOrdered, InOrder
  <2>1. /\ marks[j].applied \in Nat /\ marks[j].attempt \in Nat
        /\ marks[j].applied <= marks[j].attempt
    BY <1>3 DEF ScanInv, MarksOrdered
  <2>2. CASE j = i
    BY <1>4, <1>5, <1>9, <2>2 DEF k
  <2>3. CASE j # i
    BY <1>9, <2>1, <2>3
  <2>4. QED
    BY <2>2, <2>3
<1>11. scan'[p] = s
  BY <1>7 DEF ScanInv, ScanTyped
<1>12. ReadSound(p)'
  <2>1. s.revision <= revision'
    BY <1>1, <1>6, SameRevision
  <2>2. s.table = 3 => owed' = {}
    BY <1>1, <1>6, <1>8
  <2>3. QED
    BY <1>6, <1>11, <2>1, <2>2 DEF ReadSound
<1>13. QED
  BY <1>1, <1>6, <1>7, <1>9, <1>10, <1>12, SameRevision, ReaderMoves

LEMMA ReadGood ==
  ASSUME ScanInv, NEW p \in Reader, ReadTable(p)
  PROVE  GoodScanStep
<1> DEFINE missing == scan[p].known \ Live
           rows == [d \in Live |-> Row(d)]
           s == [scan[p] EXCEPT !.phase = "apply", !.rule = rule, !.rows = rows, !.gone = missing]
<1>1. /\ scan[p].phase = "read"
      /\ scan' = [scan EXCEPT ![p].phase = "apply", ![p].rule = rule,
                              ![p].rows = [d \in Live |-> Row(d)],
                              ![p].gone = scan[p].known \ Live]
      /\ UNCHANGED <<binding, tasks, mapped, owed, pages, copies, rule, edits, revision, marks>>
  BY DEF ReadTable, connectionVars, localVars, notion
<1>2. /\ scan[p] \in Scanning /\ ReadSound(p) /\ scan[p].known \in SUBSET Day
      /\ scan[p].revision \in Nat
  BY <1>1, ScanFacts
<1>3. /\ rule \in RuleRow /\ revision \in Nat /\ pages \in [Day -> PageRow]
  BY DEF ScanInv, ScanTyped
<1>4. Live \in SUBSET Day /\ rows \in [Live -> Nat] /\ missing \in SUBSET Day
  BY <1>2, <1>3 DEF Live, Row, PageRow
<1>5. rows \in ReadRows
  BY <1>4 DEF ReadRows
<1>6. \A d \in DOMAIN rows : d \in Day /\ rows[d] = pages[d].holds /\ mapped[d] = "page"
  BY DEF Live, Row, ScanInv, Linked
<1>7. scan' = [scan EXCEPT ![p] = s]
  BY <1>1
<1> HIDE DEF missing, rows
<1>8. /\ s \in Scanning /\ s.phase = "apply" /\ s.revision = scan[p].revision /\ s.rows = rows
      /\ s.table = scan[p].table
  BY <1>2, <1>3, <1>4, <1>5 DEF Scanning
<1> HIDE DEF s
<1>9. scan'[p] = s
  BY <1>7 DEF ScanInv, ScanTyped
<1>10. s.table = 3 /\ s.revision = revision => \A d \in DOMAIN rows : rows[d] = edits[d]
  <2> SUFFICES ASSUME s.table = 3, s.revision = revision, NEW d \in DOMAIN rows
               PROVE  rows[d] = edits[d]
    OBVIOUS
  <2>1. owed = {}
    BY <1>1, <1>2, <1>8 DEF ReadSound
  <2>2. tasks[d].here
    BY <1>6 DEF ScanInv, Linked
  <2>3. QED
    BY <1>6, <2>1, <2>2 DEF ScanInv, Holding
<1>11. ReadSound(p)'
  BY <1>1, <1>2, <1>6, <1>8, <1>9, <1>10 DEF ReadSound
<1>12. QED
  BY <1>1, <1>7, <1>8, <1>11, SameMarks, SameRevision, ReaderMoves

(* An answer is published only for the last attempt at its table. *)
LEMMA PublishedMarks ==
  ASSUME ScanInv, NEW p \in Reader, scan[p].phase = "apply", ~Superseded(p), Published(p)
  PROVE  marks' \in [1..3 -> [attempt : Nat, applied : Nat]] /\ MarksOrdered' /\ InOrder
<1> DEFINE i == Table(p)
           row == [marks[i] EXCEPT !.applied = scan[p].attempt]
<1>1. i \in 1..3 /\ scan[p].attempt \in Nat /\ marks[i].attempt = scan[p].attempt
  BY ScanFacts DEF Table, Superseded
<1>2. marks \in [1..3 -> [attempt : Nat, applied : Nat]]
  BY DEF ScanInv, ScanTyped
<1>3. marks[i].attempt \in Nat /\ marks[i].applied \in Nat /\ marks[i].applied <= marks[i].attempt
  BY <1>1, <1>2 DEF ScanInv, MarksOrdered
<1>4. /\ row \in [attempt : Nat, applied : Nat] /\ row.attempt = marks[i].attempt
      /\ row.applied = marks[i].attempt
  BY <1>1, <1>2, <1>3
<1>5. marks' = [marks EXCEPT ![i] = row]
  BY DEF Published
<1> HIDE DEF i, row
<1>6. /\ marks' \in [1..3 -> [attempt : Nat, applied : Nat]] /\ marks'[i] = row
      /\ \A j \in 1..3 : j # i => marks'[j] = marks[j]
  BY <1>1, <1>2, <1>4, <1>5
<1>7. ASSUME NEW j \in 1..3
      PROVE  marks'[j].applied <= marks'[j].attempt /\ marks'[j].applied >= marks[j].applied
  <2>1. /\ marks[j].applied \in Nat /\ marks[j].attempt \in Nat
        /\ marks[j].applied <= marks[j].attempt
    BY <1>2 DEF ScanInv, MarksOrdered
  <2>2. CASE j = i
    BY <1>3, <1>4, <1>6, <2>2
  <2>3. CASE j # i
    BY <1>6, <2>1, <2>3
  <2>4. QED
    BY <2>2, <2>3
<1>8. QED
  BY <1>6, <1>7 DEF MarksOrdered, InOrder

LEMMA PublishedScan ==
  ASSUME ScanInv, NEW p \in Reader, scan[p].phase = "apply", Published(p)
  PROVE  \E s \in {NoScan} \cup Scanning :
           /\ scan' = [scan EXCEPT ![p] = s]
           /\ s # NoScan => s.phase = "begin" /\ s.revision = scan[p].revision
<1>1. CASE Table(p) = 3
  BY <1>1 DEF Published
<1>2. CASE Table(p) # 3
  <2> DEFINE i == scan[p].table + 1
             s == [scan[p] EXCEPT !.phase = "begin", !.table = i]
  <2>1. scan[p] \in Scanning /\ scan[p].table \in 1..3 /\ scan[p].table # 3
    BY <1>2, ScanFacts DEF Table
  <2>2. scan' = [scan EXCEPT ![p] = s]
    <3> DEFINE t == IF Table(p) = 3 THEN NoScan
                    ELSE [scan[p] EXCEPT !.phase = "begin", !.table = @ + 1]
    <3>1. scan' = [scan EXCEPT ![p] = t]
      BY DEF Published
    <3>2. t = s
      BY <1>2
    <3> HIDE DEF t, s
    <3>3. QED
      BY <3>1, <3>2
  <2>3. i \in 1..3
    BY <2>1
  <2> HIDE DEF i
  <2>4. s \in Scanning /\ s.phase = "begin" /\ s.revision = scan[p].revision
    BY <2>1, <2>3 DEF Scanning
  <2> HIDE DEF s
  <2>5. QED
    BY <2>2, <2>4
<1>3. QED
  BY <1>1, <1>2

LEMMA Moved ==
  ASSUME ScanInv, NEW changed, Touched(changed)
  PROVE  /\ revision \in Nat /\ revision' \in Nat /\ revision <= revision'
         /\ changed = TRUE => revision' # revision
<1>1. revision \in Nat
  BY DEF ScanInv, ScanTyped
<1>2. CASE changed
  BY <1>1, <1>2 DEF Touched
<1>3. CASE ~changed
  BY <1>1, <1>3 DEF Touched
<1>4. QED
  BY <1>2, <1>3

(* A published answer that leaves the tasks alone. *)
LEMMA PublishGood ==
  ASSUME ScanInv, NEW p \in Reader, scan[p].phase = "apply", ~Superseded(p), Published(p),
         UNCHANGED <<binding, tasks, mapped, owed, pages, copies, rule, edits>>,
         revision \in Nat, revision' \in Nat, revision <= revision'
  PROVE  GoodScanStep
<1>1. PICK s \in {NoScan} \cup Scanning :
        /\ scan' = [scan EXCEPT ![p] = s]
        /\ s # NoScan => s.phase = "begin" /\ s.revision = scan[p].revision
  BY PublishedScan
<1>2. scan'[p] = s
  BY <1>1 DEF ScanInv, ScanTyped
<1>3. scan[p].revision <= revision /\ scan[p].revision \in Nat
  BY ScanFacts DEF ReadSound
<1>4. s # NoScan => ReadSound(p)'
  BY <1>1, <1>2, <1>3 DEF ReadSound
<1>5. QED
  BY <1>1, <1>4, PublishedMarks, ReaderMoves

LEMMA NodesGood ==
  ASSUME ScanInv, NEW p \in Reader, ApplyNodes(p)
  PROVE  GoodScanStep
<1>1. /\ scan[p].phase = "apply" /\ ~Superseded(p) /\ Published(p)
      /\ UNCHANGED <<binding, tasks, mapped, owed, pages, copies, rule, edits, revision>>
  BY DEF ApplyNodes, connectionVars, notion
<1>2. QED
  BY <1>1, SameRevision, PublishGood

LEMMA RulesGood ==
  ASSUME ScanInv, NEW p \in Reader, ApplyRules(p)
  PROVE  GoodScanStep
<1>1. /\ scan[p].phase = "apply" /\ ~Superseded(p) /\ Published(p)
      /\ UNCHANGED <<binding, tasks, mapped, owed, pages, copies, rule, edits>>
  BY DEF ApplyRules, connectionVars, notion
<1>2. \E changed : Touched(changed)
  BY DEF ApplyRules
<1>3. revision \in Nat /\ revision' \in Nat /\ revision <= revision'
  BY <1>2, Moved
<1>4. QED
  BY <1>1, <1>3, PublishGood

LEMMA GiveUpGood ==
  ASSUME ScanInv, NEW p \in Reader, GiveUp(p)
  PROVE  GoodScanStep
<1>1. /\ scan' = [scan EXCEPT ![p] = NoScan]
      /\ UNCHANGED <<binding, tasks, mapped, owed, pages, copies, rule, edits, revision, marks>>
  BY DEF GiveUp, connectionVars, localVars, notion
<1>2. QED
  BY <1>1, SameMarks, SameRevision, ReaderMoves

(* A step around the readers. *)
LEMMA AroundGood ==
  ASSUME ScanInv, scan' = scan, marks' = marks, ScanTyped', Linked', Holding',
         revision <= revision', \A d \in Day : mapped[d] = "page" => mapped'[d] = "page",
         revision' = revision => owed' \subseteq owed /\ edits' = edits
  PROVE  GoodScanStep
<1>1. revision' \in Nat
  BY DEF ScanTyped
<1>2. ReadsSound'
  BY <1>1, ReadStays DEF ReadsSound
<1>3. QED
  BY <1>2, SameMarks DEF GoodScanStep, ScanInv

LEMMA EditTaskGood ==
  ASSUME ScanInv, NEW d \in Day, Edit(d)
  PROVE  GoodScanStep
<1> DEFINE k == edits[d] + 1
           row == [tasks[d] EXCEPT !.holds = k]
<1>1. /\ tasks[d].here /\ edits' = [edits EXCEPT ![d] = @ + 1]
      /\ tasks' = [tasks EXCEPT ![d].holds = edits'[d]]
      /\ owed' = owed \cup {d} /\ Touched(TRUE)
      /\ UNCHANGED <<binding, mapped, marks, scan, pages, copies, rule>>
  BY DEF Edit, connectionVars, notion
<1>2. /\ tasks \in [Day -> TaskRow] /\ edits \in [Day -> Nat] /\ owed \in SUBSET Day
      /\ revision \in Nat
  BY DEF ScanInv, ScanTyped
<1>3. row \in TaskRow /\ row.here = tasks[d].here /\ row.holds = k /\ k \in Nat
  BY <1>2 DEF TaskRow
<1>4. edits' = [edits EXCEPT ![d] = k] /\ edits'[d] = k
  BY <1>1, <1>2
<1>5. tasks' = [tasks EXCEPT ![d] = row]
  BY <1>1, <1>4
<1> HIDE DEF k, row
<1>6. /\ tasks' \in [Day -> TaskRow] /\ tasks'[d] = row
      /\ \A e \in Day \ {d} : tasks'[e] = tasks[e] /\ edits'[e] = edits[e]
      /\ edits' \in [Day -> Nat]
  BY <1>2, <1>3, <1>4, <1>5
<1>7. revision' \in Nat /\ revision <= revision' /\ revision' # revision
  BY <1>1, Moved
<1>8. ScanTyped'
  BY <1>1, <1>6, <1>7 DEF ScanInv, ScanTyped
<1>9. Linked'
  BY <1>1, <1>3, <1>6 DEF ScanInv, Linked
<1>10. Holding'
  <2> SUFFICES ASSUME NEW e \in Day
               PROVE  /\ IF tasks'[e].here THEN tasks'[e].holds = edits'[e] ELSE edits'[e] = 0
                      /\ tasks'[e].here /\ e \notin owed' =>
                           mapped'[e] = "page" /\ pages'[e].holds = edits'[e]
    BY DEF Holding
  <2>1. CASE e = d
    BY <1>1, <1>3, <1>4, <1>6, <2>1
  <2>2. CASE e # d
    BY <1>1, <1>6, <2>2 DEF ScanInv, Holding
  <2>3. QED
    BY <2>1, <2>2
<1>11. QED
  BY <1>1, <1>7, <1>8, <1>9, <1>10, AroundGood

LEMMA SendGood ==
  ASSUME ScanInv, NEW d \in Day, Send(d)
  PROVE  GoodScanStep
<1> DEFINE row == [there |-> TRUE, trash |-> pages[d].trash, holds |-> tasks[d].holds]
<1>1. /\ d \in owed /\ owed' = owed \ {d}
      /\ mapped' = [mapped EXCEPT ![d] = "page"]
      /\ pages' = [pages EXCEPT ![d] = row]
      /\ copies' = [copies EXCEPT ![d] = IF mapped[d] = "page" THEN @ ELSE @ + 1]
      /\ UNCHANGED <<binding, tasks, marks, revision, scan, rule, edits>>
  BY DEF Send, connectionVars
<1>2. /\ tasks \in [Day -> TaskRow] /\ pages \in [Day -> PageRow] /\ owed \in SUBSET Day
      /\ mapped \in [Day -> {"none", "create", "page"}] /\ copies \in [Day -> {0, 1}]
      /\ edits \in [Day -> Nat]
  BY DEF ScanInv, ScanTyped
<1>3. row \in PageRow /\ row.there = TRUE /\ row.holds = tasks[d].holds
  BY <1>2 DEF TaskRow, PageRow
<1> HIDE DEF row
<1>4. /\ mapped' \in [Day -> {"none", "create", "page"}] /\ mapped'[d] = "page"
      /\ pages' \in [Day -> PageRow] /\ pages'[d] = row
      /\ \A e \in Day \ {d} : mapped'[e] = mapped[e] /\ pages'[e] = pages[e]
  BY <1>1, <1>2, <1>3
<1>5. /\ copies' \in [Day -> {0, 1}] /\ copies'[d] = 1
      /\ \A e \in Day \ {d} : copies'[e] = copies[e]
  <2>1. copies[d] = IF mapped[d] = "page" THEN 1 ELSE 0
    BY DEF ScanInv, Linked
  <2>2. QED
    BY <1>1, <1>2, <2>1
<1>6. ScanTyped'
  BY <1>1, <1>4, <1>5 DEF ScanInv, ScanTyped
<1>7. tasks[d].here
  BY <1>1, <1>2 DEF ScanInv, Linked
<1>8. Linked'
  <2> SUFFICES ASSUME NEW e \in Day
               PROVE  /\ tasks'[e].here <=> mapped'[e] # "none"
                      /\ e \in owed' => tasks'[e].here
                      /\ pages'[e].there <=> mapped'[e] = "page"
                      /\ copies'[e] = IF mapped'[e] = "page" THEN 1 ELSE 0
    BY DEF Linked
  <2>1. CASE e = d
    BY <1>1, <1>3, <1>4, <1>5, <1>7, <2>1
  <2>2. CASE e # d
    BY <1>1, <1>4, <1>5, <2>2 DEF ScanInv, Linked
  <2>3. QED
    BY <2>1, <2>2
<1>9. Holding'
  <2> SUFFICES ASSUME NEW e \in Day
               PROVE  /\ IF tasks'[e].here THEN tasks'[e].holds = edits'[e] ELSE edits'[e] = 0
                      /\ tasks'[e].here /\ e \notin owed' =>
                           mapped'[e] = "page" /\ pages'[e].holds = edits'[e]
    BY DEF Holding
  <2>1. CASE e = d
    BY <1>1, <1>3, <1>4, <1>7, <2>1 DEF ScanInv, Holding
  <2>2. CASE e # d
    BY <1>1, <1>4, <2>2 DEF ScanInv, Holding
  <2>3. QED
    BY <2>1, <2>2
<1>10. /\ \A e \in Day : mapped[e] = "page" => mapped'[e] = "page"
       /\ owed' \subseteq owed
  BY <1>1, <1>4
<1>11. QED
  BY <1>1, <1>6, <1>8, <1>9, <1>10, SameRevision, AroundGood

LEMMA TrashGood ==
  ASSUME ScanInv, NEW d \in Day, Trash(d)
  PROVE  GoodScanStep
<1> DEFINE row == [pages[d] EXCEPT !.trash = ~@]
<1>1. /\ pages' = [pages EXCEPT ![d] = row]
      /\ UNCHANGED <<binding, tasks, mapped, owed, copies, marks, revision, scan, rule, edits>>
  BY DEF Trash, connectionVars, localVars
<1>2. pages \in [Day -> PageRow]
  BY DEF ScanInv, ScanTyped
<1>3. row \in PageRow /\ row.there = pages[d].there /\ row.holds = pages[d].holds
  BY <1>2 DEF PageRow
<1> HIDE DEF row
<1>4. /\ pages' \in [Day -> PageRow]
      /\ \A e \in Day : pages'[e].there = pages[e].there /\ pages'[e].holds = pages[e].holds
  BY <1>1, <1>2, <1>3
<1>5. ScanTyped' /\ Linked' /\ Holding'
  BY <1>1, <1>4 DEF ScanInv, ScanTyped, Linked, Holding
<1>6. QED
  BY <1>1, <1>5, SameRevision, AroundGood

LEMMA RestGood ==
  ASSUME ScanInv, binding' \in Nat, rule' \in RuleRow,
         UNCHANGED <<tasks, mapped, owed, pages, copies, marks, revision, scan, edits>>
  PROVE  GoodScanStep
<1>1. ScanTyped' /\ Linked' /\ Holding'
  BY DEF ScanInv, ScanTyped, Linked, Holding
<1>2. QED
  BY <1>1, SameRevision, AroundGood

LEMMA RuleFenceGood ==
  ASSUME ScanInv, EditRule \/ Fence \/ Reconnect \/ UNCHANGED scanVars
  PROVE  GoodScanStep
<1>1. binding \in Nat /\ rule \in RuleRow
  BY DEF ScanInv, ScanTyped
<1>2. CASE EditRule
  <2>1. UNCHANGED <<binding, tasks, mapped, owed, pages, copies, marks, revision, scan, edits>>
    BY <1>2 DEF EditRule, connectionVars, localVars
  <2>2. rule' \in RuleRow
    <3>1. ASSUME NEW days \in SUBSET Day, rule' = [rule EXCEPT !.days = days, !.edits = @ + 1]
          PROVE  rule' \in RuleRow
      <4>1. rule.edits + 1 \in Nat /\ rule.trash \in BOOLEAN
        BY <1>1 DEF RuleRow
      <4>2. rule' = [days |-> days, trash |-> rule.trash, edits |-> rule.edits + 1]
        BY <1>1, <3>1 DEF RuleRow
      <4>3. QED
        BY <4>1, <4>2 DEF RuleRow
    <3>2. CASE rule' = [rule EXCEPT !.trash = ~@, !.edits = @ + 1]
      <4>1. rule.edits + 1 \in Nat /\ (~rule.trash) \in BOOLEAN /\ rule.days \in SUBSET Day
        BY <1>1 DEF RuleRow
      <4>2. rule' = [days |-> rule.days, trash |-> ~rule.trash, edits |-> rule.edits + 1]
        BY <1>1, <3>2 DEF RuleRow
      <4>3. QED
        BY <4>1, <4>2 DEF RuleRow
    <3>3. QED
      BY <1>2, <3>1, <3>2 DEF EditRule
  <2>3. QED
    BY <1>1, <2>1, <2>2, RestGood
<1>3. CASE Fence
  BY <1>1, <1>3, RestGood DEF Fence, localVars, notion
<1>4. CASE Reconnect
  BY <1>1, <1>4, RestGood DEF Reconnect, localVars, notion
<1>5. CASE UNCHANGED scanVars
  BY <1>1, <1>5, RestGood DEF scanVars, connectionVars, localVars, notion
<1>6. QED
  BY <1>2, <1>3, <1>4, <1>5

(* The tasks are replaced by what was read, and occurrences that are due   *)
(* are made with their links.                                              *)
LEMMA TasksGood ==
  ASSUME ScanInv, NEW p \in Reader, ApplyTasks(p)
  PROVE  GoodScanStep
<1> DEFINE read == ReadTasks(p)
           due == Due(read)
           rows == scan[p].rows
           link == [d \in Day |-> IF d \in DOMAIN rows THEN "page" ELSE mapped[d]]
           made == [d \in Day |-> IF d \in due THEN [NoTask EXCEPT !.here = TRUE] ELSE read[d]]
           new == IF series.status = "active" THEN Unlinked(made, link) ELSE {}
<1>1. /\ scan[p].phase = "apply" /\ scan[p].table = 3 /\ ~Superseded(p) /\ Published(p)
      /\ owed = {} /\ revision = scan[p].revision
      /\ tasks' = made
      /\ mapped' = [d \in Day |-> IF d \in new THEN "create" ELSE link[d]]
      /\ owed' = owed \cup new
      /\ Touched(made # tasks)
      /\ UNCHANGED <<binding, pages, copies, rule, edits>>
  BY DEF ApplyTasks, Undisturbed, Unresolved, Table, connectionVars, notion
<1>2. /\ tasks \in [Day -> TaskRow] /\ mapped \in [Day -> {"none", "create", "page"}]
      /\ edits \in [Day -> Nat]
  BY DEF ScanInv, ScanTyped
<1>3. \A d \in DOMAIN rows : d \in Day /\ mapped[d] = "page" /\ rows[d] = edits[d]
  BY <1>1, ScanFacts DEF ReadSound
<1>4. ASSUME NEW d \in Day
      PROVE  /\ read[d] \in TaskRow /\ read[d].here = tasks[d].here
             /\ read[d].here => read[d].holds = edits[d]
             /\ link[d] = mapped[d]
  <2>1. /\ tasks[d] \in TaskRow /\ edits[d] \in Nat
        /\ tasks[d].here => tasks[d].holds = edits[d]
        /\ mapped[d] = "page" => tasks[d].here
    BY <1>2 DEF ScanInv, Linked, Holding
  <2>2. CASE d \in DOMAIN rows
    <3>1. read[d] = [here |-> TRUE, archived |-> FALSE, holds |-> edits[d]]
      BY <1>3, <2>2 DEF ReadTasks
    <3>2. tasks[d].here /\ mapped[d] = "page"
      BY <1>3, <2>1, <2>2
    <3>3. link[d] = mapped[d]
      BY <2>2, <3>2
    <3>4. read[d] \in TaskRow /\ read[d].here = TRUE /\ read[d].holds = edits[d]
      BY <2>1, <3>1 DEF TaskRow
    <3>5. QED
      BY <3>2, <3>3, <3>4
  <2>3. CASE d \notin DOMAIN rows /\ d \in scan[p].gone
    <3>1. read[d] = [tasks[d] EXCEPT !.archived = TRUE]
      BY <2>3 DEF ReadTasks
    <3>2. QED
      BY <2>1, <2>3, <3>1 DEF TaskRow
  <2>4. CASE d \notin DOMAIN rows /\ d \notin scan[p].gone
    BY <2>1, <2>4 DEF ReadTasks
  <2>5. QED
    BY <2>2, <2>3, <2>4
<1>5. /\ due # {} => series.status = "active"
      /\ \A d \in Day : d \in due => ~read[d].here
  BY DEF Due
<1> HIDE DEF read, due, rows, link
<1> DEFINE fresh == [NoTask EXCEPT !.here = TRUE]
<1>6. fresh \in TaskRow /\ fresh.here = TRUE /\ fresh.archived = FALSE /\ fresh.holds = 0
  BY DEF NoTask, TaskRow
<1>7. made = [d \in Day |-> IF d \in due THEN fresh ELSE read[d]]
  OBVIOUS
<1> HIDE DEF fresh, made
<1>8. ASSUME NEW d \in Day
      PROVE  /\ made[d] \in TaskRow
             /\ made[d].here <=> tasks[d].here \/ d \in due
             /\ IF made[d].here THEN made[d].holds = edits[d] ELSE edits[d] = 0
             /\ d \in due => ~tasks[d].here /\ mapped[d] = "none" /\ made[d] # tasks[d]
             /\ d \in new <=> d \in due
  <2>1. /\ IF tasks[d].here THEN tasks[d].holds = edits[d] ELSE edits[d] = 0
        /\ tasks[d].here <=> mapped[d] # "none"
        /\ tasks[d].here \in BOOLEAN
    BY <1>2 DEF ScanInv, Linked, Holding, TaskRow
  <2>2. CASE d \in due
    <3>1. made[d] = fresh /\ ~tasks[d].here
      BY <1>4, <1>5, <1>7, <2>2
    <3>2. d \in new
      BY <1>4, <1>5, <1>6, <2>1, <2>2, <3>1 DEF Unlinked
    <3>3. QED
      BY <1>6, <2>1, <2>2, <3>1, <3>2
  <2>3. CASE d \notin due
    <3>1. made[d] = read[d]
      BY <1>7, <2>3
    <3>2. d \notin new
      BY <1>4, <2>1, <3>1 DEF Unlinked
    <3>3. QED
      BY <1>4, <2>1, <2>3, <3>1, <3>2
  <2>4. QED
    BY <2>2, <2>3
<1>9. new \in SUBSET Day /\ due \cap Day = new
  BY <1>8 DEF Unlinked
<1> HIDE DEF new
<1>10. \A d \in Day : mapped'[d] = IF d \in new THEN "create" ELSE mapped[d]
  BY <1>1, <1>4
<1>11. tasks' \in [Day -> TaskRow] /\ mapped' \in [Day -> {"none", "create", "page"}]
       /\ owed' = new
  BY <1>1, <1>2, <1>4, <1>7, <1>8, <1>9
<1>12. /\ revision' \in Nat /\ revision <= revision'
       /\ new # {} => revision' # revision
  <2>1. new # {} => made # tasks
    BY <1>8, <1>9
  <2>2. QED
    BY <1>1, <2>1, Moved
<1>13. PICK s \in {NoScan} \cup Scanning :
        /\ scan' = [scan EXCEPT ![p] = s]
        /\ s # NoScan => s.phase = "begin" /\ s.revision = scan[p].revision
  BY <1>1, PublishedScan
<1>14. /\ marks' \in [1..3 -> [attempt : Nat, applied : Nat]] /\ MarksOrdered' /\ InOrder
  BY <1>1, PublishedMarks
<1>15. /\ scan' \in [Reader -> {NoScan} \cup Scanning] /\ scan'[p] = s
       /\ \A q \in Reader \ {p} : scan'[q] = scan[q]
  BY <1>13 DEF ScanInv, ScanTyped
<1>16. ScanTyped'
  BY <1>1, <1>9, <1>11, <1>12, <1>14, <1>15 DEF ScanInv, ScanTyped
<1>17. Linked'
  <2> SUFFICES ASSUME NEW d \in Day
               PROVE  /\ tasks'[d].here <=> mapped'[d] # "none"
                      /\ d \in owed' => tasks'[d].here
                      /\ pages'[d].there <=> mapped'[d] = "page"
                      /\ copies'[d] = IF mapped'[d] = "page" THEN 1 ELSE 0
    BY DEF Linked
  <2>1. /\ tasks[d].here <=> mapped[d] # "none"
        /\ pages[d].there <=> mapped[d] = "page"
        /\ copies[d] = IF mapped[d] = "page" THEN 1 ELSE 0
    BY DEF ScanInv, Linked
  <2>2. QED
    BY <1>1, <1>8, <1>10, <1>11, <2>1
<1>18. Holding'
  <2> SUFFICES ASSUME NEW d \in Day
               PROVE  /\ IF tasks'[d].here THEN tasks'[d].holds = edits'[d] ELSE edits'[d] = 0
                      /\ tasks'[d].here /\ d \notin owed' =>
                           mapped'[d] = "page" /\ pages'[d].holds = edits'[d]
    BY DEF Holding
  <2>1. tasks[d].here => mapped[d] = "page" /\ pages[d].holds = edits[d]
    BY <1>1 DEF ScanInv, Holding
  <2>2. QED
    BY <1>1, <1>8, <1>10, <1>11, <2>1
<1>19. ReadsSound'
  <2> SUFFICES ASSUME NEW q \in Reader, scan'[q] # NoScan
               PROVE  ReadSound(q)'
    BY DEF ReadsSound
  <2>1. CASE q = p
    <3>1. s.phase = "begin" /\ s.revision = revision
      BY <1>1, <1>13, <1>15, <2>1
    <3>2. QED
      BY <1>12, <1>15, <2>1, <3>1 DEF ReadSound
  <2>2. CASE q # p
    <3>1. \A d \in Day : mapped[d] = "page" => mapped'[d] = "page"
      BY <1>8, <1>9, <1>10
    <3>2. revision' = revision => owed' \subseteq owed /\ edits' = edits
      BY <1>1, <1>11, <1>12
    <3>3. scan'[q] = scan[q]
      BY <1>15, <2>2
    <3>4. QED
      BY <1>12, <3>1, <3>2, <3>3, ReadStays
  <2>3. QED
    BY <2>1, <2>2
<1>20. QED
  BY <1>14, <1>16, <1>17, <1>18, <1>19 DEF GoodScanStep, ScanInv

LEMMA ScanStepGood ==
  ASSUME ScanInv, [ScanNext]_scanVars
  PROVE  GoodScanStep
<1>1. ASSUME NEW p \in Reader, ScanStep(p)
      PROVE  GoodScanStep
  BY <1>1, EnterGood, BeginScanGood, ReadGood, NodesGood, RulesGood, TasksGood, GiveUpGood
     DEF ScanStep
<1>2. ASSUME NEW d \in Day, Edit(d) \/ Send(d) \/ Trash(d)
      PROVE  GoodScanStep
  BY <1>2, EditTaskGood, SendGood, TrashGood
<1>3. QED
  BY <1>1, <1>2, RuleFenceGood DEF ScanNext

LEMMA ScanBegins == ScanInit => ScanInv
<1> SUFFICES ASSUME ScanInit PROVE ScanInv
  OBVIOUS
<1>1. /\ NoTask \in TaskRow /\ NoTask.here = FALSE
      /\ NoPage \in PageRow /\ NoPage.there = FALSE
  BY DEF NoTask, TaskRow, NoPage, PageRow
<1>2. ScanTyped
  <2>1. rule \in RuleRow
    <3>1. rule \in [days : SUBSET Day, trash : {FALSE}, edits : {0}]
      BY DEF ScanInit
    <3>2. /\ rule.days \in SUBSET Day /\ rule.edits \in Nat
          /\ rule.trash \in BOOLEAN
      <4>1. rule.days \in SUBSET Day /\ rule.edits \in Nat
        BY <3>1
      <4>2. rule.trash \in {FALSE}
        BY <3>1
      <4>3. rule.trash \in BOOLEAN
        BY <4>2
      <4>4. QED
        BY <4>1, <4>3
    <3>3. rule = [days |-> rule.days, trash |-> rule.trash, edits |-> rule.edits]
      BY <3>1
    <3>4. QED
      BY <3>2, <3>3 DEF RuleRow
  <2>2. marks \in [1..3 -> [attempt : Nat, applied : Nat]]
    <3>1. [attempt |-> 0, applied |-> 0] \in [attempt : Nat, applied : Nat]
      OBVIOUS
    <3>2. QED
      BY <3>1 DEF ScanInit
  <2>3. /\ tasks \in [Day -> TaskRow] /\ pages \in [Day -> PageRow]
        /\ scan \in [Reader -> {NoScan} \cup Scanning]
    BY <1>1 DEF ScanInit
  <2>4. QED
    BY <2>1, <2>2, <2>3 DEF ScanInit, ScanTyped
<1>3. Linked /\ Holding
  BY <1>1 DEF ScanInit, Linked, Holding
<1>4. ReadsSound /\ MarksOrdered
  BY DEF ScanInit, ReadsSound, MarksOrdered
<1>5. QED
  BY <1>2, <1>3, <1>4 DEF ScanInv

LEMMA ScanInvariant == ScanSpec => []ScanInv
<1>1. ScanInv /\ [ScanNext]_scanVars => ScanInv'
  BY ScanStepGood DEF GoodScanStep
<1>2. QED
  BY <1>1, ScanBegins, PTL DEF ScanSpec

(* No scan puts an edit of the user back, whichever edits were queued,     *)
(* sent and confirmed while it was reading, for any number of readers      *)
(* (syncCurrentCredential, readNotionTasks).                               *)
THEOREM EditsNotUndone == ScanSpec => []EditsKept
<1>1. ScanInv => EditsKept
  BY DEF ScanInv, Holding, EditsKept
<1>2. QED
  BY <1>1, ScanInvariant, PTL

(* An occurrence gets one page, whoever scans, edits the rule, archives it *)
(* or takes it up again (generateNotionOccurrences).                       *)
THEOREM OnePageEach == ScanSpec => []OnePagePerOccurrence
<1>1. ScanInv => OnePagePerOccurrence
  BY DEF ScanInv, Linked, OnePagePerOccurrence
<1>2. QED
  BY <1>1, ScanInvariant, PTL

(* An answer that comes late never replaces what a later attempt at the    *)
(* same table has published.                                               *)
THEOREM NewestPublished == ScanSpec => ReadsInOrder
<1>1. ScanInv /\ [ScanNext]_scanVars =>
        [\A i \in 1..3 : marks'[i].applied >= marks[i].applied]_scanVars
  BY ScanStepGood DEF GoodScanStep, InOrder
<1>2. QED
  BY <1>1, ScanInvariant, PTL DEF ScanSpec, ReadsInOrder

=============================================================================
