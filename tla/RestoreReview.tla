----------------------------- MODULE RestoreReview -----------------------------
(***************************************************************************)
(* The review of one operation that a restore has put in quarantine.  The  *)
(* user asks what Notion holds of it; the answer is an observation and     *)
(* never lets the operation be sent.  Several processes may read at the    *)
(* same time, people work in Notion, the old send may still land, and a    *)
(* backup of another installation may bring a review of its own.           *)
(***************************************************************************)
EXTENDS Naturals

CONSTANTS
    Auditor,            \* processes that read
    MaxTime,            \* bound: ticks of the clock
    MaxReplacements,    \* bound: restores
    MaxPageChanges      \* bound: changes of the page in Notion

ASSUME ReviewAssumption == {MaxTime, MaxReplacements, MaxPageChanges} \subseteq Nat

VARIABLES
    clock,      \* the time
    fence,      \* the dataset and the row of the connection
    review,     \* the latest review of the operation
    audit,      \* Auditor -> the read under way
    page,       \* Notion: what it holds of the operation
    moves,      \* counts the changes of the page
    newest,     \* history variable: the time of the newest review on record
    past        \* history variable: <<time, page>>

reviewVars == <<clock, fence, review, audit, page, moves, newest, past>>

\* The page is absent, as the operation wanted it, or else: different or in
\* the trash.
Pages == {"absent", "desired", "other"}

\* Several pages, an identity that does not match and an answer that is
\* incomplete or no answer say nothing of the page.
Outcomes == Pages \cup {"unclear"}

NoReview == [at |-> 0, outcome |-> "none"]
NoAudit == [phase |-> "idle"]

ReviewInit ==
    /\ clock = 1 /\ fence = [dataset |-> 0, paused |-> TRUE, at |-> 1]
    /\ review = NoReview /\ newest = 0
    /\ audit = [p \in Auditor |-> NoAudit]
    /\ page \in Pages /\ moves = 0 /\ past = {<<1, page>>}

(***************************************************************************)
(* One audit: the row, the fence and the time, then the request, then one  *)
(* transaction.                                                            *)
(***************************************************************************)

\* The time is taken before the request.
BeginAudit(p) ==
    /\ audit[p] = NoAudit /\ fence.paused
    /\ audit' = [audit EXCEPT ![p] =
         [phase |-> "reading", review |-> review, fence |-> fence, at |-> clock]]
    /\ UNCHANGED <<clock, fence, review, page, moves, newest, past>>

\* A search by the key may miss the page, and a known page may be out of reach.
MayObserve(outcome) == outcome \in {page, "absent", "unclear"}

Observe(p) ==
    /\ audit[p].phase = "reading"
    /\ \E outcome \in Outcomes :
         /\ MayObserve(outcome)
         /\ audit' = [audit EXCEPT ![p] =
              [phase |-> "observed", review |-> @.review, fence |-> @.fence,
               new |-> [at |-> @.at, outcome |-> outcome]]]
    /\ UNCHANGED <<clock, fence, review, page, moves, newest, past>>

\* The dataset, the fence and the row are those of the beginning, and no newer
\* review is on record.
MayRecord(p) ==
    /\ fence = audit[p].fence
    /\ review = audit[p].review
    /\ review.at <= audit[p].new.at

Larger(a, b) == IF a > b THEN a ELSE b

RecordReview(p) ==
    /\ audit[p].phase = "observed"
    /\ IF MayRecord(p)
       THEN review' = audit[p].new /\ newest' = Larger(newest, audit[p].new.at)
       ELSE UNCHANGED <<review, newest>>
    /\ audit' = [audit EXCEPT ![p] = NoAudit]
    /\ UNCHANGED <<clock, fence, page, moves, past>>

\* The process ends.
LoseAudit(p) ==
    /\ audit[p] # NoAudit /\ audit' = [audit EXCEPT ![p] = NoAudit]
    /\ UNCHANGED <<clock, fence, review, page, moves, newest, past>>

(***************************************************************************)
(* Backups.                                                                *)
(***************************************************************************)

\* The reviews a backup may bring: none, an earlier one of this installation, or
\* one of another installation that restored the same operation.
Backups == {NoReview} \cup {[at |-> seen[1], outcome |-> seen[2]] : seen \in past}

\* The fence of a restore is committed before the data is replaced.
PauseForRestore ==
    /\ fence' = [fence EXCEPT !.paused = TRUE, !.at = clock]
    /\ fence' # fence
    /\ UNCHANGED <<clock, review, audit, page, moves, newest, past>>

\* Bug: what the backup says replaces what is known.
NewerImported(mine, theirs) == IF theirs = NoReview THEN mine ELSE theirs

\* The row outlives the replacement, with the newer review of both.
Newer(mine, theirs) == IF theirs.at > mine.at THEN theirs ELSE mine

ReplaceData ==
    /\ fence.paused /\ fence.dataset < MaxReplacements
    /\ fence' = [dataset |-> fence.dataset + 1, paused |-> TRUE, at |-> clock]
    /\ \E theirs \in Backups :
         /\ review' = Newer(review, theirs)
         /\ newest' = Larger(newest, theirs.at)
    /\ UNCHANGED <<clock, audit, page, moves, past>>

\* A disconnect takes the connection out of the fence.
LeaveFence ==
    /\ fence.paused /\ fence' = [fence EXCEPT !.paused = FALSE, !.at = clock]
    /\ UNCHANGED <<clock, review, audit, page, moves, newest, past>>

(***************************************************************************)
(* Notion and time.                                                        *)
(***************************************************************************)

MovePage ==
    /\ moves < MaxPageChanges /\ moves' = moves + 1
    /\ page' \in Pages \ {page}
    /\ past' = past \cup {<<clock, page'>>}
    /\ UNCHANGED <<clock, fence, review, audit, newest>>

TimePasses ==
    /\ clock < MaxTime /\ clock' = clock + 1
    /\ past' = past \cup {<<clock', page>>}
    /\ UNCHANGED <<fence, review, audit, page, moves, newest>>

AuditStep(p) == BeginAudit(p) \/ Observe(p) \/ RecordReview(p) \/ LoseAudit(p)

ReviewNext ==
    \/ \E p \in Auditor : AuditStep(p)
    \/ PauseForRestore \/ ReplaceData \/ LeaveFence
    \/ MovePage \/ TimePasses

ReviewSpec == ReviewInit /\ [][ReviewNext]_reviewVars

(***************************************************************************)
(* Properties.                                                             *)
(***************************************************************************)

(* The review on record is the newest that was ever recorded or imported,  *)
(* whichever answers are slow and whichever backups are restored, and the  *)
(* page it tells of was there at its time or later.                        *)
LatestReview ==
    /\ review.at = newest
    /\ review.outcome \in Pages \ {"absent"} => \E t \in review.at..clock : <<t, review.outcome>> \in past

=============================================================================
