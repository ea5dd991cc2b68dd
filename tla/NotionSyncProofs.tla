---------------------------- MODULE NotionSyncProofs ----------------------------
(***************************************************************************)
(* The whole write path, for every number of tasks, processes, pages,      *)
(* operations, replacements and edits in Notion, with crashes, restarts    *)
(* and requests that arrive late or never.  Its steps are transactions of  *)
(* the store, so that what NotionOutboxProofs shows of any caller holds    *)
(* here; and it sends no operation twice, sends late only what is still    *)
(* under way or in quarantine, creates at most one page of a task, keeps   *)
(* the promise of NotionIntent and records as shared only what the page    *)
(* says.  Of one process at a time, nothing is sent past a fence, intents  *)
(* that wait stay claimable and undo reverts the last change only.         *)
(***************************************************************************)
EXTENDS NotionSync, NotionOutboxProofs, FiniteSetTheorems, WellFoundedInduction

----------------------------------------------------------------------------
(* A set of numbers has a least one, which is what Next1 chooses.          *)
LEMMA LeastExists ==
  ASSUME NEW T \in SUBSET Nat, T # {}
  PROVE  \E x \in T : \A y \in T : x <= y
<1> DEFINE R == OpToRel(<, Nat)
<1>1. IsWellFoundedOn(R, Nat)
  BY NatLessThanWellFounded, Zenon
<1>2. \A x, y \in Nat : y < x => <<y, x>> \in R
  BY DEF OpToRel
<1> HIDE DEF R
<1>3. PICK x \in T : \A y \in T : ~ (<<y, x>> \in R)
  BY <1>1, WFMin
<1>4. ASSUME NEW y \in T
      PROVE  x <= y
  <2>1. x \in Nat /\ y \in Nat
    OBVIOUS
  <2>2. ~ (y < x)
    BY <1>2, <1>3, <2>1
  <2>3. QED
    BY <2>1, <2>2
<1>5. QED
  BY <1>4

----------------------------------------------------------------------------
(* Types of what the processes hold in memory and of what Notion holds.    *)

Loops == [pc : {"next"}, queue : SUBSET OpId]

JobState == {Idle} \cup Loops \cup Job

Receipt == [task : Task, fields : TaskFields, wrote : TaskFields]

Request == [op     : OpId,
            task   : Task,
            copy   : Copy \cup {NoCopy},
            fields : TaskFields,
            only   : SUBSET Field]

(* The page and the fields that a merge and a confirmation use were read.  *)
ReadFirst(j) ==
  /\ j.pc \in {"merge", "confirm"} => j.copy \in Copy /\ j.seen \in TaskFields
  /\ j.pc = "supersede" /\ j.copy # NoCopy => j.seen \in TaskFields

SyncTyped ==
  /\ job \in [Sender -> JobState]
  /\ \A s \in Sender : job[s] \in Job => ReadFirst(job[s])
  /\ undo \in [Sender -> SUBSET Receipt]
  /\ wire \in SUBSET Request
  /\ issued \in [OpId -> Nat]

(* Where an attempt waits before its request leaves. *)
Unsent == {"preflight", "supersede", "merge", "gate", "send", "defer", "pause"}

LEMMA JobIsDispatch ==
  ASSUME NEW j \in JobState, j.pc \in Place
  PROVE  j \in Job
  BY DEF JobState, Idle, Loops, Place

(* A dispatch that goes somewhere else keeps everything but its place. *)
LEMMA PlaceMoved ==
  ASSUME NEW j \in Job, NEW pc \in Place
  PROVE  /\ [j EXCEPT !.pc = pc] \in Job
         /\ [j EXCEPT !.pc = pc].pc = pc
         /\ [j EXCEPT !.pc = pc].op = j.op /\ [j EXCEPT !.pc = pc].task = j.task
         /\ [j EXCEPT !.pc = pc].copy = j.copy /\ [j EXCEPT !.pc = pc].seen = j.seen
         /\ [j EXCEPT !.pc = pc].desired = j.desired
         /\ [j EXCEPT !.pc = pc].baseline = j.baseline
         /\ [j EXCEPT !.pc = pc].passed = j.passed
  BY DEF Job

----------------------------------------------------------------------------
(* What a step of a process can be, with the places of the dispatcher that  *)
(* make no difference to the store put together.                           *)

(* The attempt gave way or waits again. *)
Returns(o) ==
  \/ SupersedeUnsent(o)
  \/ \E retryAfter \in BOOLEAN : PauseUnsent(o, retryAfter)
  \/ DeferUnsent(o)

(* The same attempt somewhere else: a page it knows now was read, and it   *)
(* never comes back before its request.                                    *)
SameAttempt(s, j) ==
  /\ job[s] \in Job /\ j \in Job
  /\ j.op = job[s].op /\ j.task = job[s].task
  /\ j.pc \in Unsent => job[s].pc \in Unsent /\ j.copy = job[s].copy
  /\ j.copy = job[s].copy \/ j.copy \in Provider!Pages(job[s].task)

(* The attempt, or the drain, is over. *)
Ended(s, j) ==
  /\ j \in {Idle} \cup Loops
  /\ UNCHANGED notionVars
  /\ \/ UNCHANGED storeVars
     \/ RecoverOrphans
     \/ /\ job[s] \in Job
        /\ \/ job[s].pc \in Unsent /\ Returns(job[s].op)
           \/ MarkUnknown(job[s].op)
           \/ job[s].pc = "confirm" /\ Confirm(job[s].op, job[s].copy, job[s].seen)

Claimed(s, j) ==
  /\ UNCHANGED notionVars
  /\ \E o \in OpId, queue \in SUBSET OpId :
       MarkSending(o, s) /\ j = Dispatching("preflight", queue, o)

(* What it wants and where it starts from are as before. *)
SameValues(s, j) ==
  /\ j.desired = job[s].desired /\ j.baseline = job[s].baseline
  /\ j.passed = job[s].passed

(* It goes on with a page it read. *)
ReadOn(s, j) ==
  \E copy \in Copy :
    /\ ReadsPage(s, copy, j.seen)
    /\ \/ j.pc = "confirm" /\ j.copy = copy /\ j.seen = j.desired
       \/ /\ job[s].pc = "preflight" /\ j.pc = "supersede"
          /\ j.copy = job[s].copy /\ j.seen # j.desired

(* It goes on without one: no page is known before the gate, the page read *)
(* differs from the baseline before the merge, or the last check passed.   *)
MovedOn(s, j) ==
  /\ j.copy = job[s].copy /\ j.seen = job[s].seen
  /\ j.pc \notin {"preflight", "confirm"}
  /\ j.pc = "supersede" => job[s].pc = "preflight" /\ j.copy = NoCopy
  /\ j.pc \in {"gate", "merge"} => job[s].pc = "supersede"
  /\ j.pc = "send" => job[s].pc = "gate" /\ CanDispatch(j.op)
  /\ j.pc = "merge" => /\ j.copy # NoCopy /\ j.seen # j.baseline
                       /\ Sending(s) => NewerIgnored(j.op)

Further(s, j) == SameValues(s, j) /\ (ReadOn(s, j) \/ MovedOn(s, j))

WentOn(s, j) ==
  /\ SameAttempt(s, j) /\ Further(s, j)
  /\ UNCHANGED <<storeVars, notionVars>>

TookMerge(s, j) ==
  /\ j.desired = Merged(job[s].baseline, job[s].desired, job[s].seen)
  /\ j.baseline = job[s].seen
  /\ j.pc \in {"confirm", "gate"}

MergedInto(s, j) ==
  /\ SameAttempt(s, j) /\ TookMerge(s, j) /\ job[s].pc = "merge"
  /\ MergePreflight(job[s].op, job[s].seen)
  /\ UNCHANGED notionVars

(* What the request asks for. *)
AsksFor(s, r) ==
  /\ r.fields = job[s].desired
  /\ r.only = {f \in Field : \/ job[s].copy = NoCopy
                              \/ job[s].desired[f] # job[s].seen[f]}

SentBy(s, j) ==
  /\ SameAttempt(s, j) /\ SameValues(s, j)
  /\ job[s].pc = "send" /\ j.pc = "readBack"
  /\ \E r \in Request :
       /\ r.op = job[s].op /\ r.task = job[s].task /\ r.copy = job[s].copy
       /\ AsksFor(s, r)
       /\ Provider!Issue(r)
  /\ UNCHANGED storeVars

Dispatched(s, j) ==
  /\ job' = [job EXCEPT ![s] = j]
  /\ j \in Job => ReadFirst(j)
  /\ \/ Ended(s, j) \/ Claimed(s, j)
     \/ WentOn(s, j) \/ MergedInto(s, j) \/ SentBy(s, j)

(* The intent a drain claims next is one of its queue. *)
LEMMA NextInQueue ==
  ASSUME NEW s \in Sender, job[s] \in JobState, job[s].pc = "next", job[s].queue # {}
  PROVE  Next1(s) \in OpId /\ job[s].queue \in SUBSET OpId
<1>1. job[s] \in Loops
  BY DEF JobState, Idle, Job, Place
<1>2. job[s].queue \in SUBSET OpId
  BY <1>1 DEF Loops
<1>3. job[s].queue \in SUBSET Nat
  BY <1>2 DEF OpId
<1>4. \E o \in job[s].queue : \A p \in job[s].queue : o <= p
  BY <1>3, LeastExists
<1>5. Next1(s) \in job[s].queue
  BY <1>4 DEF Next1
<1>6. QED
  BY <1>2, <1>5

LEMMA ClaimedJob ==
  ASSUME StoreTypeOK, NEW pc \in Place, NEW queue \in SUBSET OpId, NEW o \in OpId,
         outbox[o].status \in OpStatus
  PROVE  /\ Dispatching(pc, queue, o) \in Job
         /\ Dispatching(pc, queue, o).pc = pc
         /\ Dispatching(pc, queue, o).op = o
         /\ Dispatching(pc, queue, o).task = outbox[o].task
         /\ Dispatching(pc, queue, o).copy = mapping[outbox[o].task].copy
<1>1. outbox[o] \in Operation
  BY RowIsOperation DEF StoreTypeOK
<1>2. /\ outbox[o].task \in Task /\ outbox[o].desired \in TaskFields
      /\ outbox[o].baseline \in TaskFields \cup {NoFields}
  BY <1>1 DEF Operation
<1>3. mapping[outbox[o].task].copy \in Copy \cup {NoCopy}
  BY <1>2 DEF StoreTypeOK, Mapping
<1>4. QED
  BY <1>2, <1>3 DEF Dispatching, Job

LEMMA DrainCases ==
  ASSUME StoreTypeOK, SyncTyped, NEW s \in Sender, Drain(s)
  PROVE  \E j \in JobState : Dispatched(s, j)
<1> USE DEF JobState
<1>1. CASE StartDrain(s)
  <2> DEFINE j == Loop(InStatus({"pending"}))
  <2>1. j \in Loops /\ j \notin Job
    BY DEF Loop, Loops, InStatus, Job, Place
  <2>2. Dispatched(s, j)
    BY <1>1, <2>1 DEF StartDrain, Dispatched, Ended
  <2>3. QED
    BY <2>1, <2>2
<1>2. CASE FinishDrain(s)
  <2>1. Idle \notin Job
    BY DEF Idle, Job, Place
  <2>2. Dispatched(s, Idle)
    BY <1>2, <2>1 DEF FinishDrain, EndDrain, Dispatched, Ended
  <2>3. QED
    BY <2>2
<1>3. CASE Claim(s)
  <2> DEFINE o == Next1(s)
             queue == job[s].queue \ {o}
             j == Dispatching("preflight", queue, o)
  <2>1. o \in OpId /\ queue \in SUBSET OpId
    BY <1>3, NextInQueue DEF Claim, SyncTyped
  <2>2. MarkSending(o, s) /\ job' = [job EXCEPT ![s] = j] /\ UNCHANGED notionVars
    BY <1>3 DEF Claim
  <2>3. outbox[o].status \in OpStatus
    BY <2>2 DEF MarkSending, Claimable, OpStatus
  <2>4. j \in Job /\ j.pc = "preflight"
    BY <2>1, <2>3, ClaimedJob DEF Place
  <2> HIDE DEF o, queue
  <2>5. Dispatched(s, j)
    BY <2>1, <2>2, <2>4 DEF Dispatched, Claimed, ReadFirst
  <2>6. QED
    BY <2>4, <2>5
<1>4. CASE ClaimRefused(s)
  <2>1. Idle \notin Job
    BY DEF Idle, Job, Place
  <2>2. Dispatched(s, Idle)
    BY <1>4, <2>1 DEF ClaimRefused, EndDrain, Dispatched, Ended
  <2>3. QED
    BY <2>2
<1>5. QED
  BY <1>1, <1>2, <1>3, <1>4 DEF Drain

(* A dispatch that ends: the rest of the queue, or nothing, is left. *)
LEMMA EndsTyped ==
  ASSUME SyncTyped, NEW s \in Sender, job[s].pc \in Place
  PROVE  /\ job[s] \in Job
         /\ Idle \notin Job /\ Idle \in JobState
         /\ Loop(job[s].queue) \in Loops /\ Loop(job[s].queue) \notin Job
         /\ Loop(job[s].queue) \in JobState
<1>1. job[s] \in Job
  BY JobIsDispatch DEF SyncTyped
<1>2. job[s].queue \in SUBSET OpId
  BY <1>1 DEF Job
<1>3. QED
  BY <1>1, <1>2 DEF Idle, Loop, Loops, Job, Place, JobState

(* Going to another place, to which the fields read before suffice.  *)
LEMMA GotoCase ==
  ASSUME SyncTyped, NEW s \in Sender, job[s].pc \in Place, NEW pc \in Place,
         pc \in Unsent => job[s].pc \in Unsent,
         pc \notin {"preflight", "confirm"},
         pc = "supersede" => job[s].pc = "preflight" /\ job[s].copy = NoCopy,
         pc \in {"gate", "merge"} => job[s].pc = "supersede",
         pc = "send" => job[s].pc = "gate" /\ CanDispatch(job[s].op),
         pc = "merge" =>
           /\ job[s].copy \in Copy /\ job[s].seen \in TaskFields
           /\ job[s].seen # job[s].baseline
           /\ Sending(s) => NewerIgnored(job[s].op),
         Goto(s, pc), UNCHANGED <<storeVars, notionVars>>
  PROVE  \E j \in JobState : Dispatched(s, j)
<1> DEFINE j == [job[s] EXCEPT !.pc = pc]
<1>1. job[s] \in Job
  BY EndsTyped
<1>2. /\ j \in Job /\ j.pc = pc /\ j.op = job[s].op /\ j.task = job[s].task
      /\ j.copy = job[s].copy /\ j.seen = job[s].seen
      /\ SameValues(s, j)
  BY <1>1, PlaceMoved DEF SameValues
<1>3. job' = [job EXCEPT ![s] = j]
  BY DEF Goto
<1> HIDE DEF j
<1>4. ReadFirst(j)
  BY <1>2 DEF ReadFirst
<1>5. MovedOn(s, j)
  BY <1>2, NoCopyAssumption DEF MovedOn, SameValues
<1>6. Dispatched(s, j)
  BY <1>1, <1>2, <1>3, <1>4, <1>5 DEF Dispatched, WentOn, Further, SameAttempt
<1>7. QED
  BY <1>2, <1>6 DEF JobState

LEMMA ReadCases ==
  ASSUME StoreTypeOK, SyncTyped, NEW s \in Sender, Read(s)
  PROVE  \E j \in JobState : Dispatched(s, j)
<1>1. job[s].pc \in {"preflight", "readBack"}
  BY DEF Read, PreflightFails, PreflightUncertain, PreflightAbsent, PreflightPage,
         ReadBackPage, ReadBackFails
<1>2. job[s].pc \in Place /\ job[s] \in Job
  BY <1>1, JobIsDispatch DEF Place, SyncTyped
<1>3. CASE PreflightFails(s)
  BY <1>2, <1>3, GotoCase DEF PreflightFails, Unsent, Place
<1>4. CASE PreflightUncertain(s)
  BY <1>2, <1>4, GotoCase DEF PreflightUncertain, Unsent, Place
<1>5. CASE PreflightAbsent(s)
  BY <1>2, <1>5, GotoCase DEF PreflightAbsent, Unsent, Place
<1>6. CASE PreflightPage(s)
  <2>1. PICK copy \in Copy, fields \in TaskFields :
          /\ ReadsPage(s, copy, fields)
          /\ job' = [job EXCEPT
               ![s].seen = fields,
               ![s].copy = IF fields = job[s].desired THEN copy ELSE @,
               ![s].pc = IF fields = job[s].desired THEN "confirm" ELSE "supersede"]
    BY <1>6 DEF PreflightPage
  <2> DEFINE page == IF fields = job[s].desired THEN copy ELSE job[s].copy
             pc == IF fields = job[s].desired THEN "confirm" ELSE "supersede"
             j == [job[s] EXCEPT !.seen = fields, !.copy = page, !.pc = pc]
  <2>2. job' = [job EXCEPT ![s] = j]
    BY <1>2, <2>1 DEF SyncTyped, Job
  <2>3. page \in Copy \cup {NoCopy} /\ pc \in Place
    BY <1>2 DEF Job, Place
  <2>4. /\ j \in Job /\ j.seen = fields /\ j.copy = page /\ j.pc = pc
        /\ j.op = job[s].op /\ j.task = job[s].task
        /\ SameValues(s, j)
    BY <1>2, <2>3 DEF Job, SameValues
  <2> HIDE DEF j
  <2>5. ReadFirst(j)
    BY <2>4 DEF ReadFirst
  <2>6. SameAttempt(s, j)
    BY <1>1, <1>2, <1>6, <2>1, <2>4 DEF SameAttempt, ReadsPage, Unsent, PreflightPage
  <2>7. ReadOn(s, j)
    BY <1>6, <2>1, <2>4 DEF ReadOn, SameValues, PreflightPage
  <2>8. Dispatched(s, j)
    BY <1>6, <2>2, <2>4, <2>5, <2>6, <2>7 DEF Dispatched, WentOn, Further, PreflightPage
  <2>9. QED
    BY <2>4, <2>8 DEF JobState
<1>7. CASE ReadBackPage(s)
  <2>1. PICK copy \in Copy :
          /\ ReadsPage(s, copy, job[s].desired)
          /\ job' = [job EXCEPT ![s].pc = "confirm", ![s].copy = copy,
                                ![s].seen = job[s].desired]
    BY <1>7 DEF ReadBackPage
  <2> DEFINE j == [job[s] EXCEPT !.pc = "confirm", !.copy = copy,
                                 !.seen = job[s].desired]
  <2>2. job' = [job EXCEPT ![s] = j]
    BY <1>2, <2>1 DEF SyncTyped, Job
  <2>3. job[s].desired \in TaskFields
    BY <1>2 DEF Job
  <2>4. /\ j \in Job /\ j.seen = job[s].desired /\ j.copy = copy /\ j.pc = "confirm"
        /\ j.op = job[s].op /\ j.task = job[s].task
        /\ SameValues(s, j)
    BY <1>2 DEF Job, Place, SameValues
  <2> HIDE DEF j
  <2>5. ReadFirst(j)
    BY <2>3, <2>4 DEF ReadFirst
  <2>6. SameAttempt(s, j)
    BY <1>2, <2>1, <2>4 DEF SameAttempt, ReadsPage, Unsent
  <2>7. ReadOn(s, j)
    BY <2>1, <2>4 DEF ReadOn, SameValues
  <2>8. Dispatched(s, j)
    BY <1>7, <2>2, <2>4, <2>5, <2>6, <2>7 DEF Dispatched, WentOn, Further, ReadBackPage
  <2>9. QED
    BY <2>4, <2>8 DEF JobState
<1>8. CASE ReadBackFails(s)
  BY <1>2, <1>8, GotoCase DEF ReadBackFails, Unsent, Place
<1>9. QED
  BY <1>3, <1>4, <1>5, <1>6, <1>7, <1>8 DEF Read

LEMMA DecideCases ==
  ASSUME StoreTypeOK, SyncTyped, NEW s \in Sender, Decide(s)
  PROVE  \E j \in JobState : Dispatched(s, j)
<1> DEFINE o == job[s].op
<1>1. job[s].pc \in {"supersede", "merge", "gate", "send"}
  BY DEF Decide, Supersede, SupersedeFails, NotSuperseded, Merge, MergeSuperseded,
         MergeFails, MaySend, Send, SendSetupFails, SendFenced
<1>2. job[s].pc \in Place /\ job[s].pc \in Unsent /\ job[s] \in Job
  BY <1>1, JobIsDispatch DEF Place, Unsent, SyncTyped
<1>3. ReadFirst(job[s])
  BY <1>2 DEF SyncTyped
<1>4. CASE Supersede(s) \/ MergeSuperseded(s)
  <2>1. SupersedeUnsent(o) /\ Continue(s) /\ UNCHANGED notionVars
    BY <1>4 DEF Supersede, MergeSuperseded
  <2>2. Dispatched(s, Loop(job[s].queue))
    BY <1>2, <2>1, EndsTyped DEF Dispatched, Ended, Returns, Continue
  <2>3. QED
    BY <1>2, <2>2, EndsTyped
<1>5. CASE SupersedeFails(s)
  BY <1>2, <1>5, GotoCase DEF SupersedeFails, Unsent, Place
<1>6. CASE NotSuperseded(s)
  <2>1. AfterSupersede(s) \in {"gate", "giveUp", "merge"}
    BY DEF AfterSupersede
  <2>2. ASSUME AfterSupersede(s) = "merge"
        PROVE  /\ job[s].copy \in Copy /\ job[s].seen \in TaskFields
               /\ job[s].seen # job[s].baseline
    BY <1>2, <1>3, <1>6, <2>2 DEF AfterSupersede, NotSuperseded, ReadFirst, Job
  <2>3. /\ Goto(s, AfterSupersede(s)) /\ UNCHANGED <<storeVars, notionVars>>
        /\ job[s].pc = "supersede" /\ (Sending(s) => NewerIgnored(job[s].op))
    BY <1>6 DEF NotSuperseded
  <2>4. QED
    BY <1>2, <2>1, <2>2, <2>3, GotoCase DEF Unsent, Place
<1>7. CASE Merge(s)
  <2> DEFINE merged == Merged(job[s].baseline, job[s].desired, job[s].seen)
             pc == IF job[s].seen = merged THEN "confirm" ELSE "gate"
             j == [job[s] EXCEPT !.desired = merged, !.baseline = job[s].seen, !.pc = pc]
  <2>1. job' = [job EXCEPT ![s] = j] /\ job[s].pc = "merge"
    BY <1>2, <1>7 DEF Merge, SyncTyped, Job
  <2>2. job[s].copy \in Copy /\ job[s].seen \in TaskFields
    BY <1>3, <2>1 DEF ReadFirst
  <2>3. merged \in TaskFields
    BY <1>2, <2>2, MergedFields DEF Job
  <2>4. pc \in Place /\ pc \in {"confirm", "gate"}
    BY DEF Place
  <2> HIDE DEF pc
  <2>5. /\ j \in Job /\ j.pc = pc /\ j.op = job[s].op /\ j.task = job[s].task
        /\ j.copy = job[s].copy /\ j.seen = job[s].seen
        /\ j.desired = merged /\ j.baseline = job[s].seen
    BY <1>2, <2>2, <2>3, <2>4 DEF Job
  <2> HIDE DEF j
  <2>6. SameAttempt(s, j) /\ ReadFirst(j) /\ TookMerge(s, j)
    BY <1>2, <2>2, <2>4, <2>5 DEF SameAttempt, ReadFirst, TookMerge
  <2>7. Dispatched(s, j)
    BY <1>7, <2>1, <2>6 DEF Dispatched, MergedInto, Merge
  <2>8. QED
    BY <2>5, <2>7 DEF JobState
<1>8. CASE MergeFails(s)
  BY <1>2, <1>8, GotoCase DEF MergeFails, Unsent, Place
<1>9. CASE Send(s)
  <2> DEFINE r == [op |-> job[s].op, task |-> job[s].task, copy |-> job[s].copy,
                   fields |-> job[s].desired,
                   only |-> {f \in Field : \/ job[s].copy = NoCopy
                                           \/ job[s].desired[f] # job[s].seen[f]}]
             j == [job[s] EXCEPT !.pc = "readBack"]
  <2>1. /\ r \in Request /\ r.op = job[s].op /\ r.task = job[s].task /\ r.copy = job[s].copy
        /\ AsksFor(s, r)
    BY <1>2 DEF Job, Request, AsksFor
  <2>2. Provider!Issue(r) /\ job' = [job EXCEPT ![s] = j] /\ job[s].pc = "send"
    BY <1>9 DEF Send, Goto
  <2>3. /\ j \in Job /\ j.pc = "readBack" /\ j.op = job[s].op /\ j.task = job[s].task
        /\ j.copy = job[s].copy /\ SameValues(s, j)
    BY <1>2, PlaceMoved DEF Place, SameValues
  <2> HIDE DEF r, j
  <2>4. SameAttempt(s, j) /\ ReadFirst(j)
    BY <1>2, <2>3 DEF SameAttempt, ReadFirst, Unsent
  <2>5. SentBy(s, j)
    BY <1>9, <2>1, <2>2, <2>3, <2>4 DEF SentBy, Send
  <2>6. Dispatched(s, j)
    BY <2>2, <2>4, <2>5 DEF Dispatched
  <2>7. QED
    BY <2>3, <2>6 DEF JobState
<1>10. CASE SendSetupFails(s)
  BY <1>2, <1>10, GotoCase DEF SendSetupFails, Unsent, Place
<1>11. CASE SendFenced(s)
  BY <1>2, <1>11, GotoCase DEF SendFenced, Unsent, Place
<1>12. CASE MaySend(s)
  BY <1>2, <1>12, GotoCase DEF MaySend, Unsent, Place
<1>13. QED
  BY <1>4, <1>5, <1>6, <1>7, <1>8, <1>9, <1>10, <1>11, <1>12 DEF Decide

LEMMA FinishCases ==
  ASSUME StoreTypeOK, SyncTyped, NEW s \in Sender, Finish(s)
  PROVE  \E j \in JobState : Dispatched(s, j)
<1>1. job[s].pc \in {"defer", "pause", "giveUp", "confirm"}
  BY DEF Finish, Defer, DeferFails, NotDeferred, PauseBeforeWrite, PauseFails,
         PauseRefused, GiveUp, ConfirmReadBack, ConfirmRefused
<1>2. job[s].pc \in Place /\ job[s] \in Job
  BY <1>1, JobIsDispatch DEF Place, SyncTyped
<1>3. CASE Defer(s) \/ PauseBeforeWrite(s)
  <2>1. Returns(job[s].op) /\ EndDrain(s) /\ UNCHANGED notionVars /\ job[s].pc \in Unsent
    BY <1>3 DEF Defer, PauseBeforeWrite, Returns, Unsent
  <2>2. Dispatched(s, Idle)
    BY <1>2, <2>1, EndsTyped DEF Dispatched, Ended, EndDrain
  <2>3. QED
    BY <1>2, <2>2, EndsTyped
<1>4. CASE DeferFails(s) \/ PauseRefused(s) \/ ConfirmRefused(s)
  <2>1. EndDrain(s) /\ UNCHANGED <<storeVars, notionVars>>
    BY <1>4 DEF DeferFails, PauseRefused, ConfirmRefused
  <2>2. Dispatched(s, Idle)
    BY <1>2, <2>1, EndsTyped DEF Dispatched, Ended, EndDrain
  <2>3. QED
    BY <1>2, <2>2, EndsTyped
<1>5. CASE NotDeferred(s)
  BY <1>2, <1>5, GotoCase DEF NotDeferred, Unsent, Place
<1>6. CASE PauseFails(s)
  BY <1>2, <1>6, GotoCase DEF PauseFails, Unsent, Place
<1>7. CASE GiveUp(s)
  <2>1. /\ MarkUnknown(job[s].op) \/ UNCHANGED storeVars
        /\ EndDrain(s) /\ UNCHANGED notionVars
    BY <1>7 DEF GiveUp
  <2>2. Dispatched(s, Idle)
    BY <1>2, <2>1, EndsTyped DEF Dispatched, Ended, EndDrain
  <2>3. QED
    BY <1>2, <2>2, EndsTyped
<1>8. CASE ConfirmReadBack(s)
  <2>1. /\ job[s].pc = "confirm" /\ Confirm(job[s].op, job[s].copy, job[s].seen)
        /\ Continue(s) /\ UNCHANGED notionVars
    BY <1>8 DEF ConfirmReadBack
  <2>2. Dispatched(s, Loop(job[s].queue))
    BY <1>2, <2>1, EndsTyped DEF Dispatched, Ended, Continue
  <2>3. QED
    BY <1>2, <2>2, EndsTyped
<1>9. QED
  BY <1>3, <1>4, <1>5, <1>6, <1>7, <1>8 DEF Finish

LEMMA DispatchCases ==
  ASSUME StoreTypeOK, SyncTyped, NEW s \in Sender, Dispatch(s)
  PROVE  \E j \in JobState : Dispatched(s, j)
  BY DrainCases, ReadCases, DecideCases, FinishCases DEF Dispatch

----------------------------------------------------------------------------
(* Steps that no dispatcher takes: commands, requests on the connection,   *)
(* restores, starts and stops.  None of their transactions claims or       *)
(* returns an attempt.                                                     *)
Aside ==
  \/ UNCHANGED storeVars
  \/ \E t \in Task, new \in TaskFields : LocalWrite(t, new)
  \/ RecoverOrphans
  \/ Fence
  \/ \E s \in Sender : Instance(s)

(* With the transactions of an attempt that leave its row where it is, or   *)
(* beyond any return.                                                      *)
Neutral ==
  \/ Aside
  \/ \E o \in OpId :
       \/ \E fields \in TaskFields : MergePreflight(o, fields)
       \/ MarkUnknown(o)
       \/ \E copy \in Copy, fields \in TaskFields : Confirm(o, copy, fields)

Reconciled(s, j) ==
  /\ UNCHANGED storeVars
  /\ \E o \in OpId : outbox[o].status = "unknown" /\ j = Dispatching("readBack", {}, o)

(* A command was let through before the merge. *)
LetPass(s, j) ==
  /\ SameAttempt(s, j) /\ job[s].pc = "merge"
  /\ j = [job[s] EXCEPT !.passed = TRUE]

Replaced(s, j) ==
  /\ job' = [job EXCEPT ![s] = j]
  /\ j \in Job => ReadFirst(j)
  /\ j = Idle \/ LetPass(s, j) \/ Reconciled(s, j)

OtherStep ==
  /\ UNCHANGED notionVars
  /\ Aside
  /\ UNCHANGED job \/ \E s \in Sender, j \in JobState : Replaced(s, j)

(* A command may slip in before the merge of its process. *)
LEMMA TurnCases ==
  ASSUME SyncTyped, NEW s \in Sender, PlannerTurn(s)
  PROVE  UNCHANGED job \/ \E j \in JobState : Replaced(s, j)
<1>1. CASE job[s].pc = "merge"
  <2> DEFINE j == [job[s] EXCEPT !.passed = TRUE]
  <2>1. job[s] \in Job
    BY <1>1, JobIsDispatch DEF Place, SyncTyped
  <2>2. job' = [job EXCEPT ![s] = j]
    BY <1>1 DEF PlannerTurn
  <2>3. /\ j \in Job /\ j.pc = job[s].pc /\ j.op = job[s].op /\ j.task = job[s].task
        /\ j.copy = job[s].copy /\ j.seen = job[s].seen
    BY <2>1 DEF Job
  <2>4. LetPass(s, j)
    BY <1>1, <2>1, <2>3 DEF LetPass, SameAttempt
  <2> HIDE DEF j
  <2>5. ReadFirst(j)
    BY <2>1, <2>3 DEF SyncTyped, ReadFirst
  <2>6. Replaced(s, j)
    BY <2>2, <2>4, <2>5 DEF Replaced
  <2>7. QED
    BY <2>3, <2>6 DEF JobState
<1>2. CASE job[s].pc # "merge"
  BY <1>2 DEF PlannerTurn
<1>3. QED
  BY <1>1, <1>2

LEMMA ReconcileCase ==
  ASSUME StoreTypeOK, SyncTyped, NEW s \in Sender, NEW o \in OpId, Reconcile(s, o)
  PROVE  OtherStep
<1> DEFINE j == Dispatching("readBack", {}, o)
<1>1. /\ outbox[o].status = "unknown" /\ job' = [job EXCEPT ![s] = j]
      /\ UNCHANGED storeVars /\ UNCHANGED notionVars
  BY DEF Reconcile
<1>2. j \in Job /\ j.pc = "readBack"
  BY <1>1, ClaimedJob DEF OpStatus, Place
<1> HIDE DEF j
<1>3. Reconciled(s, j)
  BY <1>1 DEF Reconciled, j
<1>4. Replaced(s, j)
  BY <1>1, <1>2, <1>3 DEF Replaced, ReadFirst
<1>5. QED
  BY <1>1, <1>2, <1>4 DEF OtherStep, Aside, JobState

LEMMA PlannerCases ==
  ASSUME SyncTyped, NEW s \in Sender, PlannerStep(s)
  PROVE  OtherStep
<1>1. ASSUME NEW t \in Task, NEW new \in TaskFields, EditTask(s, t, new) \/ CreateTask(s, t, new)
      PROVE  OtherStep
  <2>1. LocalWrite(t, new) /\ PlannerTurn(s) /\ UNCHANGED notionVars
    BY <1>1 DEF EditTask, CreateTask, LocalWrite
  <2>2. QED
    BY <2>1, TurnCases DEF OtherStep, Aside
<1>2. CASE UndoEdit(s)
  <2>1. PICK old \in undo[s] :
          \/ LocalWrite(old.task, old.fields)
          \/ UNCHANGED storeVars
    BY <1>2 DEF UndoEdit, LocalWrite
  <2>2. old.task \in Task /\ old.fields \in TaskFields
    BY DEF SyncTyped, Receipt
  <2>3. Aside
    BY <2>1, <2>2 DEF Aside
  <2>4. QED
    BY <1>2, <2>3, TurnCases DEF UndoEdit, OtherStep
<1>3. QED
  BY <1>1, <1>2 DEF PlannerStep

LEMMA RestoreCases ==
  ASSUME SyncTyped, NEW s \in Sender, RestoreStep(s)
  PROVE  OtherStep
<1>1. CASE ExportBackup(s)
  BY <1>1, TurnCases DEF ExportBackup, OtherStep, Aside, Fence
<1>2. CASE StartRestore(s)
  BY <1>2, TurnCases DEF StartRestore, OtherStep, Aside, Fence
<1>3. CASE FinishRestore(s)
  BY <1>3 DEF FinishRestore, OtherStep, Aside, Fence
<1>4. CASE RestoreFails(s)
  BY <1>4 DEF RestoreFails, OtherStep, Aside
<1>5. QED
  BY <1>1, <1>2, <1>3, <1>4 DEF RestoreStep

LEMMA ProcessCases ==
  ASSUME SyncTyped, NEW s \in Sender, Open(s) \/ Stop(s)
  PROVE  OtherStep
<1>1. CASE Open(s)
  BY <1>1 DEF Open, OtherStep, Aside, Instance
<1>2. CASE Stop(s)
  <2>1. Replaced(s, Idle)
    BY <1>2 DEF Stop, Replaced, Idle, Job, Place
  <2>2. QED
    BY <1>2, <2>1 DEF Stop, OtherStep, Aside, Instance, JobState
<1>3. QED
  BY <1>1, <1>2

(* Every step of the system: a dispatcher, something else, or Notion. *)
LEMMA StepCases ==
  ASSUME StoreTypeOK, SyncTyped, [Next]_vars
  PROVE  \/ \E s \in Sender, j \in JobState : Dispatched(s, j)
         \/ OtherStep
         \/ ProviderStep
<1>1. CASE UNCHANGED vars
  BY <1>1 DEF vars, dispatchVars, OtherStep, Aside
<1>2. CASE FenceStep
  BY <1>2 DEF FenceStep, OtherStep, Aside, Fence
<1>3. CASE NotionStep
  BY <1>3 DEF NotionStep
<1>4. ASSUME NEW s \in Sender, DispatchStep(s)
      PROVE  \E j \in JobState : Dispatched(s, j)
  BY <1>4, DispatchCases DEF DispatchStep
<1>5. ASSUME NEW s \in Sender,
             \/ PlannerStep(s) \/ ReconcileStep(s)
             \/ RestoreStep(s) \/ Open(s) \/ Stop(s)
      PROVE  OtherStep
  BY <1>5, PlannerCases, ReconcileCase, RestoreCases, ProcessCases DEF ReconcileStep
<1>6. QED
  BY <1>1, <1>2, <1>3, <1>4, <1>5 DEF Next

(* Each is a transaction of the store, or leaves it alone. *)
LEMMA StepOfStore ==
  ASSUME StoreTypeOK, SyncTyped, [Next]_vars
  PROVE  [StoreNext]_storeVars
<1>1. ASSUME NEW s \in Sender, NEW j \in JobState, Dispatched(s, j)
      PROVE  [StoreNext]_storeVars
  <2>1. ASSUME job[s] \in Job
        PROVE  job[s].op \in OpId /\ ReadFirst(job[s])
    BY <2>1 DEF Job, SyncTyped
  <2>2. CASE Ended(s, j)
    BY <2>1, <2>2 DEF Ended, Returns, ReadFirst, StoreNext, Attempt
  <2>3. CASE Claimed(s, j)
    BY <2>3 DEF Claimed, StoreNext, Attempt
  <2>4. CASE WentOn(s, j)
    BY <2>4 DEF WentOn
  <2>5. CASE MergedInto(s, j)
    BY <2>1, <2>5 DEF MergedInto, SameAttempt, ReadFirst, StoreNext, Attempt
  <2>6. CASE SentBy(s, j)
    BY <2>6 DEF SentBy
  <2>7. QED
    BY <1>1, <2>2, <2>3, <2>4, <2>5, <2>6 DEF Dispatched
<1>2. CASE OtherStep
  BY <1>2 DEF OtherStep, Aside, StoreNext, Attempt
<1>3. CASE ProviderStep
  BY <1>3 DEF ProviderStep
<1>4. QED
  BY <1>1, <1>2, <1>3, StepCases

----------------------------------------------------------------------------
(* Types are kept.                                                         *)

LEMMA JobTyped ==
  ASSUME SyncTyped, NEW s \in Sender, NEW j \in JobState,
         job' = [job EXCEPT ![s] = j], j \in Job => ReadFirst(j)
  PROVE  /\ job' \in [Sender -> JobState]
         /\ \A r \in Sender : job'[r] \in Job => ReadFirst(job'[r])
  BY DEF SyncTyped

LEMMA UndoTyped ==
  ASSUME LinksTyped(task, mapping), SyncTyped, [Next]_vars
  PROVE  undo' \in [Sender -> SUBSET Receipt]
<1>1. ASSUME NEW s \in Sender, undo' = [undo EXCEPT ![s] = {}] \/ undo' = undo
      PROVE  undo' \in [Sender -> SUBSET Receipt]
  BY <1>1 DEF SyncTyped
<1>2. CASE UNCHANGED vars \/ FenceStep \/ NotionStep
  BY <1>2 DEF vars, plannerVars, FenceStep, NotionStep, SyncTyped
<1>3. ASSUME NEW s \in Sender, NEW t \in Task, NEW new \in TaskFields, EditTask(s, t, new)
      PROVE  undo' \in [Sender -> SUBSET Receipt]
  <2> DEFINE r == [task |-> t, fields |-> task[t], wrote |-> new]
  <2>1. task[t] \in TaskFields
    BY <1>3 DEF EditTask, WriteLinkedTask, LinksTyped
  <2>2. r \in Receipt
    BY <2>1 DEF Receipt
  <2>3. undo' = [undo EXCEPT ![s] = {r}]
    BY <1>3 DEF EditTask
  <2>4. QED
    BY <2>2, <2>3 DEF SyncTyped
<1>4. ASSUME NEW s \in Sender, NEW t \in Task, NEW new \in TaskFields, CreateTask(s, t, new)
      PROVE  undo' \in [Sender -> SUBSET Receipt]
  BY <1>1, <1>4 DEF CreateTask
<1>5. ASSUME NEW s \in Sender,
             \/ UndoEdit(s) \/ DispatchStep(s) \/ ReconcileStep(s)
             \/ RestoreStep(s) \/ Open(s) \/ Stop(s)
      PROVE  undo' \in [Sender -> SUBSET Receipt]
  BY <1>1, <1>5 DEF UndoEdit, DispatchStep, ReconcileStep, RestoreStep, ExportBackup,
     StartRestore, FinishRestore, RestoreFails, Open, Stop, plannerVars
<1>6. QED
  BY <1>2, <1>3, <1>4, <1>5 DEF Next, PlannerStep

LEMMA WireTyped ==
  ASSUME StoreTypeOK, SyncTyped, [Next]_vars
  PROVE  wire' \in SUBSET Request /\ issued' \in [OpId -> Nat]
<1>1. CASE UNCHANGED notionVars
  BY <1>1 DEF notionVars, SyncTyped
<1>2. ASSUME NEW r \in Request, Provider!Issue(r)
      PROVE  wire' \in SUBSET Request /\ issued' \in [OpId -> Nat]
  BY <1>2 DEF Provider!Issue, SyncTyped, Request
<1>3. CASE ProviderStep
  BY <1>3 DEF ProviderStep, Provider!ProviderNext, Provider!LandCreate,
     Provider!LandUpdate, Provider!Lose, Provider!RemoteEdit, SyncTyped
<1>4. QED
  BY <1>1, <1>2, <1>3, StepCases
  DEF OtherStep, Dispatched, Ended, Claimed, WentOn, MergedInto, SentBy

LEMMA TypedStep ==
  ASSUME StoreTypeOK, LinksTyped(task, mapping), SyncTyped, [Next]_vars
  PROVE  SyncTyped'
<1>1. /\ job' \in [Sender -> JobState]
      /\ \A r \in Sender : job'[r] \in Job => ReadFirst(job'[r])
  <2>1. CASE UNCHANGED job
    BY <2>1 DEF SyncTyped
  <2>2. QED
    BY <2>1, StepCases, JobTyped DEF Dispatched, OtherStep, Replaced, ProviderStep
<1>2. QED
  BY <1>1, UndoTyped, WireTyped DEF SyncTyped

LEMMA InitSynced == Init => SyncTyped
<1> SUFFICES ASSUME Init
             PROVE  SyncTyped
  OBVIOUS
<1>1. job \in [Sender -> JobState] /\ \A s \in Sender : job[s] \notin Job
  BY DEF Init, JobState, Idle, Job, Place
<1>2. QED
  BY <1>1 DEF Init, Provider!ProviderInit, SyncTyped

(* A process that does not run holds nothing. *)
InMemory ==
  \A s \in Sender \ live : job[s] = Idle /\ undo[s] = {} /\ s \notin restoring

(* The invariants of the store, with the types of the whole and this.      *)
SyncSafe == StoreSafe /\ StoreKept /\ SyncTyped /\ InMemory

LEMMA LiveTurn ==
  ASSUME InMemory, NEW s \in Sender, Dispatch(s)
  PROVE  s \in live
<1> SUFFICES ASSUME job[s].pc = "idle"
             PROVE  s \in live
  BY DEF InMemory, Idle
<1>1. QED
  BY DEF Dispatch, Drain, Read, Decide, Finish, PreflightFails, PreflightUncertain,
     PreflightAbsent, PreflightPage, ReadBackPage, ReadBackFails, Supersede, SupersedeFails,
     NotSuperseded, Merge, MergeSuperseded, MergeFails, MaySend, Send, SendSetupFails,
     SendFenced, Defer, DeferFails, NotDeferred, PauseBeforeWrite, PauseFails, PauseRefused, GiveUp,
     ConfirmReadBack, ConfirmRefused

LEMMA TurnKeepsLive ==
  ASSUME NEW s \in Sender, NEW j, Dispatched(s, j)
  PROVE  live' = live
  BY DEF Dispatched, Ended, Claimed, WentOn, MergedInto, SentBy, storeVars, RecoverOrphans,
     Returns, SupersedeUnsent, PauseUnsent, DeferUnsent, MarkUnknown, Confirm, MarkSending,
     MergePreflight

LEMMA WriteKeepsLive ==
  ASSUME NEW t, NEW new, LocalWrite(t, new)
  PROVE  live' = live
  BY DEF LocalWrite, WriteLinkedTask, CreateLinkedTask, WriteLocalTask

(* What a step holds in memory belongs to a process that runs afterwards.  *)
LEMMA InMemoryStep ==
  ASSUME SyncSafe, [Next]_vars
  PROVE  InMemory'
<1> USE DEF SyncSafe, StoreSafe
<1>1. ASSUME NEW s \in Sender, s \in live, live' = live,
             \A q \in Sender \ {s} : /\ job'[q] = job[q] /\ undo'[q] = undo[q]
                                     /\ q \in restoring' => q \in restoring
      PROVE  InMemory'
  BY <1>1 DEF InMemory
<1>2. ASSUME NEW s \in Sender, PlannerTurn(s)
      PROVE  s \in live /\ \A q \in Sender \ {s} : job'[q] = job[q]
  BY <1>2 DEF PlannerTurn, Free, SyncTyped
<1>3. ASSUME NEW s \in Sender, PlannerStep(s)
      PROVE  InMemory'
  <2>1. live' = live
    BY <1>3, WriteKeepsLive DEF PlannerStep, EditTask, CreateTask, UndoEdit, LocalWrite,
       storeVars
  <2>2. \A q \in Sender \ {s} : undo'[q] = undo[q]
    BY <1>3 DEF PlannerStep, EditTask, CreateTask, UndoEdit, SyncTyped
  <2>3. PlannerTurn(s) /\ restoring' = restoring
    BY <1>3 DEF PlannerStep, EditTask, CreateTask, UndoEdit
  <2>4. QED
    BY <1>1, <1>2, <2>1, <2>2, <2>3
<1>4. ASSUME NEW s \in Sender, DispatchStep(s)
      PROVE  InMemory'
  <2>1. PICK j \in JobState : Dispatched(s, j)
    BY <1>4, DispatchCases DEF DispatchStep
  <2>2. s \in live
    BY <1>4, LiveTurn DEF DispatchStep
  <2>3. \A q \in Sender \ {s} : job'[q] = job[q]
    BY <2>1 DEF Dispatched, SyncTyped
  <2>4. restoring' = restoring /\ \A q \in Sender \ {s} : undo'[q] = undo[q]
    BY <1>4 DEF DispatchStep, SyncTyped
  <2>5. QED
    BY <1>1, <2>1, <2>2, <2>3, <2>4, TurnKeepsLive
<1>5. ASSUME NEW s \in Sender, ReconcileStep(s)
      PROVE  InMemory'
  <2>1. s \in live /\ UNCHANGED <<live, undo, restoring>>
        /\ \E j : job' = [job EXCEPT ![s] = j]
    BY <1>5 DEF ReconcileStep, Reconcile, plannerVars, storeVars
  <2>2. \A q \in Sender \ {s} : job'[q] = job[q]
    BY <2>1 DEF SyncTyped
  <2>3. QED
    BY <1>1, <2>1, <2>2
<1>6. ASSUME NEW s \in Sender, ExportBackup(s) \/ StartRestore(s)
      PROVE  InMemory'
  <2>1. live' = live /\ undo' = undo /\ PlannerTurn(s)
        /\ (restoring' = restoring \/ restoring' = restoring \cup {s})
    BY <1>6 DEF ExportBackup, StartRestore, Export, PauseForRestore, SetConn, plannerVars,
       storeVars
  <2>2. QED
    BY <1>1, <1>2, <2>1
<1>7. ASSUME NEW s \in Sender, FinishRestore(s) \/ RestoreFails(s)
      PROVE  InMemory'
  <2>1. /\ live' = live /\ job' = job /\ restoring' = restoring \ {s}
        /\ undo' = undo \/ undo' = [undo EXCEPT ![s] = {}]
        /\ s \in restoring
    BY <1>7 DEF FinishRestore, RestoreFails, ReplaceAllData, storeVars
  <2>2. s \in live
    BY <2>1 DEF InMemory
  <2>3. QED
    BY <1>1, <2>1, <2>2 DEF SyncTyped
<1>8. ASSUME NEW s \in Sender, Open(s)
      PROVE  InMemory'
  BY <1>8 DEF Open, OpenStore, plannerVars, InMemory
<1>9. ASSUME NEW s \in Sender, Stop(s)
      PROVE  InMemory'
  <2>1. /\ live' = live \ {s} /\ job' = [job EXCEPT ![s] = Idle]
        /\ undo' = [undo EXCEPT ![s] = {}] /\ restoring' = restoring \ {s}
    BY <1>9 DEF Stop, CloseStore, CrashStore
  <2>2. /\ job'[s] = Idle /\ undo'[s] = {} /\ s \notin restoring'
        /\ \A q \in Sender \ {s} : job'[q] = job[q] /\ undo'[q] = undo[q]
    BY <2>1 DEF SyncTyped
  <2>3. QED
    BY <2>1, <2>2 DEF InMemory
<1>10. CASE FenceStep
  BY <1>10 DEF FenceStep, Pause, Resume, Disconnect, CredentialChanged, Reconnect,
     DeadlinePasses, SetConn, plannerVars, InMemory
<1>11. CASE NotionStep
  BY <1>11 DEF NotionStep, ProviderStep, plannerVars, storeVars, InMemory
<1>12. CASE UNCHANGED vars
  BY <1>12 DEF vars, dispatchVars, storeVars, plannerVars, InMemory
<1>13. QED
  BY <1>3, <1>4, <1>5, <1>6, <1>7, <1>8, <1>9, <1>10, <1>11, <1>12 DEF Next, RestoreStep

(* Every step of the system is a transaction of the store or leaves it     *)
(* alone, so that the invariants of the store are its own.                 *)
LEMMA SyncInductive == Spec => []SyncSafe /\ [][StoreNext]_storeVars
<1>1. Init => SyncSafe
  <2>1. Init => StoreInit
    BY DEF Init
  <2>2. Init => InMemory
    BY DEF Init, InMemory
  <2>3. QED
    BY <2>1, <2>2, InitSafe, InitKept, InitSynced DEF SyncSafe
<1>2. SyncSafe /\ [Next]_vars => SyncSafe' /\ [StoreNext]_storeVars
  BY StepOfStore, TypedStep, StoreStep, KeptStep, InMemoryStep DEF SyncSafe, StoreSafe, StoreKept
<1>3. QED
  BY <1>1, <1>2, PTL DEF Spec

----------------------------------------------------------------------------
(* Whose an attempt is.  Its operation is not waiting, and while it is     *)
(* sending it belongs to the process that dispatches it; before the        *)
(* request nothing was sent for it and the link is as the claim read it.   *)
Owns(s, j) ==
  /\ j.op <= nextOp
  /\ outbox[j.op].status # "pending"
  /\ outbox[j.op].status \in OpenWrite => outbox[j.op].task = j.task
  /\ outbox[j.op].status = "sending" =>
       /\ outbox[j.op].owner = s
       /\ j.pc \in Unsent => issued[j.op] = 0 /\ j.copy = mapping[j.task].copy

(* Nothing was ever sent for an intent that waits or is yet to come. *)
IssuedOnce ==
  \A o \in OpId :
    /\ issued[o] \in {0, 1}
    /\ outbox[o].status = "pending" \/ o > nextOp => issued[o] = 0

RowsOwned ==
  /\ IssuedOnce
  /\ \A s \in Sender : job[s] \in Job => Owns(s, job[s])

(* A process between its last check and its request has sent nothing for   *)
(* the attempt, which is still under way or was isolated by a replacement; *)
(* and no other process is there for the same operation or task.           *)
SendHeld(s) ==
  job[s].pc = "send" =>
    /\ issued[job[s].op] = 0
    /\ \/ outbox[job[s].op].status = "sending"
       \/ epoch > 0 /\ quarantine[job[s].op] # Absent

SendersApart ==
  \A s, r \in Sender :
    /\ job[s].pc = "send" /\ job[r].pc = "send"
    /\ job[s].op = job[r].op \/ job[s].task = job[r].task
    => s = r

OpSafe ==
  /\ RowsOwned
  /\ \A s \in Sender : SendHeld(s)
  /\ SendersApart

(* Rows after a transaction that neither claims nor returns. *)
Calm(rows) ==
  \A o \in OpId :
    /\ rows[o].status = "pending" => outbox[o].status = "pending" \/ o > nextOp
    /\ rows[o].status \in OpenWrite =>
         outbox[o].status \in OpenWrite /\ rows[o].task = outbox[o].task
    /\ rows[o].status = "sending" =>
         outbox[o].status = "sending" /\ rows[o].owner = outbox[o].owner

(* The link of a task stays while one of its intents is being sent. *)
CopiesKept ==
  \A o \in OpId :
    outbox'[o].status = "sending" =>
      mapping'[outbox[o].task].copy = mapping[outbox[o].task].copy

LEMMA CalmRows ==
  ASSUME OpensNone(outbox'),
         \A o \in OpId :
           \/ outbox'[o] = outbox[o]
           \/ outbox'[o].status \notin {"pending", "sending"}
           \/ /\ outbox'[o].status = "pending"
              /\ outbox[o].status = "pending" \/ o > nextOp
           \/ /\ outbox'[o].status = "sending" /\ outbox[o].status = "sending"
              /\ outbox'[o].owner = outbox[o].owner
  PROVE  Calm(outbox')
  BY DEF Calm, OpensNone

LEMMA LocalWriteCalm ==
  ASSUME StoreTypeOK, SendsAlone, NEW t \in Task, NEW new \in TaskFields,
         LocalWrite(t, new)
  PROVE  Calm(outbox') /\ CopiesKept
<1>1. ASSUME NEW baseline, outbox' = Enqueued(t, new, baseline)
      PROVE  Calm(outbox')
  <2>1. OpensNone(outbox')
    BY <1>1, EnqueuedRows
  <2>2. ASSUME NEW o \in OpId
        PROVE  \/ outbox'[o] = outbox[o]
               \/ outbox'[o].status = "superseded"
               \/ outbox'[o].status = "pending" /\ o > nextOp
    <3>1. CASE o = nextOp + 1
      BY <1>1, <3>1 DEF Enqueued, StoreTypeOK
    <3>2. CASE o # nextOp + 1 /\ o \in OpsOf(t, {"pending"})
      <4>1. outbox[o] \in Operation
        BY <3>2, RowIsOperation DEF OpsOf, StoreTypeOK, OpStatus
      <4>2. outbox'[o] = [outbox[o] EXCEPT !.status = "superseded"]
        BY <1>1, <3>2 DEF Enqueued
      <4>3. QED
        BY <4>1, <4>2 DEF Operation
    <3>3. CASE o # nextOp + 1 /\ o \notin OpsOf(t, {"pending"})
      BY <1>1, <3>3 DEF Enqueued
    <3>4. QED
      BY <3>1, <3>2, <3>3
  <2>3. QED
    BY <2>1, <2>2, CalmRows
<1>2. CASE WriteLinkedTask(t, new)
  BY <1>1, <1>2 DEF WriteLinkedTask, CopiesKept
<1>3. CASE CreateLinkedTask(t, new)
  <2>1. Calm(outbox')
    BY <1>1, <1>3 DEF CreateLinkedTask
  <2>2. mapping[t].state = "none" /\ \A u \in Task \ {t} : mapping'[u] = mapping[u]
    BY <1>3 DEF CreateLinkedTask, StoreTypeOK
  <2>3. ASSUME NEW o \in OpId, outbox'[o].status = "sending"
        PROVE  mapping'[outbox[o].task] = mapping[outbox[o].task]
    <3>1. outbox[o].status = "sending"
      BY <2>1, <2>3 DEF Calm
    <3>2. outbox[o] \in Operation
      BY <3>1, RowIsOperation DEF StoreTypeOK, OpStatus
    <3>3. outbox[o].task \in Task /\ mapping[outbox[o].task].state # "none"
      BY <3>1, <3>2 DEF Operation, SendsAlone, InStatus
    <3>4. QED
      BY <2>2, <3>3
  <2>4. QED
    BY <2>1, <2>3 DEF CopiesKept
<1>4. CASE WriteLocalTask(t, new)
  BY <1>4, SameRows, CalmRows DEF WriteLocalTask, CopiesKept
<1>5. QED
  BY <1>2, <1>3, <1>4 DEF LocalWrite

LEMMA RecoveryCalm ==
  ASSUME StoreTypeOK, RecoverOrphans \/ \E s \in Sender : Instance(s)
  PROVE  Calm(outbox') /\ CopiesKept
<1>1. mapping' = mapping
  BY DEF RecoverOrphans, Instance, OpenStore, CloseStore, CrashStore
<1>2. ASSUME NEW ops \in SUBSET InStatus({"sending"}),
             outbox' = SetStatus(ops, "unknown")
      PROVE  Calm(outbox')
  <2>1. ops \in SUBSET OpId
    BY <1>2 DEF InStatus
  <2>2. OpensNone(outbox')
    BY <1>2, <2>1, RecoveredRows
  <2>3. ASSUME NEW o \in OpId
        PROVE  outbox'[o] = outbox[o] \/ outbox'[o].status = "unknown"
    <3>1. CASE o \in ops
      <4>1. outbox[o] \in Operation
        BY <1>2, <3>1, RowIsOperation DEF InStatus, StoreTypeOK, OpStatus
      <4>2. outbox'[o] = [outbox[o] EXCEPT !.status = "unknown"]
        BY <1>2, <3>1 DEF SetStatus
      <4>3. QED
        BY <4>1, <4>2 DEF Operation
    <3>2. CASE o \notin ops
      BY <1>2, <3>2 DEF SetStatus
    <3>3. QED
      BY <3>1, <3>2
  <2>4. QED
    BY <2>2, <2>3, CalmRows
<1>3. ASSUME outbox' = Recovered
      PROVE  Calm(outbox')
  <2>1. Orphans \in SUBSET InStatus({"sending"})
    BY DEF Orphans
  <2>2. PICK ops : ops = Orphans
    OBVIOUS
  <2>3. outbox' = SetStatus(ops, "unknown")
    BY <1>3, <2>2 DEF Recovered
  <2>4. QED
    BY <1>2, <2>1, <2>2, <2>3
<1>4. ASSUME NEW s \in Sender, CloseStore(s)
      PROVE  Calm(outbox')
  <2> DEFINE left == {o \in InStatus({"sending"}) : outbox[o].owner \notin live \ {s}}
  <2>1. outbox' = SetStatus(left, "unknown")
    BY <1>4 DEF CloseStore
  <2>2. left \in SUBSET InStatus({"sending"})
    OBVIOUS
  <2>3. PICK ops : ops = left
    OBVIOUS
  <2> HIDE DEF left
  <2>4. outbox' = SetStatus(ops, "unknown")
    BY <2>1, <2>3
  <2>5. QED
    BY <1>2, <2>2, <2>3, <2>4
<1>5. ASSUME outbox' = outbox
      PROVE  Calm(outbox')
  BY <1>5, SameRows, CalmRows
<1>6. ASSUME NEW s \in Sender, Instance(s)
      PROVE  Calm(outbox')
  <2>1. CASE OpenStore(s)
    BY <1>3, <2>1 DEF OpenStore
  <2>2. CASE CrashStore(s)
    BY <1>5, <2>2 DEF CrashStore
  <2>3. QED
    BY <1>4, <1>6, <2>1, <2>2 DEF Instance
<1>7. ASSUME RecoverOrphans
      PROVE  Calm(outbox')
  BY <1>3, <1>7 DEF RecoverOrphans
<1>8. Calm(outbox')
  BY <1>6, <1>7
<1>9. QED
  BY <1>1, <1>8 DEF CopiesKept

LEMMA FenceCalm ==
  ASSUME StoreTypeOK, Fence
  PROVE  Calm(outbox') /\ CopiesKept
<1>1. CASE ReplaceAllData
  BY <1>1, ReplacedRows DEF Calm, CopiesKept, LiveStatus, OpenWrite
<1>2. CASE ~ReplaceAllData
  <2>1. outbox' = outbox /\ mapping' = mapping
    BY <1>2 DEF Fence, Pause, Resume, Disconnect, CredentialChanged, Reconnect,
                DeadlinePasses, PauseForRestore, Export, SetConn
  <2>2. QED
    BY <2>1, SameRows, CalmRows DEF CopiesKept
<1>3. QED
  BY <1>1, <1>2

LEMMA MergeCalm ==
  ASSUME StoreTypeOK, NEW o \in OpId, NEW fields \in TaskFields,
         MergePreflight(o, fields)
  PROVE  Calm(outbox') /\ CopiesKept
<1> DEFINE t == outbox[o].task
           merged == Merged(outbox[o].baseline, outbox[o].desired, fields)
<1>1. outbox[o].status = "sending"
  BY DEF MergePreflight, Rebasable, CanDispatch
<1>2. outbox[o] \in Operation
  BY <1>1, RowIsOperation DEF StoreTypeOK, OpStatus
<1>3. /\ outbox'[o] = [outbox[o] EXCEPT !.baseline = fields, !.desired = merged]
      /\ \A p \in OpId \ {o} : outbox'[p] = outbox[p]
      /\ mapping' = [mapping EXCEPT ![t].baseline = fields]
  BY DEF MergePreflight, StoreTypeOK
<1> HIDE DEF merged
<1>4. /\ outbox'[o].status = "sending" /\ outbox'[o].task = outbox[o].task
      /\ outbox'[o].owner = outbox[o].owner
  BY <1>1, <1>2, <1>3 DEF Operation
<1>5. t \in Task
  BY <1>2 DEF Operation
<1>6. ASSUME NEW u \in Task
      PROVE  mapping'[u].copy = mapping[u].copy
  <2>1. mapping[u] \in Mapping
    BY DEF StoreTypeOK
  <2>2. mapping'[u] = mapping[u] \/ mapping'[u] = [mapping[u] EXCEPT !.baseline = fields]
    BY <1>3 DEF StoreTypeOK
  <2>3. QED
    BY <2>1, <2>2 DEF Mapping
<1>7. Calm(outbox')
  BY <1>1, <1>3, <1>4 DEF Calm
<1>8. CopiesKept
  <2> SUFFICES ASSUME NEW p \in OpId, outbox'[p].status = "sending"
               PROVE  outbox[p].task \in Task
    BY <1>6 DEF CopiesKept
  <2>1. outbox[p].status = "sending"
    BY <1>7 DEF Calm
  <2>2. outbox[p] \in Operation
    BY <2>1, RowIsOperation DEF StoreTypeOK, OpStatus
  <2>3. QED
    BY <2>2 DEF Operation
<1>9. QED
  BY <1>7, <1>8

LEMMA UnknownCalm ==
  ASSUME StoreTypeOK, NEW o \in OpId, MarkUnknown(o)
  PROVE  Calm(outbox') /\ CopiesKept
<1>1. outbox[o].status = "sending" /\ mapping' = mapping
  BY DEF MarkUnknown
<1>2. outbox[o] \in Operation
  BY <1>1, RowIsOperation DEF StoreTypeOK, OpStatus
<1>3. /\ outbox'[o] = [outbox[o] EXCEPT !.status = "unknown"]
      /\ \A p \in OpId \ {o} : outbox'[p] = outbox[p]
  BY DEF MarkUnknown, StoreTypeOK
<1>4. outbox'[o].status = "unknown" /\ outbox'[o].task = outbox[o].task
  BY <1>2, <1>3 DEF Operation
<1>5. QED
  BY <1>1, <1>3, <1>4 DEF Calm, CopiesKept, OpenWrite

(* A confirmation changes the link of its task, whose only open write it   *)
(* closes.                                                                 *)
LEMMA ConfirmCalm ==
  ASSUME StoreTypeOK, SingleInFlight, NEW o \in OpId, NEW copy \in Copy,
         NEW fields \in TaskFields, Confirm(o, copy, fields)
  PROVE  Calm(outbox') /\ CopiesKept
<1> DEFINE t == outbox[o].task
           link == [state |-> "active", copy |-> copy, baseline |-> fields]
<1>1. outbox[o].status \in OpenWrite
  BY DEF Confirm, Confirmable, OpenWrite
<1>2. outbox[o] \in Operation
  BY <1>1, RowIsOperation DEF StoreTypeOK, OpStatus, OpenWrite
<1>3. outbox' = Settled(o, fields) /\ mapping' = [mapping EXCEPT ![t] = link]
  BY DEF Confirm
<1>4. OpensNone(outbox')
  BY <1>2, <1>3, SettledRows
<1>5. ASSUME NEW p \in OpId
      PROVE  \/ outbox'[p] = outbox[p] /\ p # o
             \/ outbox'[p].status = "confirmed"
             \/ outbox'[p].status = "pending" /\ outbox[p].status = "pending"
  <2>1. CASE p = o
    BY <1>2, <1>3, <2>1 DEF Settled, Operation
  <2>2. CASE p # o /\ p \in OpsOf(outbox[o].task, {"pending"})
    <3>1. outbox[p].status = "pending" /\ outbox[p] \in Operation
      BY <2>2, RowIsOperation DEF OpsOf, StoreTypeOK, OpStatus
    <3>2. outbox'[p] = [outbox[p] EXCEPT !.baseline = fields,
                          !.status = IF outbox[p].desired = fields
                                       THEN "confirmed" ELSE "pending"]
      BY <1>3, <2>2 DEF Settled
    <3>3. QED
      BY <3>1, <3>2 DEF Operation
  <2>3. CASE p # o /\ p \notin OpsOf(outbox[o].task, {"pending"})
    BY <1>3, <2>3 DEF Settled
  <2>4. QED
    BY <2>1, <2>2, <2>3
<1>6. Calm(outbox')
  BY <1>4, <1>5, CalmRows
<1>7. ASSUME NEW p \in OpId, outbox'[p].status = "sending"
      PROVE  mapping'[outbox[p].task] = mapping[outbox[p].task]
  <2>1. p # o /\ outbox[p].status = "sending"
    BY <1>5, <1>6, <1>7 DEF Calm
  <2>2. outbox[p].task # t
    BY <1>1, <2>1 DEF SingleInFlight, InStatus, OpenWrite
  <2>3. outbox[p] \in Operation
    BY <2>1, RowIsOperation DEF StoreTypeOK, OpStatus
  <2>4. outbox[p].task \in Task
    BY <2>3 DEF Operation
  <2> HIDE DEF t, link
  <2>5. QED
    BY <1>3, <2>2, <2>4 DEF StoreTypeOK
<1>8. QED
  BY <1>6, <1>7 DEF CopiesKept

LEMMA NeutralCalm ==
  ASSUME StoreSafe, StoreKept, Neutral
  PROVE  /\ Calm(outbox') /\ CopiesKept
         /\ nextOp' \in {nextOp, nextOp + 1}
<1> USE DEF StoreSafe, StoreKept
<1>1. CASE UNCHANGED storeVars
  <2>1. UNCHANGED <<outbox, mapping, nextOp>>
    BY <1>1 DEF storeVars
  <2>2. QED
    BY <2>1, SameRows, CalmRows DEF CopiesKept
<1>2. nextOp' \in {nextOp, nextOp + 1}
  <2>1. CASE UNCHANGED storeVars
    BY <2>1 DEF storeVars
  <2>2. CASE ~UNCHANGED storeVars
    BY <2>2 DEF Neutral, Aside, LocalWrite, WriteLinkedTask, CreateLinkedTask, WriteLocalTask,
       RecoverOrphans, Fence, Pause, Resume, Disconnect, CredentialChanged, Reconnect,
       DeadlinePasses, PauseForRestore, Export, SetConn, ReplaceAllData,
       Instance, OpenStore, CloseStore, CrashStore, MergePreflight, MarkUnknown, Confirm
  <2>3. QED
    BY <2>1, <2>2
<1>3. QED
  BY <1>1, <1>2, LocalWriteCalm, RecoveryCalm, FenceCalm, MergeCalm, UnknownCalm,
     ConfirmCalm
  DEF Neutral, Aside

LEMMA ReturnRow ==
  ASSUME StoreTypeOK, NEW o \in OpId, Returns(o)
  PROVE  /\ outbox[o].status = "sending" /\ outbox'[o].status \in {"pending", "superseded"}
         /\ \A p \in OpId \ {o} : outbox'[p] = outbox[p]
         /\ UNCHANGED <<quarantine, backup, nextOp>>
<1>1. outbox[o].status = "sending" /\ UNCHANGED <<quarantine, backup, nextOp>>
  BY DEF Returns, SupersedeUnsent, PauseUnsent, MayPauseUnsent, DeferUnsent, MayDefer
<1>2. outbox[o] \in Operation
  BY <1>1, RowIsOperation DEF StoreTypeOK, OpStatus
<1>3. \/ outbox' = [outbox EXCEPT ![o].status = "superseded"]
      \/ outbox' = [outbox EXCEPT ![o].status = "pending", ![o].owner = NoSender]
  BY DEF Returns, SupersedeUnsent, PauseUnsent, DeferUnsent, ReturnUnsent
<1>4. /\ \/ outbox'[o] = [outbox[o] EXCEPT !.status = "superseded"]
         \/ outbox'[o] = [outbox[o] EXCEPT !.status = "pending", !.owner = NoSender]
      /\ \A p \in OpId \ {o} : outbox'[p] = outbox[p]
  BY <1>3 DEF StoreTypeOK
<1>5. outbox'[o].status \in {"pending", "superseded"}
  BY <1>2, <1>4 DEF Operation
<1>6. QED
  BY <1>1, <1>4, <1>5

LEMMA ClaimRow ==
  ASSUME StoreTypeOK, NEW o \in OpId, NEW s \in Sender, MarkSending(o, s)
  PROVE  /\ outbox[o].status = "pending" /\ outbox'[o].status = "sending"
         /\ \A p \in OpId \ {o} : outbox'[p] = outbox[p]
         /\ UNCHANGED <<quarantine, backup, nextOp>>
<1>1. outbox[o].status = "pending" /\ UNCHANGED <<quarantine, backup, nextOp>>
  BY DEF MarkSending, Claimable
<1>2. outbox[o] \in Operation
  BY <1>1, RowIsOperation DEF StoreTypeOK, OpStatus
<1>3. /\ outbox'[o] = [outbox[o] EXCEPT !.status = "sending", !.owner = s]
      /\ \A p \in OpId \ {o} : outbox'[p] = outbox[p]
  BY DEF MarkSending, StoreTypeOK
<1>4. outbox'[o].status = "sending"
  BY <1>2, <1>3 DEF Operation
<1>5. QED
  BY <1>1, <1>3, <1>4

LEMMA QuarantineStays ==
  ASSUME [StoreNext]_storeVars, ~ReplaceAllData
  PROVE  UNCHANGED <<quarantine, epoch>>
  BY DEF StoreNext, storeVars, LocalWrite, WriteLinkedTask, CreateLinkedTask,
     WriteLocalTask, RecoverOrphans, Attempt, MarkSending, SupersedeUnsent, PauseUnsent,
     DeferUnsent, MergePreflight, MarkUnknown, Confirm, ConfirmDiffers, Fence, Pause,
     Resume, Disconnect, CredentialChanged, Reconnect, DeadlinePasses, PauseForRestore,
     SetConn, Export, Instance, OpenStore, CloseStore, CrashStore

(* Owning an attempt outlives every transaction that is not about it. *)
LEMMA OwnsCalm ==
  ASSUME StoreTypeOK, NEW s \in Sender, NEW j \in Job, Owns(s, j),
         Calm(outbox'), CopiesKept, nextOp' \in {nextOp, nextOp + 1}, issued' = issued
  PROVE  Owns(s, j)'
<1>1. j.op \in OpId /\ nextOp \in Nat
  BY DEF Job, StoreTypeOK
<1>2. nextOp <= nextOp'
  BY <1>1
<1>3. j.op <= nextOp /\ outbox[j.op].status # "pending"
  BY DEF Owns
<1>4. j.op <= nextOp' /\ outbox'[j.op].status # "pending"
  BY <1>1, <1>2, <1>3 DEF Calm, OpId
<1>5. ASSUME outbox'[j.op].status \in OpenWrite
      PROVE  outbox'[j.op].task = j.task
  BY <1>1, <1>5 DEF Calm, Owns
<1>6. ASSUME outbox'[j.op].status = "sending"
      PROVE  /\ outbox'[j.op].owner = s
             /\ j.pc \in Unsent => issued'[j.op] = 0 /\ j.copy = mapping'[j.task].copy
  <2>1. outbox[j.op].status = "sending" /\ outbox'[j.op].owner = outbox[j.op].owner
    BY <1>1, <1>6 DEF Calm
  <2>2. outbox[j.op].task = j.task
    BY <2>1 DEF Owns, OpenWrite
  <2>3. mapping'[j.task].copy = mapping[j.task].copy
    BY <1>1, <1>6, <2>2 DEF CopiesKept
  <2>4. QED
    BY <2>1, <2>3 DEF Owns
<1>7. QED
  BY <1>4, <1>5, <1>6 DEF Owns

LEMMA OwnsRow ==
  ASSUME NEW s \in Sender, NEW j \in Job, Owns(s, j),
         outbox'[j.op] = outbox[j.op], issued'[j.op] = issued[j.op],
         UNCHANGED <<mapping, nextOp>>
  PROVE  Owns(s, j)'
  BY DEF Owns

LEMMA SameOwns ==
  ASSUME NEW s \in Sender, NEW j, SameAttempt(s, j), Owns(s, job[s])
  PROVE  Owns(s, j)
  BY DEF SameAttempt, Owns

(* An attempt under way is owned by one process only. *)
LEMMA OneOwner ==
  ASSUME OpSafe, NEW s \in Sender, NEW r \in Sender, job[s] \in Job, job[r] \in Job,
         outbox[job[s].op].status = "sending", job[r].op = job[s].op
  PROVE  r = s
  BY DEF OpSafe, RowsOwned, Owns

(* What the jobs of all processes own, by what became of each.             *)
LEMMA AllOwn ==
  ASSUME \A s \in Sender : \E j : j = job'[s] /\ (j \in Job => Owns(s, j)')
  PROVE  \A s \in Sender : job'[s] \in Job => Owns(s, job[s])'
  BY DEF Owns

LEMMA NeutralOwns ==
  ASSUME SyncSafe, OpSafe, Neutral, issued' = issued,
         \A s \in Sender :
           \/ job'[s] = job[s]
           \/ job'[s] \notin Job
           \/ SameAttempt(s, job'[s])
           \/ Reconciled(s, job'[s])
  PROVE  RowsOwned'
<1> USE DEF SyncSafe, StoreSafe
<1>1. /\ Calm(outbox') /\ CopiesKept
      /\ nextOp' \in {nextOp, nextOp + 1} /\ nextOp \in Nat
  BY NeutralCalm DEF StoreTypeOK
<1>2. IssuedOnce'
  BY <1>1 DEF OpSafe, RowsOwned, IssuedOnce, Calm, OpId
<1>3. ASSUME NEW s \in Sender, NEW j, j = job'[s], j \in Job
      PROVE  Owns(s, j)'
  <2>1. CASE j = job[s]
    <3>1. Owns(s, j)
      BY <1>3, <2>1 DEF OpSafe, RowsOwned
    <3>2. QED
      BY <1>1, <1>3, <3>1, OwnsCalm
  <2>2. CASE SameAttempt(s, j)
    <3>1. Owns(s, j)
      BY <2>2, SameOwns DEF SameAttempt, OpSafe, RowsOwned
    <3>2. QED
      BY <1>1, <1>3, <3>1, OwnsCalm
  <2>3. CASE Reconciled(s, j)
    <3>1. PICK o \in OpId : outbox[o].status = "unknown" /\ j = Dispatching("readBack", {}, o)
      BY <2>3 DEF Reconciled
    <3>2. o <= nextOp
      BY <1>1, <3>1 DEF StoreKept, RowsEnqueued, Absent, OpId
    <3>3. Owns(s, j)
      BY <3>1, <3>2 DEF Dispatching, Owns, Unsent
    <3>4. QED
      BY <1>1, <1>3, <3>3, OwnsCalm
  <2>4. QED
    BY <1>3, <2>1, <2>2, <2>3
<1>4. \A s \in Sender : job'[s] \in Job => Owns(s, job[s])'
  BY <1>3, AllOwn
<1>5. QED
  BY <1>2, <1>4 DEF OpSafe, RowsOwned

LEMMA ReturnOwns ==
  ASSUME SyncSafe, OpSafe, NEW s \in Sender, NEW j,
         job' = [job EXCEPT ![s] = j], j \notin Job, UNCHANGED notionVars,
         job[s] \in Job, job[s].pc \in Unsent, Returns(job[s].op)
  PROVE  RowsOwned'
<1> DEFINE o == job[s].op
<1> USE DEF SyncSafe, StoreSafe
<1>1. /\ o \in OpId /\ outbox[o].status = "sending"
      /\ UNCHANGED <<mapping, nextOp, issued>>
      /\ \A p \in OpId \ {o} : outbox'[p] = outbox[p]
  <2>1. o \in OpId
    BY DEF Job
  <2>2. outbox[o].status = "sending" /\ UNCHANGED <<mapping, nextOp>>
    BY DEF Returns, SupersedeUnsent, PauseUnsent, MayPauseUnsent, DeferUnsent, MayDefer
  <2>3. \E status \in OpStatus, owner \in Sender \cup {NoSender} :
          \/ outbox' = [outbox EXCEPT ![o].status = status]
          \/ outbox' = [outbox EXCEPT ![o].status = status, ![o].owner = owner]
    BY DEF Returns, SupersedeUnsent, PauseUnsent, DeferUnsent, ReturnUnsent, OpStatus
  <2> HIDE DEF o
  <2>4. \A p \in OpId \ {o} : outbox'[p] = outbox[p]
    BY <2>1, <2>3 DEF StoreTypeOK
  <2>5. QED
    BY <2>1, <2>2, <2>4 DEF o, notionVars
<1>2. Owns(s, job[s]) /\ issued[o] = 0
  BY <1>1 DEF OpSafe, RowsOwned, Owns
<1>3. IssuedOnce'
  BY <1>1, <1>2 DEF OpSafe, RowsOwned, IssuedOnce
<1>4. ASSUME NEW r \in Sender, NEW k, k = job'[r], k \in Job
      PROVE  Owns(r, k)'
  <2>1. r # s /\ k = job[r]
    BY <1>4 DEF SyncTyped
  <2>2. k.op # o
    BY <1>1, <1>4, <2>1, OneOwner
  <2>3. k.op \in OpId /\ Owns(r, k)
    BY <1>4, <2>1 DEF Job, OpSafe, RowsOwned
  <2>4. outbox'[k.op] = outbox[k.op]
    BY <1>1, <2>2, <2>3
  <2>5. QED
    BY <1>1, <1>4, <2>3, <2>4, OwnsRow
<1>5. \A r \in Sender : job'[r] \in Job => Owns(r, job[r])'
  BY <1>4, AllOwn
<1>6. QED
  BY <1>3, <1>5 DEF OpSafe, RowsOwned

LEMMA ClaimOwns ==
  ASSUME SyncSafe, OpSafe, NEW s \in Sender, NEW j,
         job' = [job EXCEPT ![s] = j], Claimed(s, j)
  PROVE  RowsOwned'
<1> USE DEF SyncSafe, StoreSafe
<1>1. PICK o \in OpId, queue \in SUBSET OpId :
        MarkSending(o, s) /\ j = Dispatching("preflight", queue, o)
  BY DEF Claimed
<1>2. /\ outbox[o].status = "pending" /\ UNCHANGED <<mapping, nextOp, issued>>
      /\ outbox' = [outbox EXCEPT ![o].status = "sending", ![o].owner = s]
  BY <1>1 DEF MarkSending, Claimable, Claimed, notionVars
<1>3. outbox[o] \in Operation
  BY <1>2, RowIsOperation DEF StoreTypeOK, OpStatus
<1>4. /\ outbox'[o] = [outbox[o] EXCEPT !.status = "sending", !.owner = s]
      /\ \A p \in OpId \ {o} : outbox'[p] = outbox[p]
  BY <1>2 DEF StoreTypeOK
<1>5. /\ outbox'[o].status = "sending" /\ outbox'[o].owner = s
      /\ outbox'[o].task = outbox[o].task
  BY <1>3, <1>4 DEF Operation
<1>6. issued[o] = 0
  BY <1>2 DEF OpSafe, RowsOwned, IssuedOnce
<1>7. IssuedOnce'
  BY <1>2, <1>4, <1>6 DEF OpSafe, RowsOwned, IssuedOnce
<1>8. o <= nextOp
  BY <1>2 DEF StoreKept, RowsEnqueued, Absent, OpId, StoreTypeOK
<1>9. Owns(s, j)'
  BY <1>1, <1>2, <1>5, <1>6, <1>8 DEF Dispatching, Owns
<1>10. ASSUME NEW r \in Sender, NEW k, k = job'[r], k \in Job
       PROVE  Owns(r, k)'
  <2>1. CASE r = s
    <3>1. k = j
      BY <1>10, <2>1 DEF SyncTyped
    <3>2. QED
      BY <1>9, <2>1, <3>1
  <2>2. CASE r # s
    <3>1. k = job[r]
      BY <1>10, <2>2 DEF SyncTyped
    <3>2. k.op \in OpId /\ Owns(r, k)
      BY <1>10, <3>1 DEF Job, OpSafe, RowsOwned
    <3>3. k.op # o
      BY <1>2, <3>2 DEF Owns
    <3>4. outbox'[k.op] = outbox[k.op]
      BY <1>4, <3>2, <3>3
    <3>5. QED
      BY <1>2, <1>10, <3>2, <3>4, OwnsRow
  <2>3. QED
    BY <2>1, <2>2
<1>11. \A r \in Sender : job'[r] \in Job => Owns(r, job[r])'
  BY <1>10, AllOwn
<1>12. QED
  BY <1>7, <1>11 DEF OpSafe, RowsOwned

LEMMA SendOwns ==
  ASSUME SyncSafe, OpSafe, NEW s \in Sender, NEW j,
         job' = [job EXCEPT ![s] = j], SentBy(s, j)
  PROVE  RowsOwned'
<1> DEFINE o == job[s].op
<1> USE DEF SyncSafe, StoreSafe
<1>1. /\ o \in OpId /\ job[s] \in Job /\ j \in Job /\ j.op = o
      /\ job[s].pc = "send" /\ j.pc \notin Unsent
      /\ UNCHANGED <<mapping, nextOp, outbox>>
      /\ issued' = [issued EXCEPT ![o] = @ + 1]
  BY DEF SentBy, SameAttempt, storeVars, Job, Unsent, Provider!Issue
<1>2. issued[o] = 0
  BY <1>1 DEF OpSafe, SendHeld
<1>3. o <= nextOp /\ outbox[o].status # "pending"
  BY <1>1 DEF OpSafe, RowsOwned, Owns
<1> HIDE DEF o
<1>4. issued'[o] = 1 /\ \A p \in OpId \ {o} : issued'[p] = issued[p]
  BY <1>1, <1>2 DEF SyncTyped
<1>5. IssuedOnce'
  BY <1>1, <1>3, <1>4 DEF OpSafe, RowsOwned, IssuedOnce, OpId, StoreTypeOK
<1>6. ASSUME NEW r \in Sender, NEW k, k = job'[r], k \in Job
      PROVE  Owns(r, k)'
  <2>1. CASE r = s
    <3>1. k = j
      BY <1>6, <2>1 DEF SyncTyped
    <3>2. Owns(s, j)
      BY SameOwns DEF SentBy, SameAttempt, OpSafe, RowsOwned
    <3>3. QED
      BY <1>1, <2>1, <3>1, <3>2 DEF Owns
  <2>2. CASE r # s
    <3>1. k = job[r]
      BY <1>6, <2>2 DEF SyncTyped
    <3>2. k.op \in OpId /\ Owns(r, k)
      BY <1>6, <3>1 DEF Job, OpSafe, RowsOwned
    <3>3. outbox[k.op].status = "sending" => k.op # o
      BY <1>1, <1>6, <2>2, <3>1, OneOwner DEF o
    <3>4. outbox[k.op].status = "sending" => issued'[k.op] = issued[k.op]
      BY <1>4, <3>2, <3>3
    <3>5. QED
      BY <1>1, <3>2, <3>4 DEF Owns
  <2>3. QED
    BY <2>1, <2>2
<1>7. \A r \in Sender : job'[r] \in Job => Owns(r, job[r])'
  BY <1>6, AllOwn
<1>8. QED
  BY <1>5, <1>7 DEF RowsOwned

LEMMA OwnStep ==
  ASSUME SyncSafe, OpSafe, [Next]_vars
  PROVE  RowsOwned'
<1> USE DEF SyncSafe, StoreSafe
<1>1. ASSUME NEW s \in Sender, NEW j, Dispatched(s, j),
             j \notin Job \/ SameAttempt(s, j), Neutral, UNCHANGED notionVars
      PROVE  RowsOwned'
  <2>1. \A r \in Sender : job'[r] = job[r] \/ job'[r] \notin Job \/ SameAttempt(r, job'[r])
    BY <1>1 DEF Dispatched, SyncTyped
  <2>2. QED
    BY <1>1, <2>1, NeutralOwns DEF notionVars
<1>2. ASSUME NEW s \in Sender, NEW j \in JobState, Dispatched(s, j)
      PROVE  RowsOwned'
  <2>1. job' = [job EXCEPT ![s] = j]
    BY <1>2 DEF Dispatched
  <2>2. ASSUME job[s] \in Job
        PROVE  job[s].op \in OpId /\ ReadFirst(job[s])
    BY <2>2 DEF Job, SyncTyped
  <2>3. CASE Ended(s, j)
    <3>1. j \notin Job
      BY <2>3 DEF Ended, Idle, Loops, Job, Place
    <3>2. CASE job[s] \in Job /\ job[s].pc \in Unsent /\ Returns(job[s].op)
      BY <2>1, <2>3, <3>1, <3>2, ReturnOwns DEF Ended
    <3>3. CASE ~(job[s] \in Job /\ job[s].pc \in Unsent /\ Returns(job[s].op))
      <4>1. Neutral /\ UNCHANGED notionVars
        BY <2>2, <2>3, <3>3 DEF Ended, ReadFirst, Neutral, Aside
      <4>2. QED
        BY <1>1, <1>2, <3>1, <4>1
    <3>4. QED
      BY <3>2, <3>3
  <2>4. CASE Claimed(s, j)
    BY <2>1, <2>4, ClaimOwns
  <2>5. CASE WentOn(s, j)
    BY <1>1, <1>2, <2>5 DEF WentOn, Neutral, Aside
  <2>6. CASE MergedInto(s, j)
    <3>1. Neutral
      BY <2>2, <2>6 DEF MergedInto, SameAttempt, ReadFirst, Neutral, Aside
    <3>2. QED
      BY <1>1, <1>2, <2>6, <3>1 DEF MergedInto
  <2>7. CASE SentBy(s, j)
    BY <2>1, <2>7, SendOwns
  <2>8. QED
    BY <1>2, <2>3, <2>4, <2>5, <2>6, <2>7 DEF Dispatched
<1>3. CASE OtherStep
  <2>1. \A s \in Sender :
          \/ job'[s] = job[s] \/ job'[s] \notin Job
          \/ SameAttempt(s, job'[s]) \/ Reconciled(s, job'[s])
    <3>1. Idle \notin Job
      BY DEF Idle, Job, Place
    <3>2. QED
      BY <1>3, <3>1 DEF OtherStep, Replaced, LetPass, SyncTyped
  <2>2. QED
    BY <1>3, <2>1, NeutralOwns DEF OtherStep, Neutral, notionVars
<1>4. CASE ProviderStep
  <2>1. UNCHANGED storeVars /\ UNCHANGED job /\ issued' = issued
    BY <1>4 DEF ProviderStep, Provider!ProviderNext, Provider!LandCreate,
       Provider!LandUpdate, Provider!Lose, Provider!RemoteEdit
  <2>2. QED
    BY <2>1, NeutralOwns DEF Neutral, Aside
<1>5. QED
  BY <1>2, <1>3, <1>4, StepCases

(* Where a process about to send comes from. *)
LEMMA SendersCases ==
  ASSUME SyncSafe, [Next]_vars, NEW s \in Sender, job'[s].pc = "send"
  PROVE  \/ job'[s] = job[s]
         \/ /\ job[s] \in Job /\ job[s].pc = "gate" /\ CanDispatch(job[s].op)
            /\ job'[s].op = job[s].op /\ job'[s].task = job[s].task
            /\ job'[s].copy = job[s].copy
            /\ UNCHANGED storeVars /\ UNCHANGED notionVars
            /\ \A r \in Sender \ {s} : job'[r] = job[r]
<1> USE DEF SyncSafe, StoreSafe
<1>1. ASSUME NEW u \in Sender, NEW j, job' = [job EXCEPT ![u] = j]
      PROVE  job'[u] = j /\ \A r \in Sender \ {u} : job'[r] = job[r]
  BY <1>1 DEF SyncTyped
<1>2. ASSUME NEW u \in Sender, NEW j \in JobState, Dispatched(u, j), j.pc = "send"
      PROVE  /\ job[u] \in Job /\ job[u].pc = "gate" /\ CanDispatch(job[u].op)
             /\ j.op = job[u].op /\ j.task = job[u].task /\ j.copy = job[u].copy
             /\ UNCHANGED storeVars /\ UNCHANGED notionVars
  <2>1. ~Ended(u, j)
    BY <1>2 DEF Ended, Idle, Loops
  <2>2. ~Claimed(u, j)
    BY <1>2 DEF Claimed, Dispatching
  <2>3. ~MergedInto(u, j) /\ ~SentBy(u, j)
    BY <1>2 DEF MergedInto, TookMerge, SentBy
  <2>4. WentOn(u, j)
    BY <1>2, <2>1, <2>2, <2>3 DEF Dispatched
  <2>5. QED
    BY <1>2, <2>4 DEF WentOn, SameAttempt, Further, ReadOn, MovedOn
<1>3. ASSUME NEW u \in Sender, NEW j \in JobState, Replaced(u, j)
      PROVE  j.pc # "send"
  <2>1. CASE LetPass(u, j)
    BY <2>1 DEF LetPass, Job
  <2>2. QED
    BY <1>3, <2>1 DEF Replaced, Idle, Reconciled, Dispatching
<1>4. ASSUME NEW u \in Sender, NEW j \in JobState, Dispatched(u, j)
      PROVE  \/ job'[s] = job[s]
             \/ /\ job[s] \in Job /\ job[s].pc = "gate" /\ CanDispatch(job[s].op)
                /\ job'[s].op = job[s].op /\ job'[s].task = job[s].task
                /\ job'[s].copy = job[s].copy
                /\ UNCHANGED storeVars /\ UNCHANGED notionVars
                /\ \A r \in Sender \ {s} : job'[r] = job[r]
  <2>1. job'[u] = j /\ \A r \in Sender \ {u} : job'[r] = job[r]
    BY <1>1, <1>4 DEF Dispatched
  <2>2. QED
    BY <1>2, <1>4, <2>1
<1>5. CASE OtherStep
  <2>1. ASSUME NEW u \in Sender, NEW j \in JobState, Replaced(u, j)
        PROVE  job'[s] = job[s]
    <3>1. job'[u] = j /\ \A r \in Sender \ {u} : job'[r] = job[r]
      BY <1>1, <2>1 DEF Replaced
    <3>2. QED
      BY <1>3, <2>1, <3>1
  <2>2. QED
    BY <1>5, <2>1 DEF OtherStep
<1>6. QED
  BY <1>4, <1>5, StepCases DEF ProviderStep

(* A send of a running process stays under way, unless a replacement       *)
(* isolates it.                                                            *)
LEMMA SendingStays ==
  ASSUME StoreSafe, StoreKept, Aside, NEW o \in OpId, outbox[o].status = "sending",
         outbox[o].owner \in live, outbox[o].owner \in live'
  PROVE  outbox'[o].status = "sending" \/ (epoch' > 0 /\ quarantine'[o] # Absent)
<1> USE DEF StoreSafe
<1>1. outbox[o] # Absent /\ ~(o > nextOp) /\ o \notin Orphans
  BY DEF Absent, StoreKept, RowsEnqueued, Orphans
<1>2. ASSUME NEW ops, NEW status, outbox' = SetStatus(ops, status), o \notin ops
      PROVE  outbox'[o] = outbox[o]
  BY <1>2 DEF SetStatus
<1>3. ASSUME NEW t \in Task, NEW new \in TaskFields, LocalWrite(t, new)
      PROVE  outbox'[o] = outbox[o]
  <2>1. o # nextOp + 1
    BY <1>1 DEF StoreTypeOK, OpId
  <2>2. o \notin OpsOf(t, {"pending"})
    BY DEF OpsOf
  <2>3. ASSUME NEW baseline, outbox' = Enqueued(t, new, baseline)
        PROVE  outbox'[o] = outbox[o]
    BY <2>1, <2>2, <2>3 DEF Enqueued
  <2>4. QED
    BY <1>3, <2>3 DEF LocalWrite, WriteLinkedTask, CreateLinkedTask, WriteLocalTask
<1>4. CASE RecoverOrphans
  BY <1>1, <1>2, <1>4 DEF RecoverOrphans, Recovered
<1>5. CASE ReplaceAllData
  <2>1. LocalSends[o] = outbox[o]
    BY DEF LocalSends, WithStatus
  <2>2. Recorded[o] # Absent
    BY <1>1, <2>1 DEF Recorded, Kept
  <2>3. quarantine'[o] # Absent
    BY <1>5, <2>2 DEF ReplaceAllData, Kept
  <2>4. epoch' > 0
    BY <1>5 DEF ReplaceAllData, StoreTypeOK
  <2>5. QED
    BY <2>3, <2>4
<1>6. CASE Fence /\ ~ReplaceAllData
  BY <1>6 DEF Fence, Pause, Resume, Disconnect, CredentialChanged, Reconnect,
     DeadlinePasses, PauseForRestore, Export, SetConn
<1>7. ASSUME NEW s \in Sender, Instance(s)
      PROVE  outbox'[o] = outbox[o]
  <2>1. CASE OpenStore(s)
    BY <1>1, <1>2, <2>1 DEF OpenStore, Recovered
  <2>2. CASE CloseStore(s)
    BY <1>2, <2>2 DEF CloseStore
  <2>3. CASE CrashStore(s)
    BY <2>3 DEF CrashStore
  <2>4. QED
    BY <1>7, <2>1, <2>2, <2>3 DEF Instance
<1>8. CASE UNCHANGED storeVars
  BY <1>8 DEF storeVars
<1>9. QED
  BY <1>3, <1>4, <1>5, <1>6, <1>7, <1>8 DEF Aside

(* What another process does is about another attempt. *)
LEMMA OthersTurn ==
  ASSUME SyncSafe, OpSafe, NEW s \in Sender, job[s] \in Job, s \in live,
         outbox[job[s].op].status = "sending",
         NEW r \in Sender \ {s}, NEW j \in JobState, Dispatched(r, j)
  PROVE  \/ outbox'[job[s].op].status = "sending"
         \/ epoch' > 0 /\ quarantine'[job[s].op] # Absent
<1> DEFINE o == job[s].op
<1> USE DEF SyncSafe, StoreSafe
<1>1. o \in OpId /\ outbox[o].owner = s
  BY DEF Job, OpSafe, RowsOwned, Owns
<1>2. ASSUME job[r] \in Job
      PROVE  job[r].op \in OpId /\ job[r].op # o
  BY <1>2, OneOwner DEF Job
<1> HIDE DEF o
<1>3. CASE Aside
  <2>1. live' = live
    BY TurnKeepsLive
  <2>2. QED
    BY <1>1, <1>3, <2>1, SendingStays DEF o
<1>4. ASSUME NEW p \in OpId, p # o,
             \/ Returns(p) \/ MarkUnknown(p) \/ \E fields : MergePreflight(p, fields)
             \/ \E copy, fields : Confirm(p, copy, fields)
      PROVE  outbox'[o].status = "sending"
  <2>1. outbox[o].status = "sending"
    BY DEF o
  <2>2. CASE Returns(p)
    BY <1>1, <1>4, <2>1, <2>2, ReturnRow
  <2>3. CASE MarkUnknown(p)
    BY <1>1, <1>4, <2>1, <2>3 DEF MarkUnknown, StoreTypeOK
  <2>4. CASE \E fields : MergePreflight(p, fields)
    BY <1>1, <1>4, <2>1, <2>4 DEF MergePreflight, StoreTypeOK
  <2>5. CASE \E copy, fields : Confirm(p, copy, fields)
    BY <1>1, <1>4, <2>1, <2>5 DEF Confirm, Settled, OpsOf
  <2>6. QED
    BY <1>4, <2>2, <2>3, <2>4, <2>5
<1>5. CASE Ended(r, j)
  <2>1. CASE UNCHANGED storeVars \/ RecoverOrphans
    BY <1>3, <2>1 DEF Aside
  <2>2. QED
    BY <1>2, <1>4, <1>5, <2>1 DEF Ended, o
<1>6. CASE Claimed(r, j)
  <2>1. PICK p \in OpId : MarkSending(p, r)
    BY <1>6 DEF Claimed
  <2>2. outbox[p].status = "pending" /\ \A q \in OpId \ {p} : outbox'[q] = outbox[q]
    BY <2>1, ClaimRow
  <2>3. QED
    BY <1>1, <2>2 DEF o
<1>7. CASE WentOn(r, j) \/ SentBy(r, j)
  BY <1>7 DEF WentOn, SentBy, storeVars
<1>8. CASE MergedInto(r, j)
  BY <1>2, <1>4, <1>8 DEF MergedInto, SameAttempt, o
<1>9. QED
  BY <1>5, <1>6, <1>7, <1>8 DEF Dispatched

LEMMA HeldStays ==
  ASSUME SyncSafe, OpSafe, [Next]_vars, NEW s \in Sender, job[s].pc = "send",
         job'[s] = job[s]
  PROVE  SendHeld(s)'
<1> USE DEF SyncSafe, StoreSafe
<1>1. job[s] \in Job /\ job[s].op \in OpId
  BY JobIsDispatch DEF Place, SyncTyped, Job
<1>0. PICK o \in OpId : o = job[s].op
  BY <1>1
<1>2. s \in live /\ s \in live'
  <2>1. InMemory'
    BY InMemoryStep
  <2>2. QED
    BY <2>1 DEF InMemory, Idle
<1>3. issued[o] = 0 /\ (outbox[o].status = "sending" => outbox[o].owner = s)
  BY <1>0, <1>1 DEF OpSafe, RowsOwned, SendHeld, Owns
<1>4. issued'[o] = 0
  <2>1. ASSUME NEW r \in Sender, NEW j \in JobState, Dispatched(r, j), SentBy(r, j)
        PROVE  issued'[o] = issued[o]
    <3>1. job'[r].pc = "readBack"
      BY <2>1 DEF Dispatched, SentBy, SyncTyped
    <3>2. r # s /\ job[r].pc = "send" /\ job[r].op \in OpId
      BY <2>1, <3>1 DEF SentBy, SameAttempt, Job
    <3>3. job[r].op # o
      BY <1>0, <3>2 DEF OpSafe, SendersApart
    <3>4. issued' = [issued EXCEPT ![job[r].op] = @ + 1]
      BY <2>1 DEF SentBy, Provider!Issue
    <3>5. QED
      BY <3>2, <3>3, <3>4 DEF SyncTyped
  <2>2. CASE ProviderStep
    BY <1>3, <2>2 DEF ProviderStep, Provider!ProviderNext, Provider!LandCreate,
       Provider!LandUpdate, Provider!Lose, Provider!RemoteEdit
  <2>3. CASE UNCHANGED notionVars
    BY <1>3, <2>3 DEF notionVars
  <2>4. QED
    BY <1>3, <2>1, <2>2, <2>3, StepCases
    DEF OtherStep, Dispatched, Ended, Claimed, WentOn, MergedInto
<1>5. CASE epoch > 0 /\ quarantine[o] # Absent
  <2>1. CASE ReplaceAllData
    <3>1. quarantine'[o] # Absent
      BY <1>5, <2>1 DEF ReplaceAllData, Kept, Recorded
    <3>2. epoch' > 0
      BY <2>1 DEF ReplaceAllData, StoreTypeOK
    <3>3. QED
      BY <1>0, <1>4, <3>1, <3>2 DEF SendHeld
  <2>2. CASE ~ReplaceAllData
    BY <1>0, <1>4, <1>5, <2>2, StepOfStore, QuarantineStays DEF SendHeld
  <2>3. QED
    BY <2>1, <2>2
<1>6. CASE outbox[o].status = "sending"
  <2>1. ASSUME NEW r \in Sender, NEW j \in JobState, Dispatched(r, j)
        PROVE  outbox'[o].status = "sending" \/ (epoch' > 0 /\ quarantine'[o] # Absent)
    <3>1. CASE r # s
      <4>1. r \in Sender \ {s} /\ outbox[job[s].op].status = "sending"
        BY <1>0, <1>6, <3>1
      <4>2. \/ outbox'[job[s].op].status = "sending"
            \/ epoch' > 0 /\ quarantine'[job[s].op] # Absent
        BY ONLY <4>1, <1>1, <1>2, <2>1, SyncSafe, OpSafe, s \in Sender, OthersTurn
      <4>3. QED
        BY <1>0, <4>2
    <3>2. CASE r = s
      <4>1. j = job[s] /\ j.pc = "send"
        BY <2>1, <3>2 DEF Dispatched, SyncTyped
      <4>2. ~Ended(r, j)
        BY <4>1 DEF Ended, Idle, Loops
      <4>5. ~Claimed(r, j)
        <5>1. \A p \in OpId, queue \in SUBSET OpId : Dispatching("preflight", queue, p).pc # "send"
          BY DEF Dispatching
        <5>2. QED
          BY <4>1, <5>1 DEF Claimed
      <4>3. ~MergedInto(r, j) /\ ~SentBy(r, j)
        BY <4>1 DEF MergedInto, TookMerge, SentBy
      <4>4. WentOn(r, j)
        BY <2>1, <4>2, <4>3, <4>5 DEF Dispatched
      <4>6. QED
        BY <1>6, <4>4 DEF WentOn, storeVars
    <3>3. QED
      BY <3>1, <3>2
  <2>2. ASSUME OtherStep
        PROVE  outbox'[o].status = "sending" \/ (epoch' > 0 /\ quarantine'[o] # Absent)
    <3>1. Aside
      BY <2>2 DEF OtherStep
    <3>2. QED
      BY <1>2, <1>3, <1>6, <3>1, SendingStays
  <2>3. ASSUME ProviderStep
        PROVE  outbox'[o].status = "sending"
    BY <1>6, <2>3 DEF ProviderStep, storeVars
  <2>4. outbox'[o].status = "sending" \/ (epoch' > 0 /\ quarantine'[o] # Absent)
    BY <2>1, <2>2, <2>3, StepCases
  <2>5. QED
    BY <1>0, <1>4, <2>4 DEF SendHeld
<1>7. QED
  BY <1>0, <1>5, <1>6 DEF OpSafe, SendHeld

(* A process whose attempt is under way is alone with its operation and    *)
(* with its task.                                                          *)
LEMMA AttemptAlone ==
  ASSUME SyncSafe, OpSafe, NEW s \in Sender, job[s] \in Job,
         outbox[job[s].op].status = "sending",
         NEW r \in Sender, job[r].pc = "send",
         job[s].op = job[r].op \/ job[s].task = job[r].task
  PROVE  r = s
<1> USE DEF SyncSafe, StoreSafe
<1>1. job[r] \in Job /\ job[r].op \in OpId /\ job[s].op \in OpId
  BY JobIsDispatch DEF Place, SyncTyped, Job
<1>2. NoQuarantine
  BY <1>1 DEF StoreKept, SendsAlone, InStatus
<1>3. outbox[job[r].op].status = "sending"
  BY <1>1, <1>2 DEF OpSafe, SendHeld, NoQuarantine
<1>4. outbox[job[r].op].task = job[r].task /\ outbox[job[s].op].task = job[s].task
  BY <1>1, <1>3 DEF OpSafe, RowsOwned, Owns, OpenWrite
<1>5. job[r].op = job[s].op
  BY <1>1, <1>3, <1>4 DEF SingleInFlight, InStatus
<1>6. QED
  BY <1>1, <1>5, OneOwner

LEMMA OpStep ==
  ASSUME SyncSafe, OpSafe, [Next]_vars
  PROVE  OpSafe'
<1>1. ASSUME NEW s \in Sender
      PROVE  SendHeld(s)'
  <2>1. CASE job'[s].pc # "send"
    BY <2>1 DEF SendHeld
  <2>2. CASE job'[s].pc = "send" /\ job'[s] = job[s]
    BY <2>2, HeldStays
  <2>3. CASE job'[s].pc = "send" /\ job'[s] # job[s]
    <3>1. /\ job[s] \in Job /\ job[s].pc = "gate" /\ CanDispatch(job[s].op)
          /\ job'[s].op = job[s].op /\ UNCHANGED storeVars /\ UNCHANGED notionVars
      BY <2>3, SendersCases
    <3>2. outbox[job[s].op].status = "sending"
      BY <3>1 DEF CanDispatch
    <3>3. issued[job[s].op] = 0
      BY <3>1, <3>2 DEF OpSafe, RowsOwned, Owns, Unsent
    <3>4. QED
      BY <3>1, <3>2, <3>3 DEF SendHeld, storeVars, notionVars
  <2>4. QED
    BY <2>1, <2>2, <2>3
<1>2. ASSUME NEW s \in Sender, NEW r \in Sender,
             job'[s].pc = "send", job'[r].pc = "send",
             job'[s].op = job'[r].op \/ job'[s].task = job'[r].task
      PROVE  s = r
  <2>1. ASSUME NEW q \in Sender, NEW u \in Sender, u # q,
               job'[q].pc = "send", job'[q] # job[q], job'[u].pc = "send",
               job'[q].op = job'[u].op \/ job'[q].task = job'[u].task
        PROVE  FALSE
    <3>1. /\ job[q] \in Job /\ CanDispatch(job[q].op) /\ job'[u] = job[u]
          /\ job'[q].op = job[q].op /\ job'[q].task = job[q].task
      BY <2>1, SendersCases
    <3>2. outbox[job[q].op].status = "sending"
      BY <3>1 DEF CanDispatch
    <3>3. QED
      BY <2>1, <3>1, <3>2, AttemptAlone
  <2>2. CASE job'[s] = job[s] /\ job'[r] = job[r]
    BY <1>2, <2>2 DEF OpSafe, SendersApart
  <2>3. QED
    BY <1>2, <2>1, <2>2
<1>3. RowsOwned'
  BY OwnStep
<1>4. SendersApart'
  BY <1>2 DEF SendersApart
<1>5. QED
  BY <1>1, <1>3, <1>4 DEF OpSafe

LEMMA OpInit == Init => OpSafe
<1> SUFFICES ASSUME Init
             PROVE  OpSafe
  OBVIOUS
<1>1. \A s \in Sender : job[s] \notin Job /\ job[s].pc # "send"
  BY DEF Init, Idle, Job, Place
<1>2. QED
  BY <1>1 DEF Init, Provider!ProviderInit, OpSafe, RowsOwned, IssuedOnce, SendHeld,
     SendersApart

LEMMA OpInductive == Spec => []OpSafe
<1>1. SyncSafe /\ OpSafe /\ [Next]_vars => OpSafe'
  BY OpStep
<1>2. QED
  BY <1>1, OpInit, SyncInductive, PTL DEF Spec

(* No operation is ever sent to Notion twice, however many processes claim *)
(* and recover it, whatever stops between claim, request and confirmation, *)
(* and whatever is restored (pauseNotionUnsent, supersedeNotionUnsent,     *)
(* recoverOrphanedNotionSends, markNotionOutboxSending, replaceAllData).   *)
THEOREM SentOnce == Spec => []NeverResent
<1>1. OpSafe => NeverResent
  BY DEF OpSafe, RowsOwned, IssuedOnce, NeverResent
<1>2. QED
  BY <1>1, OpInductive, PTL

----------------------------------------------------------------------------
(* Only a dispatcher puts a request on the wire, in the turn of its last   *)
(* check.                                                                  *)
LEMMA RequestSource ==
  ASSUME SyncSafe, [Next]_vars, NEW r \in wire' \ wire
  PROVE  \E s \in Sender : /\ job[s] \in Job /\ job[s].pc = "send" /\ job[s].op \in OpId
                           /\ r.op = job[s].op /\ r.task = job[s].task
<1> USE DEF SyncSafe, StoreSafe
<1>1. PICK s \in Sender, j \in JobState : SentBy(s, j)
  <2>1. CASE OtherStep
    BY <2>1 DEF OtherStep, notionVars
  <2>2. CASE ProviderStep
    BY <2>2 DEF ProviderStep, Provider!ProviderNext, Provider!LandCreate,
       Provider!LandUpdate, Provider!Lose, Provider!RemoteEdit
  <2>3. QED
    BY <2>1, <2>2, StepCases
    DEF Dispatched, Ended, Claimed, WentOn, MergedInto, notionVars
<1>2. r.op = job[s].op /\ r.task = job[s].task
  BY <1>1 DEF SentBy, Provider!Issue
<1>3. QED
  BY <1>1, <1>2 DEF SentBy, SameAttempt, Job

(* A send under way is the one open attempt of its task, of this dataset.  *)
LEMMA OneAttempt ==
  ASSUME SyncSafe, OpSafe, NEW s \in Sender, job[s] \in Job,
         NEW o \in OpId, o = job[s].op, outbox[o].status = "sending"
  PROVE  /\ outbox[o].epoch = epoch /\ NoQuarantine
         /\ OpsOf(job[s].task, {"sending", "unknown", "quarantined"}) = {o}
<1> USE DEF SyncSafe, StoreSafe
<1>1. outbox[o].task = job[s].task /\ outbox[o].epoch = epoch
  BY DEF OpSafe, RowsOwned, Owns, OpenWrite, LiveOpsCurrentEpoch, InStatus
<1>2. NoQuarantine /\ OpsOf(job[s].task, {"quarantined"}) = {}
  BY <1>1 DEF StoreKept, SendsAlone, InStatus
<1>3. OpsOf(job[s].task, {"sending", "unknown", "quarantined"}) = {o}
  BY <1>1, <1>2 DEF SingleInFlight, OpsOf, InStatus
<1>4. QED
  BY <1>1, <1>2, <1>3

LEMMA LateStep ==
  ASSUME SyncSafe, OpSafe, [Next]_vars, NEW r \in wire' \ wire
  PROVE  \/ quarantine[r.op] # Absent
         \/ /\ outbox[r.op].status = "sending" /\ outbox[r.op].epoch = epoch
            /\ OpsOf(r.task, {"sending", "unknown", "quarantined"}) = {r.op}
<1>1. PICK s \in Sender : /\ job[s] \in Job /\ job[s].pc = "send" /\ job[s].op \in OpId
                          /\ r.op = job[s].op /\ r.task = job[s].task
  BY RequestSource
<1>2. CASE outbox[r.op].status = "sending"
  BY <1>1, <1>2, OneAttempt
<1>3. QED
  BY <1>1, <1>2 DEF OpSafe, SendHeld

(* Whatever other processes commit between the last check of a send and    *)
(* its request, the request leaves for the one open attempt of its task,   *)
(* or for an operation in quarantine (canDispatchNotionOutbox, then        *)
(* createPage or updatePage; the quarantine of replaceAllData).            *)
THEOREM LateSendsAccounted == Spec => LateSendsHeld
<1>1. /\ SyncSafe /\ OpSafe /\ [Next]_vars
      => [\A r \in wire' \ wire :
            \/ quarantine[r.op] # Absent
            \/ /\ outbox[r.op].status = "sending" /\ outbox[r.op].epoch = epoch
               /\ OpsOf(r.task, {"sending", "unknown", "quarantined"}) = {r.op}]_vars
  BY LateStep
<1>2. QED
  BY <1>1, SyncInductive, OpInductive, PTL DEF Spec, LateSendsHeld

(* The values a linked task and its page are known to have shared are the  *)
(* values of the task, or an intent that says otherwise is recorded:       *)
(* commands, merges, confirmations, recoveries and restores drop no local  *)
(* change (enqueueLinkedIntent, rebaseNotionPreflight, confirmNotionOutbox, *)
(* replaceAllData).                                                        *)
THEOREM NothingLost == Spec => []TaskSyncedOrOwed
<1>1. SyncSafe => TaskSyncedOrOwed
  BY DEF SyncSafe, StoreKept, Owed, Owes, TaskSyncedOrOwed, OpsOf
<1>2. QED
  BY <1>1, SyncInductive, PTL

----------------------------------------------------------------------------
(* At most one page of a task.  The pages that exist and the creates still *)
(* on the wire are held together: while a task has neither, anything may   *)
(* happen; from its first create on, something the store never forgets     *)
(* keeps the next one from being claimed.                                  *)

Creates(t) == {r \in wire : r.task = t /\ r.copy = NoCopy}

(* A page that anyone names exists. *)
OnPage(t, copy) == copy = NoCopy \/ copy \in Provider!Pages(t)

PagesKnown ==
  /\ remote \in [Task -> [Copy -> TaskFields \cup {NoFields}]]
  /\ \A t \in Task : OnPage(t, mapping[t].copy) /\ OnPage(t, backup.mapping[t].copy)
  /\ \A s \in Sender : job[s] \in Job => OnPage(job[s].task, job[s].copy)
  /\ \A r \in wire : OnPage(r.task, r.copy)

(* A linked task, here or in the backup, was created with a fresh identifier. *)
Minted ==
  \A t \in Task : mapping[t].state # "none" \/ backup.mapping[t].state # "none"
                    => t \in minted

(* An attempt that may have sent its request, as far as the store knows or *)
(* as it happened.                                                         *)
Attempted(o) ==
  \/ outbox[o].status \in {"unknown", "quarantined"}
  \/ outbox[o].status = "sending" /\ issued[o] = 1

(* What keeps a create of this task from being claimed. *)
Barred(t) ==
  \/ mapping[t].copy # NoCopy
  \/ mapping[t].state = "none"
  \/ ~NoQuarantine
  \/ \E o \in OpId : Attempted(o) /\ outbox[o].task = t

CreatesBarred ==
  \A t \in Task :
    Provider!Pages(t) # {} \/ Creates(t) # {} => t \in minted /\ Barred(t)

OneBirth ==
  \A t \in Task :
    /\ Provider!Pages(t) = {} \/ Creates(t) = {}
    /\ \A c, d \in Provider!Pages(t) : c = d
    /\ \A q, r \in Creates(t) : q = r

(* A process about to send a create has the only one of its task. *)
CreatesFirst ==
  \A s \in Sender :
    job[s].pc = "send" /\ job[s].copy = NoCopy =>
      /\ job[s].task \in minted
      /\ Provider!Pages(job[s].task) = {} /\ Creates(job[s].task) = {}

PageSafe == PagesKnown /\ Minted /\ CreatesBarred /\ OneBirth /\ CreatesFirst

(* What Notion makes of the pages of a task: edits leave them, and a       *)
(* create that arrives is one request less.                                *)
Arrived(t) ==
  \/ Provider!Pages(t)' = Provider!Pages(t) /\ Creates(t)' \subseteq Creates(t)
  \/ \E r \in Creates(t), c \in Copy :
       /\ Provider!Pages(t)' = Provider!Pages(t) \cup {c}
       /\ Creates(t)' = Creates(t) \ {r}

LEMMA PageWritten ==
  ASSUME PagesKnown, NEW u \in Task, NEW c \in Copy, NEW fields \in TaskFields,
         remote' = [remote EXCEPT ![u][c] = fields]
  PROVE  /\ remote' \in [Task -> [Copy -> TaskFields \cup {NoFields}]]
         /\ Provider!Pages(u)' = Provider!Pages(u) \cup {c}
         /\ \A t \in Task \ {u} : Provider!Pages(t)' = Provider!Pages(t)
<1>1. fields # NoFields
  BY NoFieldsAssumption
<1>2. /\ remote'[u] = [remote[u] EXCEPT ![c] = fields]
      /\ \A t \in Task \ {u} : remote'[t] = remote[t]
  BY DEF PagesKnown
<1>3. remote' \in [Task -> [Copy -> TaskFields \cup {NoFields}]]
  BY DEF PagesKnown
<1>4. remote'[u][c] = fields /\ \A d \in Copy \ {c} : remote'[u][d] = remote[u][d]
  BY <1>2 DEF PagesKnown
<1>5. QED
  BY <1>1, <1>2, <1>3, <1>4 DEF Provider!Pages

LEMMA ProviderPages ==
  ASSUME SyncTyped, PagesKnown, ProviderStep
  PROVE  /\ remote' \in [Task -> [Copy -> TaskFields \cup {NoFields}]]
         /\ wire' \subseteq wire
         /\ \A t \in Task : Arrived(t)
<1>1. ASSUME NEW r \in wire, NEW c \in Copy, Provider!LandCreate(r, c)
      PROVE  /\ remote' \in [Task -> [Copy -> TaskFields \cup {NoFields}]]
             /\ \A t \in Task : Arrived(t)
  <2>1. /\ r.task \in Task /\ r.fields \in TaskFields /\ r.copy = NoCopy
        /\ remote' = [remote EXCEPT ![r.task][c] = r.fields]
        /\ wire' = wire \ {r}
    BY <1>1 DEF SyncTyped, Request, Provider!LandCreate
  <2>2. Creates(r.task)' = Creates(r.task) \ {r} /\ r \in Creates(r.task)
    BY <2>1 DEF Creates
  <2>3. \A t \in Task \ {r.task} : Creates(t)' \subseteq Creates(t)
    BY <2>1 DEF Creates
  <2>4. PICK u, fields : u = r.task /\ fields = r.fields
    OBVIOUS
  <2>5. QED
    BY <2>1, <2>2, <2>3, <2>4, PageWritten DEF Arrived
<1>2. ASSUME NEW r \in wire, Provider!LandUpdate(r)
      PROVE  /\ remote' \in [Task -> [Copy -> TaskFields \cup {NoFields}]]
             /\ \A t \in Task : Arrived(t)
  <2> DEFINE old == remote[r.task][r.copy]
             new == [f \in Field |-> IF f \in r.only THEN r.fields[f] ELSE old[f]]
  <2>1. /\ r.task \in Task /\ r.fields \in TaskFields /\ r.copy \in Copy
        /\ wire' = wire \ {r}
    BY <1>2 DEF SyncTyped, Request, Provider!LandUpdate
  <2>2. remote' = [remote EXCEPT ![r.task][r.copy] = new]
    BY <1>2 DEF Provider!LandUpdate
  <2>3. r.copy \in Provider!Pages(r.task)
    BY <2>1, NoCopyAssumption DEF PagesKnown, OnPage
  <2>4. old \in TaskFields
    BY <2>1, <2>3 DEF PagesKnown, Provider!Pages
  <2>5. new \in TaskFields
    BY <2>1, <2>4 DEF TaskFields
  <2> HIDE DEF new
  <2>6. PICK u, c, fields : u = r.task /\ c = r.copy /\ fields = new
    OBVIOUS
  <2>7. \A t \in Task : Creates(t)' \subseteq Creates(t)
    BY <2>1 DEF Creates
  <2>8. /\ remote' \in [Task -> [Copy -> TaskFields \cup {NoFields}]]
        /\ Provider!Pages(u)' = Provider!Pages(u) \cup {c}
        /\ \A t \in Task \ {u} : Provider!Pages(t)' = Provider!Pages(t)
    BY <2>1, <2>2, <2>5, <2>6, PageWritten
  <2>9. Provider!Pages(u)' = Provider!Pages(u)
    BY <2>3, <2>6, <2>8
  <2>10. QED
    BY <2>7, <2>8, <2>9 DEF Arrived
<1>3. ASSUME NEW u \in Task, NEW c \in Copy, NEW new \in TaskFields,
             Provider!RemoteEdit(u, c, new)
      PROVE  /\ remote' \in [Task -> [Copy -> TaskFields \cup {NoFields}]]
             /\ \A t \in Task : Arrived(t)
  <2>1. /\ c \in Provider!Pages(u) /\ wire' = wire
        /\ remote' = [remote EXCEPT ![u][c] = new]
    BY <1>3 DEF Provider!RemoteEdit
  <2>2. \A t \in Task : Creates(t)' = Creates(t)
    BY <2>1 DEF Creates
  <2>3. /\ remote' \in [Task -> [Copy -> TaskFields \cup {NoFields}]]
        /\ Provider!Pages(u)' = Provider!Pages(u) \cup {c}
        /\ \A t \in Task \ {u} : Provider!Pages(t)' = Provider!Pages(t)
    BY <2>1, PageWritten
  <2>4. Provider!Pages(u)' = Provider!Pages(u)
    BY <2>1, <2>3
  <2>5. QED
    BY <2>2, <2>3, <2>4 DEF Arrived
<1>4. ASSUME NEW r \in wire, Provider!Lose(r)
      PROVE  /\ remote' \in [Task -> [Copy -> TaskFields \cup {NoFields}]]
             /\ \A t \in Task : Arrived(t)
  BY <1>4 DEF Provider!Lose, PagesKnown, Arrived, Creates, Provider!Pages
<1>5. wire' \subseteq wire
  BY DEF ProviderStep, Provider!ProviderNext, Provider!LandCreate, Provider!LandUpdate,
     Provider!Lose, Provider!RemoteEdit
<1>6. Provider!ProviderNext
  BY DEF ProviderStep
<1>7. /\ remote' \in [Task -> [Copy -> TaskFields \cup {NoFields}]]
      /\ \A t \in Task : Arrived(t)
  <2>1. CASE \E r \in wire : \/ \E c \in Copy : Provider!LandCreate(r, c)
                            \/ Provider!LandUpdate(r)
                            \/ Provider!Lose(r)
    BY <1>1, <1>2, <1>4, <2>1
  <2>2. CASE \E u \in Task, c \in Copy, new \in TaskFields : Provider!RemoteEdit(u, c, new)
    BY <1>3, <2>2
  <2>3. QED
    BY <1>6, <2>1, <2>2 DEF Provider!ProviderNext, Provider!TaskFields, TaskFields
<1>8. QED
  BY <1>5, <1>7

----------------------------------------------------------------------------
(* Links are made by a command, for a fresh identifier, or by a restore.   *)

LEMMA MergeLinks ==
  ASSUME StoreTypeOK, NEW o \in OpId, NEW fields \in TaskFields, MergePreflight(o, fields)
  PROVE  \A t \in Task :
           mapping'[t].state = mapping[t].state /\ mapping'[t].copy = mapping[t].copy
<1>1. mapping' = [mapping EXCEPT ![outbox[o].task].baseline = fields]
  BY DEF MergePreflight
<1>2. ASSUME NEW t \in Task
      PROVE  mapping'[t].state = mapping[t].state /\ mapping'[t].copy = mapping[t].copy
  <2>1. mapping[t] \in Mapping
    BY DEF StoreTypeOK
  <2>2. mapping'[t] = mapping[t] \/ mapping'[t] = [mapping[t] EXCEPT !.baseline = fields]
    BY <1>1 DEF StoreTypeOK
  <2>3. QED
    BY <2>1, <2>2 DEF Mapping
<1>3. QED
  BY <1>2

LEMMA ConfirmLinks ==
  ASSUME StoreTypeOK, NEW o \in OpId, NEW copy \in Copy, NEW fields \in TaskFields,
         Confirm(o, copy, fields)
  PROVE  \A t \in Task :
           IF t = outbox[o].task
             THEN mapping[t].state # "none" /\ mapping'[t].copy = copy
             ELSE mapping'[t] = mapping[t]
  BY DEF Confirm, Confirmable, StoreTypeOK

(* What a dispatcher does to the links. *)
LEMMA DispatchLinks ==
  ASSUME StoreTypeOK, SyncTyped, NEW s \in Sender, NEW j, Dispatched(s, j)
  PROVE  \/ \A t \in Task :
              mapping'[t].state = mapping[t].state /\ mapping'[t].copy = mapping[t].copy
         \/ /\ job[s] \in Job /\ job[s].copy \in Copy /\ job[s].seen \in TaskFields
            /\ Confirm(job[s].op, job[s].copy, job[s].seen)
<1>1. ASSUME job[s] \in Job
      PROVE  job[s].op \in OpId /\ ReadFirst(job[s])
  BY <1>1 DEF Job, SyncTyped
<1>2. CASE Ended(s, j)
  <2>1. \/ mapping' = mapping
        \/ /\ job[s] \in Job /\ job[s].pc = "confirm"
           /\ Confirm(job[s].op, job[s].copy, job[s].seen)
    BY <1>2 DEF Ended, storeVars, RecoverOrphans, Returns, SupersedeUnsent, PauseUnsent,
       DeferUnsent, MarkUnknown
  <2>2. QED
    BY <1>1, <2>1 DEF ReadFirst
<1>3. CASE MergedInto(s, j)
  BY <1>1, <1>3, MergeLinks DEF MergedInto, SameAttempt, ReadFirst
<1>4. CASE Claimed(s, j) \/ WentOn(s, j) \/ SentBy(s, j)
  BY <1>4 DEF Claimed, WentOn, SentBy, storeVars, MarkSending
<1>5. QED
  BY <1>2, <1>3, <1>4 DEF Dispatched

LEMMA LinksBorn ==
  ASSUME StoreTypeOK, SyncTyped, [Next]_vars
  PROVE  /\ minted \subseteq minted'
         /\ \/ ReplaceAllData
            \/ \A t \in Task : mapping[t].state = "none" =>
                 mapping'[t].state = "none" \/ (t \notin minted /\ t \in minted')
<1> DEFINE Born == \A t \in Task : mapping[t].state = "none" =>
                     mapping'[t].state = "none" \/ (t \notin minted /\ t \in minted')
<1>1. CASE UNCHANGED vars
  BY <1>1 DEF vars, dispatchVars, storeVars, plannerVars
<1>2. CASE FenceStep
  BY <1>2 DEF FenceStep, plannerVars, Pause, Resume, Disconnect, CredentialChanged,
     Reconnect, DeadlinePasses, SetConn
<1>3. CASE NotionStep
  BY <1>3 DEF NotionStep, ProviderStep, plannerVars, storeVars
<1>4. ASSUME NEW s \in Sender, DispatchStep(s)
      PROVE  minted' = minted /\ Born
  <2>1. minted' = minted
    BY <1>4 DEF DispatchStep
  <2>2. PICK j \in JobState : Dispatched(s, j)
    BY <1>4, DispatchCases DEF DispatchStep
  <2>3. CASE Confirm(job[s].op, job[s].copy, job[s].seen) /\ job[s].copy \in Copy
               /\ job[s] \in Job /\ job[s].seen \in TaskFields
    <3>1. job[s].op \in OpId
      BY <2>3 DEF Job
    <3>2. PICK o \in OpId, copy \in Copy, fields \in TaskFields :
            o = job[s].op /\ copy = job[s].copy /\ fields = job[s].seen
      BY <2>3, <3>1
    <3>3. QED
      BY <2>1, <2>3, <3>2, ConfirmLinks
  <2>4. QED
    BY <2>1, <2>2, <2>3, DispatchLinks
<1>5. ASSUME NEW s \in Sender, NEW t \in Task, NEW new \in TaskFields, EditTask(s, t, new)
      PROVE  minted' = minted /\ mapping' = mapping
  BY <1>5 DEF EditTask, WriteLinkedTask
<1>6. ASSUME NEW s \in Sender, NEW t \in Task, NEW new \in TaskFields, CreateTask(s, t, new)
      PROVE  minted \subseteq minted' /\ Born
  BY <1>6 DEF CreateTask, CreateLinkedTask, StoreTypeOK
<1>7. ASSUME NEW s \in Sender, UndoEdit(s)
      PROVE  minted' = minted /\ mapping' = mapping
  BY <1>7 DEF UndoEdit, WriteLinkedTask, WriteLocalTask, storeVars
<1>8. ASSUME NEW s \in Sender, RestoreStep(s)
      PROVE  minted' = minted /\ (mapping' = mapping \/ ReplaceAllData)
  BY <1>8 DEF RestoreStep, ExportBackup, StartRestore, FinishRestore, RestoreFails, Export,
     PauseForRestore, SetConn, storeVars, plannerVars
<1>9. ASSUME NEW s \in Sender, ReconcileStep(s) \/ Open(s) \/ Stop(s)
      PROVE  minted' = minted /\ mapping' = mapping
  BY <1>9 DEF ReconcileStep, Reconcile, Open, Stop, OpenStore, CloseStore, CrashStore,
     storeVars, plannerVars
<1>10. QED
  BY <1>1, <1>2, <1>3, <1>4, <1>5, <1>6, <1>7, <1>8, <1>9 DEF Next, PlannerStep

----------------------------------------------------------------------------
(* Every page that a link, the backup, a process or a request names exists. *)

LEMMA NotionCases ==
  ASSUME StoreTypeOK, SyncTyped, PagesKnown, [Next]_vars
  PROVE  /\ remote' \in [Task -> [Copy -> TaskFields \cup {NoFields}]]
         /\ \/ wire' \subseteq wire /\ \A t \in Task : Arrived(t)
            \/ /\ remote' = remote
               /\ \E s \in Sender, j \in JobState, r \in Request :
                    /\ SentBy(s, j) /\ job' = [job EXCEPT ![s] = j]
                    /\ wire' = wire \cup {r}
                    /\ r.op = job[s].op /\ r.task = job[s].task /\ r.copy = job[s].copy
<1>1. CASE UNCHANGED notionVars
  BY <1>1 DEF notionVars, PagesKnown, Arrived, Creates, Provider!Pages
<1>2. ASSUME NEW s \in Sender, NEW j \in JobState, SentBy(s, j)
      PROVE  /\ remote' = remote
             /\ \E r \in Request :
                  /\ wire' = wire \cup {r}
                  /\ r.op = job[s].op /\ r.task = job[s].task /\ r.copy = job[s].copy
  BY <1>2 DEF SentBy, Provider!Issue
<1>3. CASE ProviderStep
  BY <1>3, ProviderPages
<1>4. ASSUME NEW s \in Sender, NEW j \in JobState, Dispatched(s, j), ~SentBy(s, j)
      PROVE  UNCHANGED notionVars
  BY <1>4 DEF Dispatched, Ended, Claimed, WentOn, MergedInto
<1>5. QED
  <2>1. CASE \E s \in Sender, j \in JobState : SentBy(s, j) /\ Dispatched(s, j)
    <3>1. remote' = remote
      BY <1>2, <2>1
    <3>2. QED
      BY <1>2, <2>1, <3>1 DEF PagesKnown, Dispatched
  <2>2. CASE ~\E s \in Sender, j \in JobState : SentBy(s, j) /\ Dispatched(s, j)
    BY <1>1, <1>3, <1>4, <2>2, StepCases DEF OtherStep
  <2>3. QED
    BY <2>1, <2>2

LEMMA PagesStay ==
  ASSUME StoreTypeOK, SyncTyped, PagesKnown, [Next]_vars,
         NEW t \in Task, NEW copy, OnPage(t, copy)
  PROVE  OnPage(t, copy)'
<1>1. CASE Arrived(t)
  BY <1>1 DEF Arrived, OnPage
<1>2. CASE remote' = remote
  BY <1>2 DEF OnPage, Provider!Pages
<1>3. QED
  BY <1>1, <1>2, NotionCases

(* The links come from links, from the backup or from a page just read. *)
LEMMA LinkSources ==
  ASSUME SyncSafe, OpSafe, PagesKnown, [Next]_vars, NEW t \in Task
  PROVE  OnPage(t, mapping'[t].copy) /\ OnPage(t, backup'.mapping[t].copy)
<1> USE DEF SyncSafe, StoreSafe
<1>1. ASSUME NEW s \in Sender, NEW j, Dispatched(s, j)
      PROVE  OnPage(t, mapping'[t].copy)
  <2>1. CASE /\ job[s] \in Job /\ job[s].copy \in Copy /\ job[s].seen \in TaskFields
             /\ Confirm(job[s].op, job[s].copy, job[s].seen)
    <3>1. job[s].op \in OpId /\ outbox[job[s].op].status \in OpenWrite
      BY <2>1 DEF Job, Confirm, Confirmable, OpenWrite
    <3>2. outbox[job[s].op].task = job[s].task
      BY <2>1, <3>1 DEF OpSafe, RowsOwned, Owns
    <3>3. PICK o \in OpId, copy \in Copy, fields \in TaskFields :
            o = job[s].op /\ copy = job[s].copy /\ fields = job[s].seen
      BY <2>1, <3>1
    <3>4. IF t = job[s].task THEN mapping'[t].copy = job[s].copy
                             ELSE mapping'[t] = mapping[t]
      BY <2>1, <3>2, <3>3, ConfirmLinks
    <3>5. QED
      BY <2>1, <3>4 DEF PagesKnown
  <2>2. CASE mapping'[t].copy = mapping[t].copy
    BY <2>2 DEF PagesKnown
  <2>3. QED
    BY <1>1, <2>1, <2>2, DispatchLinks
<1>2. ASSUME NEW s \in Sender, NEW j, Dispatched(s, j)
      PROVE  backup' = backup
  BY <1>2 DEF Dispatched, Ended, Claimed, WentOn, MergedInto, SentBy, storeVars,
     RecoverOrphans, Returns, SupersedeUnsent, PauseUnsent, DeferUnsent, MarkUnknown,
     Confirm, MergePreflight, MarkSending
<1>3. CASE UNCHANGED storeVars
  BY <1>3 DEF storeVars, PagesKnown
<1>4. ASSUME NEW u \in Task, NEW new \in TaskFields, LocalWrite(u, new)
      PROVE  OnPage(t, mapping'[t].copy) /\ backup' = backup
  <2>1. backup' = backup
    BY <1>4 DEF LocalWrite, WriteLinkedTask, CreateLinkedTask, WriteLocalTask
  <2>2. mapping'[t] = mapping[t] \/ mapping'[t].copy = NoCopy
    BY <1>4 DEF LocalWrite, WriteLinkedTask, CreateLinkedTask, WriteLocalTask,
       StoreTypeOK, Unlinked
  <2>3. QED
    BY <2>1, <2>2 DEF PagesKnown, OnPage
<1>5. CASE RecoverOrphans \/ \E s \in Sender : Instance(s)
  BY <1>5 DEF RecoverOrphans, Instance, OpenStore, CloseStore, CrashStore, PagesKnown
<1>6. CASE Fence
  BY <1>6 DEF Fence, Pause, Resume, Disconnect, CredentialChanged, Reconnect,
     DeadlinePasses, PauseForRestore, Export, SetConn, ReplaceAllData, PagesKnown
<1>7. CASE OtherStep
  BY <1>3, <1>4, <1>5, <1>6, <1>7 DEF OtherStep, Aside, PagesKnown
<1>8. QED
  BY <1>1, <1>2, <1>3, <1>7, StepCases DEF PagesKnown, ProviderStep

LEMMA JobSources ==
  ASSUME SyncSafe, PagesKnown, [Next]_vars, NEW s \in Sender, NEW j, j = job'[s], j \in Job
  PROVE  OnPage(j.task, j.copy)
<1> USE DEF SyncSafe, StoreSafe
<1>1. CASE j = job[s]
  BY <1>1 DEF PagesKnown
<1>2. CASE SameAttempt(s, j)
  BY <1>2 DEF SameAttempt, PagesKnown, OnPage
<1>3. ASSUME NEW o \in OpId, NEW pc \in Place, NEW queue \in SUBSET OpId,
             outbox[o].status \in OpStatus, j = Dispatching(pc, queue, o)
      PROVE  OnPage(j.task, j.copy)
  <2>1. outbox[o] \in Operation
    BY <1>3, RowIsOperation DEF StoreTypeOK
  <2>2. outbox[o].task \in Task /\ j.task = outbox[o].task
        /\ j.copy = mapping[outbox[o].task].copy
    BY <1>3, <2>1 DEF Operation, Dispatching
  <2>3. QED
    BY <2>2 DEF PagesKnown
<1>4. CASE Claimed(s, j) \/ Reconciled(s, j)
  <2>1. \E o \in OpId, pc \in Place, queue \in SUBSET OpId :
          outbox[o].status \in {"pending", "unknown"} /\ j = Dispatching(pc, queue, o)
    BY <1>4 DEF Claimed, Reconciled, MarkSending, Claimable, Place
  <2>2. QED
    BY <1>3, <2>1 DEF OpStatus
<1>5. j = job[s] \/ SameAttempt(s, j) \/ Claimed(s, j) \/ Reconciled(s, j)
  <2>1. Idle \notin Job /\ \A k \in Loops : k \notin Job
    BY DEF Idle, Loops, Job, Place
  <2>2. QED
    BY <2>1, StepCases DEF Dispatched, Ended, WentOn, MergedInto, SentBy, OtherStep, Replaced,
       LetPass,
       ProviderStep, SyncTyped
<1>6. QED
  BY <1>1, <1>2, <1>4, <1>5

LEMMA PagesKnownStep ==
  ASSUME SyncSafe, OpSafe, PagesKnown, [Next]_vars
  PROVE  PagesKnown'
<1> USE DEF SyncSafe, StoreSafe
<1>1. remote' \in [Task -> [Copy -> TaskFields \cup {NoFields}]]
  BY NotionCases
<1>2. \A t \in Task : OnPage(t, mapping[t].copy)' /\ OnPage(t, backup.mapping[t].copy)'
  <2> SUFFICES ASSUME NEW t \in Task
               PROVE  OnPage(t, mapping[t].copy)' /\ OnPage(t, backup.mapping[t].copy)'
    OBVIOUS
  <2>1. PICK a, b : a = mapping'[t].copy /\ b = backup'.mapping[t].copy
    OBVIOUS
  <2>2. OnPage(t, a)' /\ OnPage(t, b)'
    BY <2>1, LinkSources, PagesStay
  <2>3. QED
    BY <2>1, <2>2 DEF OnPage
<1>3. \A s \in Sender : job'[s] \in Job => OnPage(job[s].task, job[s].copy)'
  <2> SUFFICES ASSUME NEW s \in Sender, job'[s] \in Job
               PROVE  OnPage(job[s].task, job[s].copy)'
    OBVIOUS
  <2>1. PICK j : j = job'[s]
    OBVIOUS
  <2>2. j \in Job /\ j.task \in Task
    BY <2>1 DEF Job
  <2>3. OnPage(j.task, j.copy)'
    BY <2>1, <2>2, JobSources, PagesStay
  <2>4. QED
    BY <2>1, <2>3 DEF OnPage
<1>4. \A r \in wire' : OnPage(r.task, r.copy)'
  <2> SUFFICES ASSUME NEW r \in wire'
               PROVE  OnPage(r.task, r.copy)'
    OBVIOUS
  <2>1. r \in Request
    BY WireTyped
  <2>2. OnPage(r.task, r.copy)
    BY NotionCases DEF PagesKnown, SentBy, SameAttempt
  <2>3. r.task \in Task
    BY <2>1 DEF Request
  <2>4. QED
    BY <2>2, <2>3, PagesStay
<1>5. QED
  BY <1>1, <1>2, <1>3, <1>4 DEF PagesKnown

----------------------------------------------------------------------------
(* Attempts that may have sent something stay on record, but for those in  *)
(* gone.                                                                   *)
Stand(rows, gone) ==
  \A o \in OpId \ gone :
    outbox[o].status \in {"sending", "unknown", "quarantined"} =>
      /\ rows[o].task = outbox[o].task
      /\ rows[o].status \in {outbox[o].status, "unknown"}

LEMMA EnqueuedStand ==
  ASSUME StoreTypeOK, RowsEnqueued, NEW t, NEW desired, NEW baseline,
         outbox' = Enqueued(t, desired, baseline)
  PROVE  Stand(outbox', {})
  BY DEF Stand, Enqueued, OpsOf, RowsEnqueued, Absent, StoreTypeOK, OpId

LEMMA UnknownStand ==
  ASSUME StoreTypeOK, NEW ops \in SUBSET OpId, outbox' = SetStatus(ops, "unknown")
  PROVE  Stand(outbox', {})
<1> SUFFICES ASSUME NEW o \in OpId, outbox[o].status \in {"sending", "unknown", "quarantined"}
             PROVE  /\ outbox'[o].task = outbox[o].task
                    /\ outbox'[o].status \in {outbox[o].status, "unknown"}
  BY DEF Stand
<1>1. outbox[o] \in Operation
  BY RowIsOperation DEF StoreTypeOK, OpStatus
<1>2. outbox'[o] = [outbox[o] EXCEPT !.status = "unknown"] \/ outbox'[o] = outbox[o]
  BY DEF SetStatus
<1>3. QED
  BY <1>1, <1>2 DEF Operation

LEMMA RowStand ==
  ASSUME NEW o, \A p \in OpId \ {o} : outbox'[p] = outbox[p]
  PROVE  Stand(outbox', {o})
  BY DEF Stand

LEMMA AsideStand ==
  ASSUME StoreTypeOK, RowsEnqueued, Aside
  PROVE  ReplaceAllData \/ Stand(outbox', {})
<1>1. ASSUME outbox' = outbox
      PROVE  Stand(outbox', {})
  BY <1>1 DEF Stand
<1>2. ASSUME NEW t \in Task, NEW new \in TaskFields, LocalWrite(t, new)
      PROVE  Stand(outbox', {})
  <2>1. ASSUME NEW baseline, outbox' = Enqueued(t, new, baseline)
        PROVE  Stand(outbox', {})
    BY <2>1, EnqueuedStand
  <2>2. PICK old : old = mapping[t].baseline
    OBVIOUS
  <2>3. outbox' = Enqueued(t, new, old) \/ outbox' = Enqueued(t, new, NoFields)
          \/ outbox' = outbox
    BY <1>2, <2>2 DEF LocalWrite, WriteLinkedTask, CreateLinkedTask, WriteLocalTask
  <2>4. QED
    BY <1>1, <2>1, <2>3
<1>3. ASSUME NEW ops \in SUBSET OpId, outbox' = SetStatus(ops, "unknown")
      PROVE  Stand(outbox', {})
  BY <1>3, UnknownStand
<1>4. ASSUME outbox' = Recovered
      PROVE  Stand(outbox', {})
  <2>1. PICK ops : ops = Orphans
    OBVIOUS
  <2>2. ops \in SUBSET OpId /\ outbox' = SetStatus(ops, "unknown")
    BY <1>4, <2>1 DEF Recovered, Orphans, InStatus
  <2>3. QED
    BY <1>3, <2>2
<1>5. ASSUME NEW s \in Sender, CloseStore(s)
      PROVE  Stand(outbox', {})
  <2> DEFINE left == {o \in InStatus({"sending"}) : outbox[o].owner \notin live \ {s}}
  <2>1. PICK ops : ops = left
    OBVIOUS
  <2>2. ops \in SUBSET OpId /\ outbox' = SetStatus(ops, "unknown")
    BY <1>5, <2>1 DEF CloseStore, InStatus
  <2>3. QED
    BY <1>3, <2>2
<1>6. ASSUME NEW s \in Sender, Instance(s)
      PROVE  Stand(outbox', {})
  BY <1>1, <1>4, <1>5, <1>6 DEF Instance, OpenStore, CrashStore
<1>7. ASSUME RecoverOrphans
      PROVE  Stand(outbox', {})
  BY <1>4, <1>7 DEF RecoverOrphans
<1>8. ASSUME Fence, ~ReplaceAllData
      PROVE  Stand(outbox', {})
  BY <1>1, <1>8 DEF Fence, Pause, Resume, Disconnect, CredentialChanged, Reconnect,
     DeadlinePasses, PauseForRestore, Export, SetConn
<1>9. ASSUME UNCHANGED storeVars
      PROVE  Stand(outbox', {})
  BY <1>1, <1>9 DEF storeVars
<1>10. QED
  BY <1>2, <1>6, <1>7, <1>8, <1>9 DEF Aside

(* An attempt is forgotten only unsent, or with its page on record. *)
LEMMA StandCases ==
  ASSUME SyncSafe, OpSafe, [Next]_vars
  PROVE  \/ ReplaceAllData
         \/ Stand(outbox', {})
         \/ \E o \in OpId :
              /\ Stand(outbox', {o})
              /\ \/ outbox[o].status = "sending" /\ issued[o] = 0
                 \/ mapping'[outbox[o].task].copy # NoCopy
<1> USE DEF SyncSafe, StoreSafe, StoreKept
<1>1. ASSUME NEW o \in OpId, \A p \in OpId \ {o} : outbox'[p] = outbox[p],
             outbox[o].status \in {"sending", "pending"},
             outbox'[o].status \in {"sending", "unknown"}, outbox'[o].task = outbox[o].task
      PROVE  Stand(outbox', {})
  BY <1>1 DEF Stand
<1>2. ASSUME NEW s \in Sender, NEW j, Ended(s, j)
      PROVE  \/ Stand(outbox', {})
             \/ \E o \in OpId :
                  /\ Stand(outbox', {o})
                  /\ \/ outbox[o].status = "sending" /\ issued[o] = 0
                     \/ mapping'[outbox[o].task].copy # NoCopy
  <2>1. CASE job[s] \in Job /\ job[s].pc \in Unsent /\ Returns(job[s].op)
    <3>1. PICK o : o = job[s].op
      OBVIOUS
    <3>2. o \in OpId /\ Returns(o)
      BY <2>1, <3>1 DEF Job
    <3>3. outbox[o].status = "sending"
      BY <3>2 DEF Returns, SupersedeUnsent, PauseUnsent, MayPauseUnsent, DeferUnsent, MayDefer
    <3>4. issued[o] = 0
      BY <2>1, <3>1, <3>3 DEF OpSafe, RowsOwned, Owns
    <3>5. \/ outbox' = [outbox EXCEPT ![o].status = "superseded"]
          \/ outbox' = [outbox EXCEPT ![o].status = "pending", ![o].owner = NoSender]
      BY <3>2 DEF Returns, SupersedeUnsent, PauseUnsent, DeferUnsent, ReturnUnsent
    <3>6. \A p \in OpId \ {o} : outbox'[p] = outbox[p]
      BY <3>2, <3>5 DEF StoreTypeOK
    <3>7. QED
      BY <3>2, <3>3, <3>4, <3>6, RowStand
  <2>2. CASE job[s] \in Job /\ MarkUnknown(job[s].op)
    <3>1. PICK o : o = job[s].op
      OBVIOUS
    <3>2. o \in OpId /\ MarkUnknown(o)
      BY <2>2, <3>1 DEF Job
    <3>3. outbox[o].status = "sending" /\ outbox' = [outbox EXCEPT ![o].status = "unknown"]
      BY <3>2 DEF MarkUnknown
    <3>4. outbox[o] \in Operation
      BY <3>2, <3>3, RowIsOperation DEF StoreTypeOK, OpStatus
    <3>5. /\ outbox'[o] = [outbox[o] EXCEPT !.status = "unknown"]
          /\ \A p \in OpId \ {o} : outbox'[p] = outbox[p]
      BY <3>2, <3>3 DEF StoreTypeOK
    <3>6. outbox'[o].status = "unknown" /\ outbox'[o].task = outbox[o].task
      BY <3>4, <3>5 DEF Operation
    <3>7. QED
      BY <1>1, <3>2, <3>3, <3>5, <3>6
  <2>3. CASE job[s] \in Job /\ job[s].pc = "confirm"
               /\ Confirm(job[s].op, job[s].copy, job[s].seen)
    <3>1. PICK o, copy, fields : o = job[s].op /\ copy = job[s].copy /\ fields = job[s].seen
      OBVIOUS
    <3>2. /\ o \in OpId /\ copy \in Copy /\ fields \in TaskFields
          /\ Confirm(o, copy, fields)
      BY <2>3, <3>1 DEF Job, SyncTyped, ReadFirst
    <3>3. outbox[o].status \in OpenWrite
      BY <3>2 DEF Confirm, Confirmable, OpenWrite
    <3>4. outbox[o] \in Operation
      BY <3>2, <3>3, RowIsOperation DEF StoreTypeOK, OpStatus, OpenWrite
    <3>5. mapping'[outbox[o].task].copy # NoCopy
      BY <3>2, <3>4, ConfirmLinks, NoCopyAssumption DEF Operation
    <3>6. outbox' = Settled(o, fields)
      BY <3>2 DEF Confirm
    <3>7. Stand(outbox', {o})
      BY <3>6 DEF Stand, Settled, OpsOf
    <3>8. QED
      BY <3>2, <3>5, <3>7
  <2>4. CASE UNCHANGED storeVars \/ RecoverOrphans
    <3>1. ~ReplaceAllData
      BY <2>4 DEF ReplaceAllData, RecoverOrphans, storeVars, StoreTypeOK
    <3>2. QED
      BY <2>4, <3>1, AsideStand DEF Aside
  <2>5. QED
    BY <1>2, <2>1, <2>2, <2>3, <2>4 DEF Ended
<1>3. ASSUME NEW s \in Sender, NEW j, Claimed(s, j)
      PROVE  Stand(outbox', {})
  <2>1. PICK o \in OpId : MarkSending(o, s)
    BY <1>3 DEF Claimed
  <2>2. /\ outbox[o].status = "pending"
        /\ outbox' = [outbox EXCEPT ![o].status = "sending", ![o].owner = s]
    BY <2>1 DEF MarkSending, Claimable
  <2>3. outbox[o] \in Operation
    BY <2>2, RowIsOperation DEF StoreTypeOK, OpStatus
  <2>4. /\ outbox'[o] = [outbox[o] EXCEPT !.status = "sending", !.owner = s]
        /\ \A p \in OpId \ {o} : outbox'[p] = outbox[p]
    BY <2>2 DEF StoreTypeOK
  <2>5. outbox'[o].status = "sending" /\ outbox'[o].task = outbox[o].task
    BY <2>3, <2>4 DEF Operation
  <2>6. QED
    BY <1>1, <2>2, <2>4, <2>5
<1>4. ASSUME NEW s \in Sender, NEW j, MergedInto(s, j)
      PROVE  Stand(outbox', {})
  <2>1. PICK o, fields : o = job[s].op /\ fields = job[s].seen
    OBVIOUS
  <2>2. o \in OpId /\ MergePreflight(o, fields)
    BY <1>4, <2>1 DEF MergedInto, SameAttempt, Job
  <2> DEFINE merged == Merged(outbox[o].baseline, outbox[o].desired, fields)
  <2>3. /\ outbox[o].status = "sending"
        /\ outbox' = [outbox EXCEPT ![o].baseline = fields, ![o].desired = merged]
    BY <2>2 DEF MergePreflight, Rebasable, CanDispatch
  <2> HIDE DEF merged
  <2>4. outbox[o] \in Operation
    BY <2>2, <2>3, RowIsOperation DEF StoreTypeOK, OpStatus
  <2>5. /\ outbox'[o] = [outbox[o] EXCEPT !.baseline = fields, !.desired = merged]
        /\ \A p \in OpId \ {o} : outbox'[p] = outbox[p]
    BY <2>2, <2>3 DEF StoreTypeOK
  <2>6. outbox'[o].status = outbox[o].status /\ outbox'[o].task = outbox[o].task
    BY <2>4, <2>5 DEF Operation
  <2>7. QED
    BY <1>1, <2>2, <2>3, <2>5, <2>6
<1>5. ASSUME UNCHANGED storeVars
      PROVE  Stand(outbox', {})
  BY <1>5 DEF storeVars, Stand
<1>6. ASSUME OtherStep
      PROVE  ReplaceAllData \/ Stand(outbox', {})
  BY <1>6, AsideStand DEF OtherStep
<1>7. ASSUME NEW s \in Sender, NEW j, WentOn(s, j) \/ SentBy(s, j)
      PROVE  UNCHANGED storeVars
  BY <1>7 DEF WentOn, SentBy
<1>8. QED
  BY <1>2, <1>3, <1>4, <1>5, <1>6, <1>7, StepCases DEF Dispatched, ProviderStep

----------------------------------------------------------------------------
(* From its first create on, something keeps the next one from a claim.    *)

LEMMA BackupSource ==
  ASSUME [StoreNext]_storeVars
  PROVE  backup' = backup \/ backup'.mapping = mapping
<1>1. CASE Export
  BY <1>1 DEF Export
<1>2. CASE ~Export
  BY <1>2 DEF StoreNext, storeVars, LocalWrite, WriteLinkedTask, CreateLinkedTask,
     WriteLocalTask, RecoverOrphans, Attempt, MarkSending, SupersedeUnsent, PauseUnsent,
     DeferUnsent, MergePreflight, MarkUnknown, Confirm, ConfirmDiffers, Fence, Pause,
     Resume, Disconnect, CredentialChanged, Reconnect, DeadlinePasses, PauseForRestore,
     SetConn, ReplaceAllData, Instance, OpenStore, CloseStore, CrashStore
<1>3. QED
  BY <1>1, <1>2

LEMMA MintedStep ==
  ASSUME SyncSafe, Minted, [Next]_vars
  PROVE  Minted'
<1> USE DEF SyncSafe, StoreSafe
<1>1. ASSUME NEW t \in Task, mapping'[t].state # "none"
      PROVE  t \in minted'
  <2>1. CASE ReplaceAllData
    BY <1>1, <2>1, LinksBorn DEF ReplaceAllData, Minted
  <2>2. CASE ~ReplaceAllData
    BY <1>1, <2>2, LinksBorn DEF Minted
  <2>3. QED
    BY <2>1, <2>2
<1>2. ASSUME NEW t \in Task, backup'.mapping[t].state # "none"
      PROVE  t \in minted'
  BY <1>2, StepOfStore, BackupSource, LinksBorn DEF Minted
<1>3. QED
  BY <1>1, <1>2 DEF Minted

(* A page on record stays on record until a dataset is replaced. *)
LEMMA CopyStays ==
  ASSUME SyncSafe, [Next]_vars, ~ReplaceAllData,
         NEW t \in Task, t \in minted, mapping[t].copy # NoCopy
  PROVE  mapping'[t].copy # NoCopy
<1> USE DEF SyncSafe, StoreSafe
<1>1. ASSUME NEW s \in Sender, NEW j, Dispatched(s, j)
      PROVE  mapping'[t].copy # NoCopy
  <2>1. CASE /\ job[s] \in Job /\ job[s].copy \in Copy /\ job[s].seen \in TaskFields
             /\ Confirm(job[s].op, job[s].copy, job[s].seen)
    <3>1. PICK o, copy, fields : o = job[s].op /\ copy = job[s].copy /\ fields = job[s].seen
      OBVIOUS
    <3>2. /\ o \in OpId /\ copy \in Copy /\ fields \in TaskFields
          /\ Confirm(o, copy, fields)
      BY <2>1, <3>1 DEF Job
    <3>3. QED
      BY <3>2, ConfirmLinks, NoCopyAssumption
  <2>2. CASE mapping'[t].copy = mapping[t].copy
    BY <2>2
  <2>3. QED
    BY <1>1, <2>1, <2>2, DispatchLinks
<1>2. ASSUME NEW u \in Task, NEW new \in TaskFields, LocalWrite(u, new)
      PROVE  mapping'[t] = mapping[t]
  <2>1. CASE CreateLinkedTask(u, new)
    <3>1. /\ mapping[u].state = "none" /\ mapping'[u].state # "none"
          /\ \A v \in Task \ {u} : mapping'[v] = mapping[v]
      BY <2>1 DEF CreateLinkedTask, StoreTypeOK, Unlinked
    <3>2. u # t
      BY <3>1, LinksBorn
    <3>3. QED
      BY <3>1, <3>2
  <2>2. CASE ~CreateLinkedTask(u, new)
    BY <1>2, <2>2 DEF LocalWrite, WriteLinkedTask, WriteLocalTask
  <2>3. QED
    BY <2>1, <2>2
<1>3. ASSUME RecoverOrphans \/ Fence \/ \E s \in Sender : Instance(s)
      PROVE  mapping' = mapping
  BY <1>3 DEF RecoverOrphans, Fence, Pause, Resume, Disconnect, CredentialChanged, Reconnect,
     DeadlinePasses, PauseForRestore, Export, SetConn, Instance, OpenStore, CloseStore,
     CrashStore
<1>4. ASSUME UNCHANGED storeVars
      PROVE  mapping' = mapping
  BY <1>4 DEF storeVars
<1>5. CASE OtherStep
  BY <1>2, <1>3, <1>4, <1>5 DEF OtherStep, Aside
<1>6. QED
  BY <1>1, <1>4, <1>5, StepCases DEF ProviderStep

(* A restored link without a page brings the intent that would create it,  *)
(* and a replacement quarantines every intent it brings.                   *)
LEMMA ReplacedBarred ==
  ASSUME StoreTypeOK, StoreKept, ReplaceAllData, NEW t \in Task
  PROVE  Barred(t)'
<1>1. mapping' = backup.mapping /\ quarantine' = Kept(Recorded, ImportedIntents)
  BY DEF ReplaceAllData
<1>2. CASE mapping'[t].copy # NoCopy \/ mapping'[t].state = "none"
  BY <1>2 DEF Barred
<1>3. CASE mapping'[t].copy = NoCopy /\ mapping'[t].state # "none"
  <2>1. backup.task[t] \in TaskFields /\ backup.mapping[t].baseline = NoFields
    BY <1>1, <1>3 DEF StoreKept, LinksTyped
  <2>2. backup.task[t] # backup.mapping[t].baseline
    BY <2>1, NoFieldsAssumption
  <2>3. PICK o \in OpId : Owes(backup.outbox[o], t, backup.task[t])
    BY <1>1, <1>3, <2>2 DEF StoreKept, Owed
  <2>4. ImportedIntents[o] = backup.outbox[o] /\ backup.outbox[o] # Absent
    BY <2>3 DEF Owes, ImportedIntents, WithStatus, Unresolved, Absent
  <2>5. quarantine'[o] # Absent
    BY <1>1, <2>4 DEF Kept
  <2>6. QED
    BY <2>5 DEF Barred, NoQuarantine
<1>4. QED
  BY <1>2, <1>3

LEMMA IssuedStays ==
  ASSUME SyncSafe, OpSafe, [Next]_vars, NEW o \in OpId, issued[o] = 1
  PROVE  issued'[o] = 1
<1>1. issued'[o] \in {0, 1}
  BY OpStep DEF OpSafe, RowsOwned, IssuedOnce
<1>2. CASE UNCHANGED notionVars
  BY <1>2 DEF notionVars
<1>3. ASSUME NEW s \in Sender, NEW j, SentBy(s, j)
      PROVE  issued'[o] # 0
  BY <1>3 DEF SentBy, Provider!Issue, SyncSafe, SyncTyped
<1>4. CASE ProviderStep
  BY <1>4 DEF ProviderStep, Provider!ProviderNext, Provider!LandCreate,
     Provider!LandUpdate, Provider!Lose, Provider!RemoteEdit
<1>5. QED
  BY <1>1, <1>2, <1>3, <1>4, StepCases
  DEF SyncSafe, StoreSafe, OtherStep, Dispatched, Ended, Claimed, WentOn, MergedInto

LEMMA BarredStays ==
  ASSUME SyncSafe, OpSafe, [Next]_vars, NEW t \in Task, t \in minted, Barred(t)
  PROVE  Barred(t)'
<1> USE DEF SyncSafe, StoreSafe
<1>1. CASE ReplaceAllData
  BY <1>1, ReplacedBarred
<1>2. CASE ~ReplaceAllData
  <2>1. CASE mapping[t].copy # NoCopy
    BY <1>2, <2>1, CopyStays DEF Barred
  <2>2. CASE mapping[t].state = "none"
    BY <1>2, <2>2, LinksBorn DEF Barred
  <2>3. CASE ~NoQuarantine
    BY <1>2, <2>3, StepOfStore, QuarantineStays DEF Barred, NoQuarantine
  <2>4. ASSUME NEW o \in OpId, Attempted(o), outbox[o].task = t
        PROVE  Barred(t)'
    <3>1. outbox[o].status \in {"sending", "unknown", "quarantined"}
      BY <2>4 DEF Attempted
    <3>2. ASSUME NEW gone, Stand(outbox', gone), o \notin gone
          PROVE  Barred(t)'
      <4>1. /\ outbox'[o].task = t
            /\ outbox'[o].status \in {outbox[o].status, "unknown"}
        BY <2>4, <3>1, <3>2 DEF Stand
      <4>2. CASE outbox[o].status = "sending"
        BY <2>4, <4>1, <4>2, IssuedStays DEF Attempted, Barred
      <4>3. CASE outbox[o].status # "sending"
        BY <3>1, <4>1, <4>3 DEF Attempted, Barred
      <4>4. QED
        BY <4>2, <4>3
    <3>3. ASSUME NEW p \in OpId, Stand(outbox', {p}),
                 \/ outbox[p].status = "sending" /\ issued[p] = 0
                 \/ mapping'[outbox[p].task].copy # NoCopy
          PROVE  Barred(t)'
      <4>1. CASE o # p
        BY <3>2, <3>3, <4>1
      <4>2. CASE o = p
        <5>1. mapping'[t].copy # NoCopy
          BY <2>4, <3>3, <4>2 DEF Attempted
        <5>2. QED
          BY <5>1 DEF Barred
      <4>3. QED
        BY <4>1, <4>2
    <3>4. QED
      BY <1>2, <3>2, <3>3, StandCases
  <2>5. QED
    BY <2>1, <2>2, <2>3, <2>4 DEF Barred
<1>3. QED
  BY <1>1, <1>2

(* The last check lets a create pass only for a task that has no page and  *)
(* no other create: nothing bars it, and its own attempt is the only one   *)
(* of its task.                                                            *)
LEMMA FirstCreate ==
  ASSUME SyncSafe, OpSafe, PageSafe, NEW s \in Sender,
         job[s] \in Job, job[s].pc = "gate", CanDispatch(job[s].op),
         job[s].copy = NoCopy
  PROVE  /\ job[s].task \in Task /\ job[s].task \in minted
         /\ Provider!Pages(job[s].task) = {} /\ Creates(job[s].task) = {}
<1> DEFINE o == job[s].op
           t == job[s].task
<1> USE DEF SyncSafe, StoreSafe
<1>1. /\ o \in OpId /\ t \in Task
      /\ job[s].pc \in Unsent /\ outbox[o].status = "sending"
  BY DEF CanDispatch, Job, Unsent
<1>2. /\ outbox[o].task = t /\ issued[o] = 0 /\ mapping[t].copy = NoCopy
  BY <1>1 DEF OpSafe, RowsOwned, Owns, OpenWrite
<1>3. /\ NoQuarantine /\ OpsOf(t, {"quarantined"}) = {} /\ mapping[t].state # "none"
  BY <1>1, <1>2 DEF StoreKept, SendsAlone, InStatus
<1> HIDE DEF o, t
<1>4. ASSUME NEW p \in OpId, Attempted(p), outbox[p].task = t
      PROVE  FALSE
  <2>1. CASE outbox[p].status = "quarantined"
    BY <1>3, <1>4, <2>1 DEF OpsOf
  <2>2. CASE outbox[p].status \in {"sending", "unknown"}
    <3>1. p = o
      BY <1>1, <1>2, <1>4, <2>2 DEF SingleInFlight, InStatus
    <3>2. QED
      BY <1>1, <1>2, <1>4, <3>1 DEF Attempted
  <2>3. QED
    BY <1>4, <2>1, <2>2 DEF Attempted
<1>5. ~Barred(t)
  BY <1>2, <1>3, <1>4 DEF Barred
<1>6. Provider!Pages(t) = {} /\ Creates(t) = {}
  BY <1>1, <1>5 DEF PageSafe, CreatesBarred
<1>7. t \in minted
  BY <1>1, <1>3 DEF PageSafe, Minted
<1>8. QED
  BY <1>1, <1>6, <1>7 DEF t

(* Until that create leaves, no other one of its task does: another process *)
(* about to send is there for another task.                                *)
LEMMA FirstStep ==
  ASSUME SyncSafe, OpSafe, PageSafe, [Next]_vars, NEW s \in Sender,
         job'[s].pc = "send", job'[s].copy = NoCopy, NEW t, t = job'[s].task
  PROVE  t \in minted' /\ Provider!Pages(t)' = {} /\ Creates(t)' = {}
<1> USE DEF SyncSafe, StoreSafe
<1>2. /\ t \in Task /\ t \in minted /\ t = job[s].task
      /\ Provider!Pages(t) = {} /\ Creates(t) = {}
      /\ \/ job[s].pc = "send"
         \/ UNCHANGED notionVars
  <2>1. CASE job'[s] = job[s]
    <3>1. job[s] \in Job
      BY <2>1, JobIsDispatch DEF Place, SyncTyped
    <3>2. QED
      BY <2>1, <3>1 DEF PageSafe, CreatesFirst, Job
  <2>2. CASE job'[s] # job[s]
    BY <2>2, SendersCases, FirstCreate
  <2>3. QED
    BY <2>1, <2>2
<1>3. t \in minted'
  BY <1>2, LinksBorn
<1>4. CASE UNCHANGED notionVars
  BY <1>2, <1>3, <1>4 DEF notionVars, Provider!Pages, Creates
<1>5. CASE job[s].pc = "send"
  <2>1. CASE Arrived(t)
    BY <1>2, <1>3, <2>1 DEF Arrived
  <2>2. ASSUME NEW u \in Sender, NEW j \in JobState, NEW r \in Request,
               remote' = remote, SentBy(u, j), job' = [job EXCEPT ![u] = j],
               wire' = wire \cup {r}, r.task = job[u].task
        PROVE  Provider!Pages(t)' = {} /\ Creates(t)' = {}
    <3>1. job[u].pc = "send" /\ j.pc = "readBack" /\ job'[u] = j
      BY <2>2 DEF SentBy, SyncTyped
    <3>2. u # s
      BY <3>1
    <3>3. r.task # t
      BY <1>2, <1>5, <2>2, <3>1, <3>2 DEF OpSafe, SendersApart
    <3>4. Creates(t)' = Creates(t) /\ Provider!Pages(t)' = Provider!Pages(t)
      BY <2>2, <3>3 DEF Creates, Provider!Pages
    <3>5. QED
      BY <1>2, <3>4
  <2>3. QED
    BY <1>2, <1>3, <2>1, <2>2, NotionCases DEF PageSafe
<1>6. QED
  BY <1>2, <1>4, <1>5

LEMMA BirthStep ==
  ASSUME SyncSafe, OpSafe, PageSafe, [Next]_vars, NEW t \in Task
  PROVE  /\ Provider!Pages(t)' # {} \/ Creates(t)' # {} => t \in minted' /\ Barred(t)'
         /\ Provider!Pages(t)' = {} \/ Creates(t)' = {}
         /\ \A c, d \in Provider!Pages(t)' : c = d
         /\ \A q, r \in Creates(t)' : q = r
<1> USE DEF SyncSafe, StoreSafe
<1>1. ASSUME Provider!Pages(t) # {} \/ Creates(t) # {}
      PROVE  t \in minted' /\ Barred(t)'
  BY <1>1, BarredStays, LinksBorn DEF PageSafe, CreatesBarred
<1>2. /\ Provider!Pages(t) = {} \/ Creates(t) = {}
      /\ \A c, d \in Provider!Pages(t) : c = d
      /\ \A q, r \in Creates(t) : q = r
  BY DEF PageSafe, OneBirth
<1>3. CASE Arrived(t)
  <2>1. CASE Provider!Pages(t)' = Provider!Pages(t) /\ Creates(t)' \subseteq Creates(t)
    BY <1>1, <1>2, <2>1
  <2>2. ASSUME NEW r \in Creates(t), NEW c \in Copy,
               Provider!Pages(t)' = Provider!Pages(t) \cup {c},
               Creates(t)' = Creates(t) \ {r}
        PROVE  /\ Provider!Pages(t)' = {c} /\ Creates(t)' = {}
               /\ t \in minted' /\ Barred(t)'
    BY <1>1, <1>2, <2>2
  <2>3. QED
    BY <1>3, <2>1, <2>2 DEF Arrived
<1>4. ASSUME NEW s \in Sender, NEW j \in JobState, NEW r \in Request,
             remote' = remote, SentBy(s, j), wire' = wire \cup {r},
             r.op = job[s].op, r.task = job[s].task, r.copy = job[s].copy
      PROVE  /\ Provider!Pages(t)' # {} \/ Creates(t)' # {} => t \in minted' /\ Barred(t)'
             /\ Provider!Pages(t)' = {} \/ Creates(t)' = {}
             /\ \A c, d \in Provider!Pages(t)' : c = d
             /\ \A q, k \in Creates(t)' : q = k
  <2>1. Provider!Pages(t)' = Provider!Pages(t)
    BY <1>4 DEF Provider!Pages
  <2>2. CASE r.task = t /\ r.copy = NoCopy
    <3>1. /\ t \in minted /\ Provider!Pages(t) = {} /\ Creates(t) = {}
          /\ job[s] \in Job /\ job[s].pc = "send" /\ job[s].task = t
      BY <1>4, <2>2 DEF SentBy, SameAttempt, PageSafe, CreatesFirst
    <3>2. Creates(t)' = {r}
      BY <1>4, <2>2, <3>1 DEF Creates
    <3>4. Barred(t)'
      <4>1. PICK o \in OpId : o = job[s].op
        BY <3>1 DEF Job
      <4>2. /\ UNCHANGED storeVars /\ issued[o] = 0
            /\ issued' = [issued EXCEPT ![o] = @ + 1]
        BY <1>4, <3>1, <4>1 DEF SentBy, Provider!Issue, OpSafe, SendHeld
      <4>3. issued'[o] = 1
        BY <4>2 DEF SyncTyped
      <4>4. CASE outbox[o].status = "sending"
        <5>1. outbox[o].task = t
          BY <3>1, <4>1, <4>4 DEF OpSafe, RowsOwned, Owns, OpenWrite
        <5>2. Attempted(o)' /\ outbox'[o].task = t
          BY <4>2, <4>3, <4>4, <5>1 DEF Attempted, storeVars
        <5>3. QED
          BY <5>2 DEF Barred
      <4>5. CASE quarantine[o] # Absent
        BY <4>2, <4>5 DEF storeVars, Barred, NoQuarantine
      <4>6. QED
        BY <3>1, <4>1, <4>4, <4>5 DEF OpSafe, SendHeld
    <3>5. t \in minted'
      BY <3>1, LinksBorn
    <3>6. QED
      BY <2>1, <3>1, <3>2, <3>4, <3>5
  <2>3. CASE ~(r.task = t /\ r.copy = NoCopy)
    <3>1. Creates(t)' = Creates(t)
      BY <1>4, <2>3 DEF Creates
    <3>2. QED
      BY <1>1, <1>2, <2>1, <3>1
  <2>4. QED
    BY <2>2, <2>3
<1>5. QED
  <2>1. PagesKnown
    BY DEF PageSafe
  <2>2. QED
    BY <1>3, <1>4, <2>1, NotionCases

LEMMA PageStep ==
  ASSUME SyncSafe, OpSafe, PageSafe, [Next]_vars
  PROVE  PageSafe'
<1>1. PagesKnown' /\ Minted'
  BY PagesKnownStep, MintedStep DEF PageSafe
<1>2. CreatesBarred' /\ OneBirth'
  BY BirthStep DEF CreatesBarred, OneBirth
<1>3. CreatesFirst'
  <2>1. ASSUME NEW s \in Sender, job'[s].pc = "send", job'[s].copy = NoCopy
        PROVE  /\ job'[s].task \in minted'
               /\ {c \in Copy : remote'[job'[s].task][c] # NoFields} = {}
               /\ {r \in wire' : r.task = job'[s].task /\ r.copy = NoCopy} = {}
    <3>1. PICK t : t = job'[s].task
      OBVIOUS
    <3>2. t \in minted' /\ Provider!Pages(t)' = {} /\ Creates(t)' = {}
      BY <2>1, <3>1, FirstStep
    <3>3. QED
      BY <3>1, <3>2 DEF Provider!Pages, Creates
  <2>2. QED
    BY <2>1 DEF CreatesFirst, Provider!Pages, Creates
<1>4. QED
  BY <1>1, <1>2, <1>3 DEF PageSafe

LEMMA PageInit == Init => PageSafe
<1> SUFFICES ASSUME Init
             PROVE  PageSafe
  OBVIOUS
<1>1. /\ \A t \in Task : mapping[t] = Unlinked /\ backup.mapping[t] = Unlinked
      /\ wire = {} /\ \A s \in Sender : job[s] \notin Job
      /\ remote = [t \in Task |-> [c \in Copy |-> NoFields]]
  BY DEF Init, StoreInit, Provider!ProviderInit, Idle, Job, Place
<1>2. \A t \in Task : Provider!Pages(t) = {} /\ Creates(t) = {}
  BY <1>1 DEF Provider!Pages, Creates
<1>3. PagesKnown /\ Minted
  BY <1>1 DEF PagesKnown, Minted, OnPage, Unlinked
<1>4. CreatesFirst
  BY DEF Init, CreatesFirst, Idle
<1>5. QED
  BY <1>2, <1>3, <1>4 DEF PageSafe, CreatesBarred, OneBirth

LEMMA PageInductive == Spec => []PageSafe
<1>1. SyncSafe /\ OpSafe /\ PageSafe /\ [Next]_vars => PageSafe'
  BY PageStep
<1>2. QED
  BY <1>1, PageInit, SyncInductive, OpInductive, PTL DEF Spec

LEMMA AtMostOne ==
  ASSUME NEW S, \A x, y \in S : x = y
  PROVE  Cardinality(S) = IF S = {} THEN 0 ELSE 1
<1>1. CASE S = {}
  BY <1>1, FS_EmptySet
<1>2. CASE S # {}
  <2>1. PICK x \in S : S = {x}
    BY <1>2
  <2>2. QED
    BY <1>2, <2>1, FS_Singleton
<1>3. QED
  BY <1>1, <1>2

(* However a create was answered, interrupted, restored from a backup,     *)
(* delayed or missed by a search, a task never has two pages, nor a page   *)
(* and a create still on its way (findByClientKey, readTarget,             *)
(* markNotionOutboxSending, replaceAllData).                               *)
THEOREM OnePage == Spec => []AtMostOneCreate
<1>1. ASSUME OneBirth
      PROVE  AtMostOneCreate
  <2> SUFFICES ASSUME NEW t \in Task
               PROVE  Cardinality(Provider!Pages(t)) + Cardinality(Creates(t)) <= 1
    BY DEF AtMostOneCreate, Creates
  <2>1. PICK P, C : P = Provider!Pages(t) /\ C = Creates(t)
    OBVIOUS
  <2>2. /\ P = {} \/ C = {}
        /\ \A c, d \in P : c = d
        /\ \A q, r \in C : q = r
    BY <1>1, <2>1 DEF OneBirth
  <2>3. /\ Cardinality(P) = IF P = {} THEN 0 ELSE 1
        /\ Cardinality(C) = IF C = {} THEN 0 ELSE 1
    BY <2>2, AtMostOne
  <2>4. QED
    BY <2>1, <2>2, <2>3
<1>2. PageSafe => AtMostOneCreate
  BY <1>1 DEF PageSafe
<1>3. QED
  BY <1>2, PageInductive, PTL

----------------------------------------------------------------------------
(* The promise of NotionIntent.  A live row has nothing in quarantine, and  *)
(* the backup does not know it as finished: a replacement can isolate or   *)
(* forget an intent, but never finish one that was not.                    *)
LiveApart ==
  \A o \in OpId :
    outbox[o].status \in LiveStatus =>
      quarantine[o] = Absent /\ backup.outbox[o].status \notin {"confirmed", "superseded"}

(* The four ways a step may change rows and requests. *)
LEMMA StepKinds ==
  ASSUME SyncSafe, OpSafe, [Next]_vars
  PROVE  \/ issued' = issued /\ Neutral
         \/ issued' = issued /\ \E o \in OpId, s \in Sender : MarkSending(o, s)
         \/ issued' = issued /\ \E o \in OpId : Returns(o) /\ issued[o] = 0
         \/ /\ UNCHANGED storeVars
            /\ \E o \in OpId : /\ outbox[o].status = "sending" \/ quarantine[o] # Absent
                               /\ issued[o] = 0
                               /\ issued' = [issued EXCEPT ![o] = 1]
<1> USE DEF SyncSafe, StoreSafe
<1>1. ASSUME NEW s \in Sender, job[s] \in Job
      PROVE  job[s].op \in OpId /\ ReadFirst(job[s])
  BY <1>1 DEF Job, SyncTyped
<1>2. ASSUME NEW s \in Sender, NEW j, Ended(s, j)
      PROVE  /\ issued' = issued
             /\ Neutral \/ \E o \in OpId : Returns(o) /\ issued[o] = 0
  <2>1. CASE job[s] \in Job /\ job[s].pc \in Unsent /\ Returns(job[s].op)
    <3>1. outbox[job[s].op].status = "sending"
      BY <2>1 DEF Returns, SupersedeUnsent, PauseUnsent, MayPauseUnsent, DeferUnsent, MayDefer
    <3>2. issued[job[s].op] = 0
      BY <2>1, <3>1 DEF OpSafe, RowsOwned, Owns
    <3>3. QED
      BY <1>1, <1>2, <2>1, <3>2 DEF Ended, notionVars
  <2>2. CASE ~(job[s] \in Job /\ job[s].pc \in Unsent /\ Returns(job[s].op))
    BY <1>1, <1>2, <2>2 DEF Ended, ReadFirst, Neutral, Aside, notionVars
  <2>3. QED
    BY <2>1, <2>2
<1>3. ASSUME NEW s \in Sender, NEW j, MergedInto(s, j)
      PROVE  issued' = issued /\ Neutral
  BY <1>1, <1>3 DEF MergedInto, SameAttempt, ReadFirst, Neutral, notionVars
<1>4. ASSUME NEW s \in Sender, NEW j, SentBy(s, j)
      PROVE  /\ UNCHANGED storeVars
             /\ \E o \in OpId : /\ outbox[o].status = "sending" \/ quarantine[o] # Absent
                                /\ issued[o] = 0
                                /\ issued' = [issued EXCEPT ![o] = 1]
  <2>1. PICK o : o = job[s].op
    OBVIOUS
  <2>2. /\ o \in OpId /\ UNCHANGED storeVars
        /\ issued' = [issued EXCEPT ![o] = @ + 1]
    BY <1>4, <2>1 DEF SentBy, SameAttempt, Job, Provider!Issue
  <2>3. issued[o] = 0 /\ (outbox[o].status = "sending" \/ quarantine[o] # Absent)
    BY <1>4, <2>1 DEF SentBy, OpSafe, SendHeld
  <2>4. issued' = [issued EXCEPT ![o] = 1]
    BY <2>2, <2>3
  <2>5. QED
    BY <2>2, <2>3, <2>4
<1>5. CASE OtherStep
  BY <1>5 DEF OtherStep, Neutral, notionVars
<1>6. CASE ProviderStep
  BY <1>6 DEF ProviderStep, Neutral, Aside, Provider!ProviderNext, Provider!LandCreate,
     Provider!LandUpdate, Provider!Lose, Provider!RemoteEdit
<1>7. ASSUME NEW s \in Sender, NEW j, WentOn(s, j)
      PROVE  issued' = issued /\ Neutral
  BY <1>7 DEF WentOn, Neutral, Aside, notionVars
<1>8. ASSUME NEW s \in Sender, NEW j, Claimed(s, j)
      PROVE  issued' = issued /\ \E o \in OpId : MarkSending(o, s)
  BY <1>8 DEF Claimed, notionVars
<1>9. QED
  BY <1>2, <1>3, <1>4, <1>5, <1>6, <1>7, <1>8, StepCases DEF Dispatched

LEMMA ApartStep ==
  ASSUME SyncSafe, OpSafe, LiveApart, [Next]_vars
  PROVE  LiveApart'
<1> USE DEF SyncSafe, StoreSafe
<1>1. CASE ReplaceAllData
  BY <1>1, ReplacedRows DEF LiveApart
<1>2. CASE ~ReplaceAllData
  <2>1. \A o \in OpId : outbox'[o].status \in LiveStatus =>
          outbox[o].status \in LiveStatus \/ o > nextOp
    <3>1. CASE Neutral
      <4>1. Calm(outbox')
        BY <3>1, NeutralCalm
      <4>2. QED
        BY <4>1 DEF Calm, LiveStatus, OpenWrite
    <3>2. CASE \E o \in OpId, s \in Sender : MarkSending(o, s)
      BY <3>2, ClaimRow DEF LiveStatus
    <3>3. CASE \E o \in OpId : Returns(o)
      BY <3>3, ReturnRow DEF LiveStatus
    <3>4. CASE UNCHANGED storeVars
      BY <3>4 DEF storeVars
    <3>5. QED
      BY <3>1, <3>2, <3>3, <3>4, StepKinds
  <2>2. quarantine' = quarantine
    BY <1>2, StepOfStore, QuarantineStays
  <2>3. CASE backup' = backup
    BY <2>1, <2>2, <2>3 DEF LiveApart, StoreKept, RowsEnqueued, Absent
  <2>4. CASE Export
    BY <2>2, <2>4 DEF Export, LiveApart, LiveStatus
  <2>5. backup' = backup \/ Export
    BY <1>2, StepOfStore DEF StoreNext, storeVars, LocalWrite, WriteLinkedTask,
       CreateLinkedTask, WriteLocalTask, RecoverOrphans, Attempt, MarkSending,
       SupersedeUnsent, PauseUnsent, DeferUnsent, MergePreflight, MarkUnknown, Confirm,
       ConfirmDiffers, Fence, Pause, Resume, Disconnect, CredentialChanged, Reconnect,
       DeadlinePasses, PauseForRestore, SetConn, Instance, OpenStore, CloseStore, CrashStore
  <2>6. QED
    BY <2>3, <2>4, <2>5
<1>3. QED
  BY <1>1, <1>2

LEMMA ApartInductive == Spec => []LiveApart
<1>1. Init => LiveApart
  BY DEF Init, StoreInit, LiveApart, LiveStatus, Absent
<1>2. SyncSafe /\ OpSafe /\ LiveApart /\ [Next]_vars => LiveApart'
  BY ApartStep
<1>3. QED
  BY <1>1, <1>2, SyncInductive, OpInductive, PTL DEF Spec

(* The phase of an intent, from its row. *)
PhaseFacts(o) ==
  /\ quarantine[o] # Absent => IntentPhase(o) = "isolated"
  /\ quarantine[o] = Absent =>
       /\ outbox[o] = Absent =>
            IntentPhase(o) = IF o <= nextOp THEN "forgotten" ELSE "none"
       /\ outbox[o].status = "pending" => IntentPhase(o) = "waiting"
       /\ outbox[o].status = "sending" =>
            IntentPhase(o) = IF issued[o] = 0 THEN "waiting" ELSE "attempted"
       /\ outbox[o].status = "unknown" => IntentPhase(o) = "attempted"
       /\ outbox[o].status = "confirmed" => IntentPhase(o) = "settled"
       /\ outbox[o].status = "superseded" => IntentPhase(o) = "withdrawn"
       /\ outbox[o].status = "quarantined" => IntentPhase(o) = "isolated"

LEMMA PhaseOf ==
  ASSUME NEW o
  PROVE  PhaseFacts(o) /\ PhaseFacts(o)'
<1>1. PhaseFacts(o)
  BY DEF PhaseFacts, IntentPhase, Absent
<1>2. PhaseFacts(o)'
  BY DEF PhaseFacts, IntentPhase, Absent
<1>3. QED
  BY <1>1, <1>2

(* What nothing changes of a row, its requests and its quarantine. *)
LEMMA SamePhase ==
  ASSUME NEW o, outbox'[o] = outbox[o], quarantine'[o] = quarantine[o],
         issued'[o] = issued[o], (o <= nextOp') <=> (o <= nextOp)
  PROVE  IntentPhase(o)' = IntentPhase(o)
  BY DEF IntentPhase

IntentMoves == [Intents!IntentNext]_[o \in OpId |-> IntentPhase(o)]

LEMMA PhasesStay ==
  ASSUME \A o \in OpId : IntentPhase(o)' = IntentPhase(o)
  PROVE  IntentMoves
  BY DEF IntentMoves

LEMMA RowsStay ==
  ASSUME UNCHANGED <<outbox, quarantine, issued, nextOp>>
  PROVE  IntentMoves
  BY SamePhase, PhasesStay

LEMMA PresumeMoves ==
  ASSUME NEW ops \in SUBSET OpId,
         \A i \in ops : IntentPhase(i) = "waiting",
         \A i \in OpId : IntentPhase(i)' = IF i \in ops THEN "attempted" ELSE IntentPhase(i)
  PROVE  IntentMoves
<1>1. Intents!Presume(ops)
  BY DEF Intents!Presume
<1>2. QED
  BY <1>1 DEF IntentMoves, Intents!IntentNext

LEMMA WithdrawMoves ==
  ASSUME NEW o \in OpId, IntentPhase(o) = "waiting",
         \A i \in OpId : IntentPhase(i)' = IF i = o THEN "withdrawn" ELSE IntentPhase(i)
  PROVE  IntentMoves
<1>1. Intents!Withdraw(o)
  BY DEF Intents!Withdraw
<1>2. QED
  BY <1>1 DEF IntentMoves, Intents!IntentNext

LEMMA SettleMoves ==
  ASSUME NEW o \in OpId, NEW same \in SUBSET OpId,
         IntentPhase(o) \in {"waiting", "attempted"},
         \A i \in same : IntentPhase(i) = "waiting",
         \A i \in OpId : IntentPhase(i)' = IF i \in {o} \cup same THEN "settled"
                                           ELSE IntentPhase(i)
  PROVE  IntentMoves
<1>1. Intents!Settle(o, same)
  BY DEF Intents!Settle
<1>2. QED
  BY <1>1 DEF IntentMoves, Intents!IntentNext

LEMMA RecordMoves ==
  ASSUME NEW n \in OpId, NEW older \in SUBSET OpId, IntentPhase(n) = "none",
         \A i \in older : IntentPhase(i) = "waiting",
         \A i \in OpId : IntentPhase(i)' = IF i = n THEN "waiting"
                                           ELSE IF i \in older THEN "withdrawn"
                                           ELSE IntentPhase(i)
  PROVE  IntentMoves
<1>1. Intents!Record(n, older)
  BY DEF Intents!Record
<1>2. QED
  BY <1>1 DEF IntentMoves, Intents!IntentNext

(* A replacement: what was attempted is isolated, what waited is isolated  *)
(* or forgotten, and nothing comes to wait.                                *)
LEMMA ReplaceMoves ==
  ASSUME SyncSafe, OpSafe, LiveApart, ReplaceAllData, StoreTypeOK', issued' = issued
  PROVE  IntentMoves
<1> USE DEF SyncSafe, StoreSafe
<1>1. /\ quarantine' = Kept(Kept(Kept(quarantine, LocalSends), backup.quarantine),
                            ImportedIntents)
      /\ nextOp' = nextOp
  BY DEF ReplaceAllData, Recorded
<1>2. ASSUME NEW o \in OpId
      PROVE  IntentPhase(o)' \in Intents!Outcome(IntentPhase(o)) \cap Intents!Phase
  <2>1. PhaseFacts(o) /\ PhaseFacts(o)'
    BY PhaseOf
  <2>2. outbox[o] \in Operation \cup {Absent} /\ outbox'[o] \in Operation \cup {Absent}
        /\ backup.outbox[o] \in Operation \cup {Absent}
    BY DEF StoreTypeOK, Archive
  <2>3. CASE quarantine[o] # Absent
    <3>1. quarantine'[o] # Absent
      BY <1>1, <2>3 DEF Kept
    <3>2. IntentPhase(o) = "isolated" /\ IntentPhase(o)' = "isolated"
      BY <2>1, <2>3, <3>1 DEF PhaseFacts
    <3>3. QED
      BY <3>2 DEF Intents!Outcome, Intents!Phase
  <2>4. CASE quarantine[o] = Absent /\ outbox[o].status \in {"sending", "unknown", "quarantined"}
    <3>1. LocalSends[o] = outbox[o] /\ outbox[o] # Absent
      BY <2>4 DEF LocalSends, WithStatus, Absent
    <3>2. quarantine'[o] # Absent
      BY <1>1, <2>4, <3>1 DEF Kept
    <3>3. /\ IntentPhase(o) \in {"waiting", "attempted", "isolated"}
          /\ IntentPhase(o)' = "isolated"
      BY <2>1, <2>4, <3>2 DEF PhaseFacts
    <3>4. QED
      BY <3>3 DEF Intents!Outcome, Intents!Phase
  <2>5. outbox'[o].status \notin LiveStatus
    BY ReplacedRows
  <2>6. CASE quarantine[o] = Absent /\ outbox[o].status = "pending"
    <3>1. IntentPhase(o) = "waiting"
      BY <2>1, <2>6 DEF PhaseFacts
    <3>2. o <= nextOp
      BY <2>6 DEF StoreKept, RowsEnqueued, Absent, OpId, StoreTypeOK
    <3>3. CASE backup.outbox[o].status \in Unresolved
      <4>1. ImportedIntents[o] = backup.outbox[o] /\ backup.outbox[o] # Absent
        BY <3>3 DEF ImportedIntents, WithStatus, Unresolved, Absent
      <4>2. quarantine'[o] # Absent
        BY <1>1, <4>1 DEF Kept
      <4>3. IntentPhase(o)' = "isolated"
        BY <2>1, <4>2 DEF PhaseFacts
      <4>4. QED
        BY <3>1, <4>3 DEF Intents!Outcome, Intents!Phase
    <3>4. CASE backup.outbox[o].status \notin Unresolved
      <4>1. backup.outbox[o].status \notin {"confirmed", "superseded"}
        BY <2>6 DEF LiveApart, LiveStatus
      <4>2. backup.outbox[o] = Absent
        BY <2>2, <3>4, <4>1 DEF Operation, OpStatus, Unresolved
      <4>3. outbox'[o] = Absent
        BY <3>4, <4>2 DEF ReplaceAllData, ImportedIntents, WithStatus
      <4>4. IntentPhase(o)' \in {"forgotten", "isolated"}
        BY <1>1, <2>1, <3>2, <4>3 DEF PhaseFacts
      <4>5. QED
        BY <3>1, <4>4 DEF Intents!Outcome, Intents!Phase
    <3>5. QED
      BY <3>3, <3>4
  <2>7. CASE /\ quarantine[o] = Absent /\ o <= nextOp
             /\ outbox[o].status \in {"confirmed", "superseded", "absent"}
    <3>1. IntentPhase(o) \in {"settled", "withdrawn", "forgotten"}
      BY <2>1, <2>2, <2>7 DEF PhaseFacts, Operation, OpStatus, Absent
    <3>2. IntentPhase(o)' \in {"settled", "withdrawn", "isolated", "forgotten"}
      <4>1. outbox'[o] = Absent \/ outbox'[o].status \in {"confirmed", "superseded", "quarantined"}
        BY <2>2, <2>5 DEF Operation, OpStatus, LiveStatus
      <4>2. QED
        BY <1>1, <2>1, <2>7, <4>1 DEF PhaseFacts
    <3>3. QED
      BY <3>1, <3>2 DEF Intents!Outcome, Intents!Phase
  <2>8. CASE o > nextOp
    <3>1. /\ outbox[o] = Absent /\ quarantine[o] = Absent
          /\ backup.outbox[o] = Absent /\ backup.quarantine[o] = Absent
      BY <2>8 DEF StoreKept, RowsEnqueued
    <3>2. LocalSends[o] = Absent /\ ImportedIntents[o] = Absent
      BY <3>1 DEF LocalSends, ImportedIntents, WithStatus, Absent, Unresolved
    <3>3. quarantine'[o] = Absent /\ outbox'[o] = Absent
      BY <1>1, <3>1, <3>2 DEF Kept, ReplaceAllData
    <3>4. ~(o <= nextOp)
      BY <2>8 DEF OpId, StoreTypeOK
    <3>5. IntentPhase(o) = "none" /\ IntentPhase(o)' = "none"
      BY <1>1, <2>1, <3>1, <3>3, <3>4 DEF PhaseFacts
    <3>6. QED
      BY <3>5 DEF Intents!Outcome, Intents!Phase
  <2>9. QED
    <3>1. outbox[o].status \in OpStatus \cup {"absent"} /\ (o <= nextOp \/ o > nextOp)
      BY <2>2 DEF Operation, Absent, OpId, StoreTypeOK
    <3>2. QED
      BY <2>3, <2>4, <2>6, <2>7, <2>8, <3>1 DEF OpStatus
<1>3. Intents!Replace
  BY <1>2 DEF Intents!Replace
<1>4. QED
  BY <1>3 DEF IntentMoves, Intents!IntentNext

(* A live row that is known to be apart from the quarantine. *)
LEMMA LivePhase ==
  ASSUME LiveApart, IssuedOnce, NEW o \in OpId, outbox[o].status \in LiveStatus
  PROVE  /\ quarantine[o] = Absent
         /\ outbox[o].status = "pending" => IntentPhase(o) = "waiting"
         /\ outbox[o].status = "sending" =>
              IntentPhase(o) = IF issued[o] = 0 THEN "waiting" ELSE "attempted"
         /\ outbox[o].status = "unknown" => IntentPhase(o) = "attempted"
<1>1. PhaseFacts(o)
  BY PhaseOf
<1>2. quarantine[o] = Absent
  BY DEF LiveApart
<1>3. QED
  BY <1>1, <1>2 DEF PhaseFacts

(* Sends become unknown, which presumes that those still in the process    *)
(* have left.                                                              *)
LEMMA UnknownMoves ==
  ASSUME LiveApart, IssuedOnce, NEW ops \in SUBSET InStatus({"sending"}),
         \A o \in OpId : IF o \in ops THEN outbox'[o].status = "unknown"
                                      ELSE outbox'[o] = outbox[o],
         UNCHANGED <<quarantine, issued, nextOp>>
  PROVE  IntentMoves
<1> DEFINE unsent == {o \in ops : issued[o] = 0}
<1>1. PICK set : set = unsent
  OBVIOUS
<1>2. set \in SUBSET OpId
  BY <1>1 DEF InStatus
<1>3. \A o \in set : IntentPhase(o) = "waiting"
  BY <1>1, LivePhase DEF InStatus, LiveStatus
<1>4. ASSUME NEW o \in OpId
      PROVE  IntentPhase(o)' = IF o \in set THEN "attempted" ELSE IntentPhase(o)
  <2>1. CASE o \in ops
    <3>1. outbox[o].status = "sending" /\ outbox'[o].status = "unknown"
      BY <2>1 DEF InStatus
    <3>2. quarantine'[o] = Absent
      BY <3>1, LivePhase DEF LiveStatus
    <3>3. IntentPhase(o)' = "attempted"
      BY <3>1, <3>2, PhaseOf DEF PhaseFacts
    <3>4. QED
      BY <1>1, <2>1, <3>1, <3>3, LivePhase DEF LiveStatus
  <2>2. CASE o \notin ops
    BY <1>1, <2>2, SamePhase
  <2>3. QED
    BY <2>1, <2>2
<1>5. QED
  BY <1>2, <1>3, <1>4, PresumeMoves

LEMMA WriteMoves ==
  ASSUME SyncSafe, OpSafe, LiveApart, NEW t \in Task, NEW new \in TaskFields,
         LocalWrite(t, new), issued' = issued
  PROVE  IntentMoves
<1> USE DEF SyncSafe, StoreSafe
<1>1. ASSUME NEW baseline, outbox' = Enqueued(t, new, baseline), nextOp < MaxOps,
             nextOp' = nextOp + 1, quarantine' = quarantine
      PROVE  IntentMoves
  <2>1. /\ nextOp + 1 \in OpId /\ nextOp \in Nat
        /\ OpsOf(t, {"pending"}) \in SUBSET OpId
    BY <1>1, BoundsAssumption DEF OpId, StoreTypeOK, OpsOf
  <2>2. PICK n \in OpId, older \in SUBSET OpId :
          n = nextOp + 1 /\ older = OpsOf(t, {"pending"})
    BY <2>1
  <2>3. \A o \in older : outbox[o].status = "pending" /\ IntentPhase(o) = "waiting"
                           /\ quarantine[o] = Absent
    BY <2>1, <2>2, LivePhase DEF OpsOf, LiveStatus, OpSafe, RowsOwned
  <2>4. outbox[n] = Absent /\ quarantine[n] = Absent /\ ~(n <= nextOp) /\ n \notin older
    BY <2>1, <2>2, <2>3 DEF StoreKept, RowsEnqueued, Absent
  <2>5. IntentPhase(n) = "none"
    BY <2>4, PhaseOf DEF PhaseFacts
  <2>6. ASSUME NEW o \in OpId
        PROVE  IntentPhase(o)' = IF o = n THEN "waiting"
                                 ELSE IF o \in older THEN "withdrawn" ELSE IntentPhase(o)
    <3>1. CASE o = n
      <4>1. outbox'[o].status = "pending" /\ quarantine'[o] = Absent
        BY <1>1, <2>1, <2>2, <2>4, <3>1 DEF Enqueued
      <4>2. QED
        BY <3>1, <4>1, PhaseOf DEF PhaseFacts
    <3>2. CASE o # n /\ o \in older
      <4>1. outbox[o] \in Operation
        BY <2>3, <3>2, RowIsOperation DEF StoreTypeOK, OpStatus
      <4>2. outbox'[o] = [outbox[o] EXCEPT !.status = "superseded"]
        BY <1>1, <2>1, <2>2, <3>2 DEF Enqueued
      <4>3. outbox'[o].status = "superseded" /\ quarantine'[o] = Absent
        BY <1>1, <2>3, <3>2, <4>1, <4>2 DEF Operation
      <4>4. QED
        BY <3>2, <4>3, PhaseOf DEF PhaseFacts
    <3>3. CASE o # n /\ o \notin older
      <4>1. outbox'[o] = outbox[o]
        BY <1>1, <2>1, <2>2, <3>3 DEF Enqueued
      <4>2. (o <= nextOp') <=> (o <= nextOp)
        BY <1>1, <2>1, <2>2, <3>3 DEF OpId
      <4>3. QED
        BY <1>1, <3>3, <4>1, <4>2, SamePhase
    <3>4. QED
      BY <3>1, <3>2, <3>3
  <2>7. QED
    BY <2>2, <2>3, <2>5, <2>6, RecordMoves
<1>2. CASE WriteLinkedTask(t, new)
  <2>1. PICK old : old = mapping[t].baseline
    OBVIOUS
  <2>2. QED
    BY <1>1, <1>2, <2>1 DEF WriteLinkedTask
<1>3. CASE CreateLinkedTask(t, new)
  BY <1>1, <1>3 DEF CreateLinkedTask
<1>4. CASE WriteLocalTask(t, new)
  BY <1>4, RowsStay DEF WriteLocalTask
<1>5. QED
  BY <1>2, <1>3, <1>4 DEF LocalWrite

LEMMA ConfirmMoves ==
  ASSUME SyncSafe, OpSafe, LiveApart, NEW o \in OpId, NEW copy \in Copy,
         NEW fields \in TaskFields, Confirm(o, copy, fields), issued' = issued
  PROVE  IntentMoves
<1> USE DEF SyncSafe, StoreSafe
<1>1. /\ outbox[o].status \in OpenWrite /\ outbox' = Settled(o, fields)
      /\ UNCHANGED <<quarantine, nextOp>>
  BY DEF Confirm, Confirmable, OpenWrite
<1>2. outbox[o] \in Operation
  BY <1>1, RowIsOperation DEF StoreTypeOK, OpStatus, OpenWrite
<1>3. PICK same : same = {p \in OpsOf(outbox[o].task, {"pending"}) : outbox[p].desired = fields}
  OBVIOUS
<1>4. same \in SUBSET OpId /\ o \notin same
  BY <1>1, <1>3 DEF OpsOf, OpenWrite
<1>5. \A p \in same : IntentPhase(p) = "waiting" /\ quarantine[p] = Absent
  BY <1>3, LivePhase DEF OpsOf, LiveStatus, OpSafe, RowsOwned
<1>6. IntentPhase(o) \in {"waiting", "attempted"} /\ quarantine[o] = Absent
  BY <1>1, LivePhase DEF LiveStatus, OpenWrite, OpSafe, RowsOwned
<1>7. ASSUME NEW p \in OpId
      PROVE  IntentPhase(p)' = IF p \in {o} \cup same THEN "settled" ELSE IntentPhase(p)
  <2>1. CASE p = o
    <3>1. outbox'[p].status = "confirmed"
      BY <1>1, <1>2, <2>1 DEF Settled, Operation
    <3>2. QED
      BY <1>1, <1>6, <2>1, <3>1, PhaseOf DEF PhaseFacts
  <2>2. CASE p # o /\ p \in OpsOf(outbox[o].task, {"pending"})
    <3>1. outbox[p].status = "pending" /\ outbox[p] \in Operation
      BY <2>2, RowIsOperation DEF OpsOf, StoreTypeOK, OpStatus
    <3>2. quarantine[p] = Absent /\ IntentPhase(p) = "waiting"
      BY <3>1, LivePhase DEF LiveStatus, OpSafe, RowsOwned
    <3>3. outbox'[p] = [outbox[p] EXCEPT !.baseline = fields,
                          !.status = IF outbox[p].desired = fields
                                       THEN "confirmed" ELSE "pending"]
      BY <1>1, <2>2 DEF Settled
    <3>4. outbox'[p].status = IF outbox[p].desired = fields THEN "confirmed" ELSE "pending"
      BY <3>1, <3>3 DEF Operation
    <3>5. p \in same <=> outbox[p].desired = fields
      BY <1>3, <2>2
    <3>6. PhaseFacts(p)'
      BY PhaseOf
    <3>7. QED
      BY <1>1, <2>2, <3>2, <3>4, <3>5, <3>6 DEF PhaseFacts
  <2>3. CASE p # o /\ p \notin OpsOf(outbox[o].task, {"pending"})
    <3>1. outbox'[p] = outbox[p] /\ p \notin same
      BY <1>1, <1>3, <2>3 DEF Settled
    <3>2. QED
      BY <1>1, <2>3, <3>1, SamePhase
  <2>4. QED
    BY <2>1, <2>2, <2>3
<1>8. QED
  BY <1>4, <1>5, <1>6, <1>7, SettleMoves

LEMMA MergeMoves ==
  ASSUME SyncSafe, OpSafe, LiveApart, NEW o \in OpId, NEW fields \in TaskFields,
         MergePreflight(o, fields), issued' = issued
  PROVE  IntentMoves
<1> DEFINE merged == Merged(outbox[o].baseline, outbox[o].desired, fields)
<1> USE DEF SyncSafe, StoreSafe
<1>1. outbox[o].status = "sending" /\ UNCHANGED <<quarantine, nextOp>>
  BY DEF MergePreflight, Rebasable, CanDispatch
<1>2. outbox[o] \in Operation
  BY <1>1, RowIsOperation DEF StoreTypeOK, OpStatus
<1>3. /\ outbox'[o] = [outbox[o] EXCEPT !.baseline = fields, !.desired = merged]
      /\ \A p \in OpId \ {o} : outbox'[p] = outbox[p]
  BY DEF MergePreflight, StoreTypeOK
<1> HIDE DEF merged
<1>4. outbox'[o].status = outbox[o].status
  BY <1>2, <1>3 DEF Operation
<1>5. IntentPhase(o)' = IntentPhase(o)
  <2>1. quarantine[o] = Absent
    BY <1>1, LivePhase DEF LiveStatus, OpSafe, RowsOwned
  <2>2. QED
    BY <1>1, <1>4, <2>1, PhaseOf DEF PhaseFacts
<1>6. QED
  BY <1>1, <1>3, <1>5, SamePhase, PhasesStay

LEMMA MarkUnknownMoves ==
  ASSUME SyncSafe, OpSafe, LiveApart, NEW o \in OpId, MarkUnknown(o), issued' = issued
  PROVE  IntentMoves
<1> USE DEF SyncSafe, StoreSafe
<1>1. outbox[o].status = "sending" /\ UNCHANGED <<quarantine, nextOp>>
  BY DEF MarkUnknown
<1>2. outbox[o] \in Operation
  BY <1>1, RowIsOperation DEF StoreTypeOK, OpStatus
<1>3. /\ outbox'[o] = [outbox[o] EXCEPT !.status = "unknown"]
      /\ \A p \in OpId \ {o} : outbox'[p] = outbox[p]
  BY DEF MarkUnknown, StoreTypeOK
<1>4. outbox'[o].status = "unknown"
  BY <1>2, <1>3 DEF Operation
<1>5. {o} \in SUBSET InStatus({"sending"})
  BY <1>1 DEF InStatus
<1>6. QED
  BY <1>1, <1>3, <1>4, <1>5, UnknownMoves DEF OpSafe, RowsOwned

LEMMA StopMoves ==
  ASSUME SyncSafe, OpSafe, LiveApart, issued' = issued,
         RecoverOrphans \/ \E s \in Sender : Instance(s)
  PROVE  IntentMoves
<1> USE DEF SyncSafe, StoreSafe
<1>1. UNCHANGED <<quarantine, nextOp>>
  BY DEF RecoverOrphans, Instance, OpenStore, CloseStore, CrashStore
<1>2. ASSUME NEW ops \in SUBSET InStatus({"sending"}), outbox' = SetStatus(ops, "unknown")
      PROVE  IntentMoves
  <2>1. ASSUME NEW o \in OpId
        PROVE  IF o \in ops THEN outbox'[o].status = "unknown"
                            ELSE outbox'[o] = outbox[o]
    <3>1. CASE o \in ops
      <4>1. outbox[o] \in Operation
        BY <1>2, <3>1, RowIsOperation DEF InStatus, StoreTypeOK, OpStatus
      <4>2. outbox'[o] = [outbox[o] EXCEPT !.status = "unknown"]
        BY <1>2, <3>1 DEF SetStatus
      <4>3. QED
        BY <3>1, <4>1, <4>2 DEF Operation
    <3>2. CASE o \notin ops
      BY <1>2, <3>2 DEF SetStatus
    <3>3. QED
      BY <3>1, <3>2
  <2>2. QED
    BY <1>1, <1>2, <2>1, UnknownMoves DEF OpSafe, RowsOwned
<1>3. CASE outbox' = Recovered
  <2>1. PICK ops : ops = Orphans
    OBVIOUS
  <2>2. ops \in SUBSET InStatus({"sending"}) /\ outbox' = SetStatus(ops, "unknown")
    BY <1>3, <2>1 DEF Recovered, Orphans
  <2>3. QED
    BY <1>2, <2>2
<1>4. ASSUME NEW s \in Sender, CloseStore(s)
      PROVE  IntentMoves
  <2> DEFINE left == {o \in InStatus({"sending"}) : outbox[o].owner \notin live \ {s}}
  <2>1. PICK ops : ops = left
    OBVIOUS
  <2>2. ops \in SUBSET InStatus({"sending"}) /\ outbox' = SetStatus(ops, "unknown")
    BY <1>4, <2>1 DEF CloseStore
  <2>3. QED
    BY <1>2, <2>2
<1>5. CASE outbox' = outbox
  BY <1>1, <1>5, RowsStay
<1>6. QED
  BY <1>3, <1>4, <1>5 DEF RecoverOrphans, Instance, OpenStore, CrashStore

LEMMA RowMoves ==
  ASSUME SyncSafe, OpSafe, LiveApart, NEW o \in OpId, issued[o] = 0,
         outbox[o].status \in {"pending", "sending"},
         outbox'[o].status \in {"pending", "sending", "superseded"},
         \A p \in OpId \ {o} : outbox'[p] = outbox[p],
         UNCHANGED <<quarantine, nextOp, issued>>
  PROVE  IntentMoves
<1>1. issued'[o] = issued[o]
  OBVIOUS
<1>2. quarantine[o] = Absent /\ IntentPhase(o) = "waiting"
  BY <1>1, LivePhase DEF LiveStatus, OpSafe, RowsOwned
<1>3. \A p \in OpId \ {o} : IntentPhase(p)' = IntentPhase(p)
  BY <1>1, SamePhase
<1>4. PhaseFacts(o)'
  BY PhaseOf
<1>5. CASE outbox'[o].status = "superseded"
  <2>1. IntentPhase(o)' = "withdrawn"
    BY <1>1, <1>2, <1>4, <1>5 DEF PhaseFacts
  <2>2. QED
    BY <1>2, <1>3, <2>1, WithdrawMoves
<1>6. CASE outbox'[o].status \in {"pending", "sending"}
  <2>1. IntentPhase(o)' = "waiting"
    BY <1>1, <1>2, <1>4, <1>6 DEF PhaseFacts
  <2>2. QED
    BY <1>2, <1>3, <2>1, PhasesStay
<1>7. QED
  BY <1>1, <1>5, <1>6

LEMMA SendMoves ==
  ASSUME SyncSafe, OpSafe, LiveApart, UNCHANGED storeVars, NEW o \in OpId,
         outbox[o].status = "sending", issued[o] = 0, issued' = [issued EXCEPT ![o] = 1]
  PROVE  IntentMoves
<1>1. /\ issued'[o] = 1 /\ \A p \in OpId \ {o} : issued'[p] = issued[p]
      /\ UNCHANGED <<outbox, quarantine, nextOp>>
  BY DEF SyncSafe, SyncTyped, storeVars
<1>2. quarantine[o] = Absent /\ IntentPhase(o) = "waiting"
  BY LivePhase DEF LiveStatus, OpSafe, RowsOwned
<1>3. IntentPhase(o)' = "attempted"
  <2>1. PhaseFacts(o)'
    BY PhaseOf
  <2>2. QED
    BY <1>1, <1>2, <2>1 DEF PhaseFacts
<1>4. \A p \in OpId \ {o} : IntentPhase(p)' = IntentPhase(p)
  BY <1>1, SamePhase
<1>5. QED
  BY <1>2, <1>3, <1>4, PresumeMoves

(* A request that leaves after a replacement is for an isolated intent. *)
LEMMA LateMoves ==
  ASSUME SyncSafe, UNCHANGED storeVars, NEW o \in OpId, quarantine[o] # Absent,
         issued' = [issued EXCEPT ![o] = 1]
  PROVE  IntentMoves
<1>1. /\ \A p \in OpId \ {o} : issued'[p] = issued[p]
      /\ UNCHANGED <<outbox, quarantine, nextOp>>
  BY DEF SyncSafe, SyncTyped, storeVars
<1>2. IntentPhase(o) = "isolated" /\ IntentPhase(o)' = "isolated"
  <2>1. PhaseFacts(o) /\ PhaseFacts(o)'
    BY PhaseOf
  <2>2. QED
    BY <1>1, <2>1 DEF PhaseFacts
<1>3. \A p \in OpId \ {o} : IntentPhase(p)' = IntentPhase(p)
  BY <1>1, SamePhase
<1>4. QED
  BY <1>2, <1>3, PhasesStay

LEMMA NeutralMoves ==
  ASSUME SyncSafe, OpSafe, LiveApart, Neutral, issued' = issued, StoreTypeOK'
  PROVE  IntentMoves
<1>1. CASE UNCHANGED storeVars
  BY <1>1, RowsStay DEF storeVars
<1>2. CASE Fence
  <2>1. CASE ReplaceAllData
    BY <2>1, ReplaceMoves
  <2>2. CASE ~ReplaceAllData
    <3>1. UNCHANGED <<outbox, quarantine, nextOp>>
      BY <1>2, <2>2 DEF Fence, Pause, Resume, Disconnect, CredentialChanged, Reconnect,
         DeadlinePasses, PauseForRestore, Export, SetConn
    <3>2. QED
      BY <3>1, RowsStay
  <2>3. QED
    BY <2>1, <2>2
<1>3. QED
  BY <1>1, <1>2, WriteMoves, StopMoves, MergeMoves, MarkUnknownMoves, ConfirmMoves
  DEF Neutral, Aside

LEMMA IntentStep ==
  ASSUME SyncSafe, OpSafe, LiveApart, [Next]_vars
  PROVE  IntentMoves
<1>1. StoreTypeOK'
  BY StepOfStore, StoreStep DEF SyncSafe, StoreSafe
<1>2. CASE issued' = issued /\ Neutral
  BY <1>1, <1>2, NeutralMoves
<1>3. ASSUME issued' = issued, NEW o \in OpId, NEW s \in Sender, MarkSending(o, s)
      PROVE  IntentMoves
  <2>1. issued[o] = 0
    BY <1>3, ClaimRow DEF SyncSafe, StoreSafe, OpSafe, RowsOwned, IssuedOnce
  <2>2. QED
    BY <1>3, <2>1, ClaimRow, RowMoves DEF SyncSafe, StoreSafe
<1>4. ASSUME issued' = issued, NEW o \in OpId, Returns(o), issued[o] = 0
      PROVE  IntentMoves
  BY <1>4, ReturnRow, RowMoves DEF SyncSafe, StoreSafe
<1>5. ASSUME UNCHANGED storeVars, NEW o \in OpId,
             outbox[o].status = "sending" \/ quarantine[o] # Absent,
             issued[o] = 0, issued' = [issued EXCEPT ![o] = 1]
      PROVE  IntentMoves
  BY <1>5, SendMoves, LateMoves
<1>6. QED
  BY <1>2, <1>3, <1>4, <1>5, StepKinds

LEMMA IntentStart == Init => Intents!IntentInit
<1> SUFFICES ASSUME Init
             PROVE  Intents!IntentInit
  OBVIOUS
<1>1. ASSUME NEW o \in OpId
      PROVE  IntentPhase(o) = "none"
  <2>1. outbox[o] = Absent /\ quarantine[o] = Absent /\ ~(o <= nextOp)
    BY DEF Init, StoreInit, OpId
  <2>2. QED
    BY <2>1, PhaseOf DEF PhaseFacts
<1>2. QED
  BY <1>1 DEF Intents!IntentInit

(* Whatever the processes, the network and restores do, every write intent *)
(* keeps the promise of NotionIntent: it waits, and once its write may     *)
(* have reached Notion it is only settled or isolated, never tried again   *)
(* and never forgotten (the outbox of sqlite-planner-store.ts with its     *)
(* dispatchers, recovery and replaceAllData).                              *)
THEOREM IntentKept == Spec => ImplementsIntent
<1>1. SyncSafe /\ OpSafe /\ LiveApart /\ [Next]_vars
        => [Intents!IntentNext]_[o \in OpId |-> IntentPhase(o)]
  BY IntentStep DEF IntentMoves
<1>2. QED
  BY <1>1, IntentStart, SyncInductive, OpInductive, ApartInductive, PTL
  DEF Spec, ImplementsIntent, Intents!IntentSpec

----------------------------------------------------------------------------
(* What an attempt and its process agree on.  An open write keeps what it  *)
(* wants, and while it is sending its link keeps the baseline it starts    *)
(* from, but for the merge of the process that works on it.                *)

(* Nothing but sends whose outcome is now unknown. *)
Demoted ==
  /\ UNCHANGED <<task, mapping>>
  /\ \A o \in OpId :
       \/ outbox'[o] = outbox[o]
       \/ /\ outbox[o].status = "sending"
          /\ outbox'[o] = [outbox[o] EXCEPT !.status = "unknown"]

LEMMA SetUnknownDemotes ==
  ASSUME NEW ops, ops \subseteq InStatus({"sending"}),
         outbox' = SetStatus(ops, "unknown"), UNCHANGED <<task, mapping>>
  PROVE  Demoted
  BY DEF Demoted, SetStatus, InStatus

LEMMA MarkUnknownDemotes ==
  ASSUME StoreTypeOK, NEW o \in OpId, MarkUnknown(o)
  PROVE  Demoted
  BY DEF Demoted, MarkUnknown, StoreTypeOK

LEMMA SameRowsDemote ==
  ASSUME UNCHANGED <<task, mapping>>, outbox' = outbox
  PROVE  Demoted
  BY DEF Demoted

LEMMA RecoveryDemotes ==
  ASSUME outbox' = Recovered, UNCHANGED <<task, mapping>>
  PROVE  Demoted
<1>1. PICK ops : ops = Orphans
  OBVIOUS
<1>2. ops \subseteq InStatus({"sending"}) /\ outbox' = SetStatus(ops, "unknown")
  BY <1>1 DEF Recovered, Orphans
<1>3. QED
  BY <1>2, SetUnknownDemotes

LEMMA FenceDemotes ==
  ASSUME Fence, ~ReplaceAllData
  PROVE  Demoted
  BY SameRowsDemote DEF Fence, Pause, Resume, Disconnect, CredentialChanged, Reconnect,
     DeadlinePasses, PauseForRestore, Export, SetConn

LEMMA InstanceDemotes ==
  ASSUME NEW s \in Sender, Instance(s)
  PROVE  Demoted
<1>1. CASE OpenStore(s)
  BY <1>1, RecoveryDemotes DEF OpenStore
<1>2. CASE CrashStore(s)
  BY <1>2, SameRowsDemote DEF CrashStore
<1>3. CASE CloseStore(s)
  <2> DEFINE left == {o \in InStatus({"sending"}) : outbox[o].owner \notin live \ {s}}
  <2>1. PICK ops : ops = left
    OBVIOUS
  <2>2. ops \subseteq InStatus({"sending"})
    BY <2>1
  <2>3. outbox' = SetStatus(ops, "unknown") /\ UNCHANGED <<task, mapping>>
    BY <1>3, <2>1 DEF CloseStore
  <2>4. QED
    BY <2>2, <2>3, SetUnknownDemotes
<1>4. QED
  BY <1>1, <1>2, <1>3 DEF Instance

LEMMA AsideDemotes ==
  ASSUME Aside
  PROVE  \/ Demoted
         \/ ReplaceAllData
         \/ \E t \in Task, new \in TaskFields : LocalWrite(t, new)
  BY SameRowsDemote, RecoveryDemotes, FenceDemotes, InstanceDemotes
  DEF Aside, RecoverOrphans, storeVars

HeldRow(o) ==
  outbox'[o].status \in OpenWrite =>
    /\ outbox[o].status \in OpenWrite
    /\ outbox'[o].task = outbox[o].task
    /\ outbox'[o].desired = outbox[o].desired
    /\ outbox'[o].baseline = outbox[o].baseline
    /\ outbox'[o].status = "sending" =>
         /\ outbox[o].status = "sending"
         /\ mapping'[outbox[o].task] = mapping[outbox[o].task]

Held == \A o \in OpId : HeldRow(o)

LEMMA DemotedHeld ==
  ASSUME StoreTypeOK, Demoted
  PROVE  Held
<1> SUFFICES ASSUME NEW o \in OpId
             PROVE  HeldRow(o)
  BY DEF Held
<1>1. CASE outbox'[o] = outbox[o]
  BY <1>1 DEF HeldRow, Demoted
<1>2. CASE outbox[o].status = "sending" /\ outbox'[o] = [outbox[o] EXCEPT !.status = "unknown"]
  <2>1. outbox[o] \in Operation
    BY <1>2, RowIsOperation DEF StoreTypeOK, OpStatus
  <2>2. QED
    BY <1>2, <2>1 DEF HeldRow, OpenWrite, Operation
<1>3. QED
  BY <1>1, <1>2 DEF Demoted

(* Rows that are not touched, or not open any more. *)
LEMMA HeldIf ==
  ASSUME StoreTypeOK,
         \A o \in OpId : outbox'[o] = outbox[o] \/ outbox'[o].status \notin OpenWrite,
         \A o \in OpId : outbox'[o].status = "sending" /\ outbox[o].task \in Task =>
           mapping'[outbox[o].task] = mapping[outbox[o].task]
  PROVE  Held
<1> SUFFICES ASSUME NEW o \in OpId, outbox'[o].status \in OpenWrite
             PROVE  HeldRow(o)
  BY DEF Held, HeldRow
<1>1. outbox'[o] = outbox[o]
  OBVIOUS
<1>2. outbox[o] \in Operation
  BY <1>1, RowIsOperation DEF StoreTypeOK, OpStatus, OpenWrite
<1>3. outbox[o].task \in Task
  BY <1>2 DEF Operation
<1>4. QED
  BY <1>1, <1>3 DEF HeldRow

LEMMA LocalWriteHeld ==
  ASSUME StoreTypeOK, SendsAlone, NEW t \in Task, NEW new \in TaskFields,
         LocalWrite(t, new)
  PROVE  Held
<1>1. ASSUME NEW baseline, NEW o \in OpId, outbox' = Enqueued(t, new, baseline)
      PROVE  outbox'[o] = outbox[o] \/ outbox'[o].status \notin OpenWrite
  <2>1. CASE o # nextOp + 1 /\ o \in OpsOf(t, {"pending"})
    <3>1. outbox[o] \in Operation
      BY <2>1, RowIsOperation DEF OpsOf, StoreTypeOK, OpStatus
    <3>2. outbox'[o] = [outbox[o] EXCEPT !.status = "superseded"]
      BY <1>1, <2>1 DEF Enqueued
    <3>3. QED
      BY <3>1, <3>2 DEF Operation, OpenWrite
  <2>2. QED
    BY <1>1, <2>1 DEF Enqueued, OpenWrite
<1>2. \A o \in OpId : outbox'[o] = outbox[o] \/ outbox'[o].status \notin OpenWrite
  <2>1. PICK old : old = mapping[t].baseline
    OBVIOUS
  <2>2. outbox' = Enqueued(t, new, old) \/ outbox' = Enqueued(t, new, NoFields)
          \/ outbox' = outbox
    BY <2>1 DEF LocalWrite, WriteLinkedTask, CreateLinkedTask, WriteLocalTask
  <2>3. QED
    BY <1>1, <2>2
<1>3. ASSUME NEW o \in OpId, outbox'[o].status = "sending", outbox[o].task \in Task
      PROVE  mapping'[outbox[o].task] = mapping[outbox[o].task]
  <2>1. outbox[o].status = "sending"
    BY <1>2, <1>3 DEF OpenWrite
  <2>2. mapping[outbox[o].task].state # "none"
    BY <2>1 DEF SendsAlone, InStatus
  <2>3. mapping' = mapping
          \/ (mapping[t].state = "none" /\ \A u \in Task \ {t} : mapping'[u] = mapping[u])
    BY DEF LocalWrite, WriteLinkedTask, CreateLinkedTask, WriteLocalTask, StoreTypeOK
  <2>4. QED
    BY <1>3, <2>2, <2>3
<1>4. QED
  BY <1>2, <1>3, HeldIf

LEMMA ConfirmHeld ==
  ASSUME StoreTypeOK, SingleInFlight, NEW o \in OpId, NEW copy \in Copy,
         NEW fields \in TaskFields, Confirm(o, copy, fields)
  PROVE  Held
<1>1. outbox[o].status \in OpenWrite /\ outbox' = Settled(o, fields)
  BY DEF Confirm, Confirmable, OpenWrite
<1>2. outbox[o] \in Operation
  BY <1>1, RowIsOperation DEF StoreTypeOK, OpStatus, OpenWrite
<1>3. ASSUME NEW p \in OpId
      PROVE  outbox'[p].status \notin OpenWrite \/ (p # o /\ outbox'[p] = outbox[p])
  <2>1. CASE p = o
    BY <1>1, <1>2, <2>1 DEF Settled, Operation, OpenWrite
  <2>2. CASE p # o /\ p \in OpsOf(outbox[o].task, {"pending"})
    <3>1. outbox[p] \in Operation
      BY <2>2, RowIsOperation DEF OpsOf, StoreTypeOK, OpStatus
    <3>2. outbox'[p] = [outbox[p] EXCEPT !.baseline = fields,
                          !.status = IF outbox[p].desired = fields
                                       THEN "confirmed" ELSE "pending"]
      BY <1>1, <2>2 DEF Settled
    <3>3. QED
      BY <3>1, <3>2 DEF Operation, OpenWrite
  <2>3. CASE p # o /\ p \notin OpsOf(outbox[o].task, {"pending"})
    BY <1>1, <2>3 DEF Settled
  <2>4. QED
    BY <2>1, <2>2, <2>3
<1>4. ASSUME NEW p \in OpId, outbox'[p].status = "sending", outbox[p].task \in Task
      PROVE  mapping'[outbox[p].task] = mapping[outbox[p].task]
  <2>1. p # o /\ outbox[p].status = "sending"
    BY <1>3, <1>4 DEF OpenWrite
  <2>2. outbox[p].task # outbox[o].task
    BY <1>1, <2>1 DEF SingleInFlight, InStatus, OpenWrite
  <2>3. QED
    BY <1>4, <2>2, ConfirmLinks
<1>5. QED
  BY <1>3, <1>4, HeldIf

LEMMA ReturnHeld ==
  ASSUME StoreTypeOK, NEW o \in OpId, Returns(o)
  PROVE  Held
<1>1. mapping' = mapping
  BY DEF Returns, SupersedeUnsent, PauseUnsent, DeferUnsent
<1>2. QED
  BY <1>1, ReturnRow, HeldIf DEF OpenWrite

LEMMA ReplaceHeld ==
  ASSUME StoreTypeOK, ReplaceAllData
  PROVE  Held
  BY ReplacedRows DEF Held, HeldRow, OpenWrite, LiveStatus

LEMMA AsideHeld ==
  ASSUME SyncSafe, Aside
  PROVE  Held
  BY AsideDemotes, DemotedHeld, LocalWriteHeld, ReplaceHeld
  DEF SyncSafe, StoreSafe, StoreKept

(* The row a merge rewrites, and every other. *)
LEMMA MergeRow ==
  ASSUME StoreTypeOK, NEW o \in OpId, NEW fields \in TaskFields, MergePreflight(o, fields)
  PROVE  /\ outbox[o] \in Operation /\ outbox[o].status = "sending"
         /\ task[outbox[o].task] = outbox[o].desired
         /\ outbox'[o].status = "sending" /\ outbox'[o].task = outbox[o].task
         /\ outbox'[o].desired = Merged(outbox[o].baseline, outbox[o].desired, fields)
         /\ outbox'[o].baseline = fields
         /\ mapping'[outbox[o].task].baseline = fields
         /\ task'[outbox[o].task] = outbox'[o].desired
         /\ \A p \in OpId \ {o} : outbox'[p] = outbox[p]
         /\ \A t \in Task \ {outbox[o].task} : mapping'[t] = mapping[t] /\ task'[t] = task[t]
<1> DEFINE t == outbox[o].task
           merged == Merged(outbox[o].baseline, outbox[o].desired, fields)
<1>1. /\ outbox[o].status = "sending" /\ task[t] = outbox[o].desired
      /\ mapping' = [mapping EXCEPT ![t].baseline = fields]
      /\ task' = [task EXCEPT ![t] = merged]
  BY DEF MergePreflight, Rebasable, CanDispatch, MatchesTask
<1>2. outbox[o] \in Operation
  BY <1>1, RowIsOperation DEF StoreTypeOK, OpStatus
<1>3. t \in Task
  BY <1>2 DEF Operation
<1>4. /\ outbox'[o] = [outbox[o] EXCEPT !.baseline = fields, !.desired = merged]
      /\ \A p \in OpId \ {o} : outbox'[p] = outbox[p]
  BY DEF MergePreflight, StoreTypeOK
<1> HIDE DEF merged
<1>5. /\ outbox'[o].status = "sending" /\ outbox'[o].task = t
      /\ outbox'[o].desired = merged /\ outbox'[o].baseline = fields
  BY <1>1, <1>2, <1>4 DEF Operation
<1>6. task'[t] = merged /\ \A u \in Task \ {t} : task'[u] = task[u]
  BY <1>1, <1>3 DEF StoreTypeOK
<1>7. mapping[t] \in Mapping
  BY <1>3 DEF StoreTypeOK
<1>8. /\ mapping'[t] = [mapping[t] EXCEPT !.baseline = fields]
      /\ \A u \in Task \ {t} : mapping'[u] = mapping[u]
  BY <1>1, <1>3 DEF StoreTypeOK
<1>9. mapping'[t].baseline = fields
  BY <1>7, <1>8 DEF Mapping
<1>10. QED
  BY <1>1, <1>2, <1>4, <1>5, <1>6, <1>8, <1>9 DEF merged

(* The row a claim rewrites.  Links and tasks stay. *)
LEMMA ClaimedRow ==
  ASSUME StoreTypeOK, NEW o \in OpId, NEW s \in Sender, MarkSending(o, s)
  PROVE  /\ outbox[o] \in Operation
         /\ outbox'[o].task = outbox[o].task
         /\ outbox'[o].desired = outbox[o].desired
         /\ outbox'[o].baseline = outbox[o].baseline
         /\ outbox[o].baseline = mapping[outbox[o].task].baseline
         /\ MatchesTask(outbox[o])
         /\ UNCHANGED <<task, mapping>>
<1>1. /\ outbox[o].status = "pending" /\ UNCHANGED <<task, mapping>>
      /\ outbox[o].baseline = mapping[outbox[o].task].baseline /\ MatchesTask(outbox[o])
  BY DEF MarkSending, Claimable
<1>2. outbox[o] \in Operation
  BY <1>1, RowIsOperation DEF StoreTypeOK, OpStatus
<1>3. outbox'[o] = [outbox[o] EXCEPT !.status = "sending", !.owner = s]
  BY DEF MarkSending, StoreTypeOK
<1>4. QED
  BY <1>1, <1>2, <1>3 DEF Operation

(* Every step holds the open writes, claims one or merges into one. *)
Carried(s, j) ==
  \/ j = job[s] \/ j \notin Job
  \/ LetPass(s, j) \/ WentOn(s, j) \/ SentBy(s, j) \/ Reconciled(s, j)

LEMMA HeldCases ==
  ASSUME SyncSafe, OpSafe, [Next]_vars
  PROVE  \/ Held /\ \A s \in Sender : \E j : j = job'[s] /\ Carried(s, j)
         \/ \E s \in Sender, j \in JobState :
              /\ job' = [job EXCEPT ![s] = j]
              /\ Claimed(s, j) \/ MergedInto(s, j)
<1> USE DEF SyncSafe, StoreSafe
<1>1. ASSUME NEW s \in Sender, NEW j \in JobState, Dispatched(s, j),
             ~Claimed(s, j), ~MergedInto(s, j)
      PROVE  Held /\ \A r \in Sender : \E k : k = job'[r] /\ Carried(r, k)
  <2>1. j \notin Job \/ WentOn(s, j) \/ SentBy(s, j)
    BY <1>1 DEF Dispatched, Ended, Idle, Loops, Job, Place
  <2>2. \A r \in Sender : \E k : k = job'[r] /\ Carried(r, k)
    BY <1>1, <2>1 DEF Dispatched, SyncTyped, Carried
  <2>3. ASSUME job[s] \in Job
        PROVE  job[s].op \in OpId /\ ReadFirst(job[s])
    BY <2>3 DEF Job, SyncTyped
  <2>4. ASSUME UNCHANGED storeVars \/ RecoverOrphans
        PROVE  Held
    BY <2>4, AsideHeld DEF Aside
  <2>5. CASE Ended(s, j)
    <3>1. CASE job[s] \in Job /\ job[s].pc = "confirm"
               /\ Confirm(job[s].op, job[s].copy, job[s].seen)
      BY <2>2, <2>3, <3>1, ConfirmHeld DEF ReadFirst
    <3>2. CASE job[s] \in Job /\ (Returns(job[s].op) \/ MarkUnknown(job[s].op))
      BY <2>2, <2>3, <3>2, ReturnHeld, MarkUnknownDemotes, DemotedHeld
    <3>3. QED
      BY <2>2, <2>4, <2>5, <3>1, <3>2 DEF Ended
  <2>6. QED
    BY <1>1, <2>2, <2>4, <2>5 DEF Dispatched, WentOn, SentBy
<1>2. CASE OtherStep
  <2>1. Held
    BY <1>2, AsideHeld DEF OtherStep
  <2>2. Idle \notin Job
    BY DEF Idle, Job, Place
  <2>3. \A s \in Sender : \E j : j = job'[s] /\ Carried(s, j)
    BY <1>2, <2>2 DEF OtherStep, Replaced, SyncTyped, Carried
  <2>4. QED
    BY <2>1, <2>3
<1>3. CASE ProviderStep
  BY <1>3, AsideHeld DEF ProviderStep, Aside, Carried
<1>4. QED
  BY <1>1, <1>2, <1>3, StepCases DEF Dispatched

----------------------------------------------------------------------------
Agrees(j) ==
  /\ outbox[j.op].status \in OpenWrite => j.desired = outbox[j.op].desired
  /\ outbox[j.op].status = "sending" => j.baseline = outbox[j.op].baseline

FromLink(o) ==
  outbox[o].status = "sending" => outbox[o].baseline = mapping[outbox[o].task].baseline

InStep ==
  /\ \A o \in OpId : FromLink(o)
  /\ \A s \in Sender : job[s] \in Job => Agrees(job[s])

LEMMA AllAgree ==
  ASSUME \A s \in Sender : \E j : j = job'[s] /\ (j \in Job => Agrees(j)')
  PROVE  \A s \in Sender : job'[s] \in Job => Agrees(job[s])'
  BY DEF Agrees

LEMMA HeldAgrees ==
  ASSUME NEW j \in Job, Agrees(j), HeldRow(j.op)
  PROVE  Agrees(j)'
  BY DEF Agrees, HeldRow, OpenWrite

LEMMA SameRowAgrees ==
  ASSUME NEW j \in Job, Agrees(j), outbox'[j.op] = outbox[j.op]
  PROVE  Agrees(j)'
  BY DEF Agrees

LEMMA CarriedAgrees ==
  ASSUME StoreTypeOK, SyncTyped, InStep, NEW s \in Sender, NEW j \in Job, Carried(s, j)
  PROVE  Agrees(j)
<1>1. CASE LetPass(s, j)
  <2>1. j.op = job[s].op /\ j.desired = job[s].desired /\ j.baseline = job[s].baseline
    BY <1>1 DEF LetPass, SameAttempt, Job
  <2>2. QED
    BY <1>1, <2>1 DEF InStep, Agrees, LetPass, SameAttempt
<1>2. CASE WentOn(s, j) \/ SentBy(s, j)
  BY <1>2 DEF WentOn, Further, SentBy, SameAttempt, SameValues, InStep, Agrees
<1>3. CASE Reconciled(s, j)
  BY <1>3 DEF Reconciled, Dispatching, Agrees
<1>4. QED
  BY <1>1, <1>2, <1>3 DEF Carried, InStep

LEMMA InStepStep ==
  ASSUME SyncSafe, OpSafe, InStep, [Next]_vars
  PROVE  InStep'
<1> USE DEF SyncSafe, StoreSafe
<1>1. CASE Held /\ \A s \in Sender : \E j : j = job'[s] /\ Carried(s, j)
  <2>1. \A o \in OpId : FromLink(o)'
    BY <1>1 DEF InStep, FromLink, Held, HeldRow, OpenWrite
  <2>2. ASSUME NEW s \in Sender, NEW j \in Job, Carried(s, j)
        PROVE  Agrees(j)'
    <3>1. Agrees(j) /\ j.op \in OpId
      BY <2>2, CarriedAgrees DEF Job
    <3>2. QED
      BY <1>1, <3>1, HeldAgrees DEF Held
  <2>3. \A s \in Sender : job'[s] \in Job => Agrees(job[s])'
    BY <1>1, <2>2, AllAgree
  <2>4. QED
    BY <2>1, <2>3 DEF InStep
<1>2. ASSUME NEW s \in Sender, NEW j \in JobState, job' = [job EXCEPT ![s] = j],
             Claimed(s, j)
      PROVE  InStep'
  <2>1. PICK o \in OpId, queue \in SUBSET OpId :
          MarkSending(o, s) /\ j = Dispatching("preflight", queue, o)
    BY <1>2 DEF Claimed
  <2>2. /\ outbox[o].status = "pending" /\ outbox'[o].status = "sending"
        /\ outbox'[o].task = outbox[o].task
        /\ outbox'[o].desired = outbox[o].desired
        /\ outbox'[o].baseline = outbox[o].baseline
        /\ outbox[o].baseline = mapping[outbox[o].task].baseline
        /\ \A p \in OpId \ {o} : outbox'[p] = outbox[p]
        /\ mapping' = mapping
    BY <2>1, ClaimRow, ClaimedRow
  <2>3. \A p \in OpId : FromLink(p)'
    BY <2>2 DEF InStep, FromLink
  <2>4. j.op = o /\ j.desired = outbox[o].desired /\ j.baseline = outbox[o].baseline
    BY <2>1 DEF Dispatching
  <2>5. ASSUME NEW r \in Sender, NEW k, k = job'[r], k \in Job
        PROVE  Agrees(k)'
    <3>1. CASE r = s
      <4>1. k = j
        BY <1>2, <2>5, <3>1 DEF SyncTyped
      <4>2. QED
        BY <2>2, <2>4, <4>1 DEF Agrees
    <3>2. CASE r # s
      <4>1. k = job[r] /\ k.op \in OpId
        BY <1>2, <2>5, <3>2 DEF SyncTyped, Job
      <4>2. k.op # o
        BY <2>2, <2>5, <4>1 DEF OpSafe, RowsOwned, Owns
      <4>3. outbox'[k.op] = outbox[k.op] /\ Agrees(k)
        BY <2>2, <2>5, <4>1, <4>2 DEF InStep
      <4>4. QED
        BY <2>5, <4>3, SameRowAgrees
    <3>3. QED
      BY <3>1, <3>2
  <2>6. QED
    BY <2>3, <2>5, AllAgree DEF InStep
<1>3. ASSUME NEW s \in Sender, NEW j \in JobState, job' = [job EXCEPT ![s] = j],
             MergedInto(s, j)
      PROVE  InStep'
  <2>1. PICK o, fields : o = job[s].op /\ fields = job[s].seen
    OBVIOUS
  <2>2. /\ o \in OpId /\ fields \in TaskFields /\ MergePreflight(o, fields)
        /\ job[s] \in Job /\ j \in Job /\ j.op = o
    BY <1>3, <2>1 DEF MergedInto, SameAttempt, Job, SyncTyped, ReadFirst
  <2>3. /\ outbox[o] \in Operation /\ outbox[o].status = "sending"
        /\ outbox'[o].status = "sending" /\ outbox'[o].task = outbox[o].task
        /\ outbox'[o].desired = Merged(outbox[o].baseline, outbox[o].desired, fields)
        /\ outbox'[o].baseline = fields
        /\ mapping'[outbox[o].task].baseline = fields
        /\ \A p \in OpId \ {o} : outbox'[p] = outbox[p]
        /\ \A t \in Task \ {outbox[o].task} : mapping'[t] = mapping[t]
    BY <2>2, MergeRow
  <2>4. ASSUME NEW p \in OpId, outbox'[p].status = "sending", p # o
        PROVE  FromLink(p)'
    <3>1. outbox'[p] = outbox[p] /\ outbox[p].status = "sending"
      BY <2>3, <2>4
    <3>2. outbox[p].task # outbox[o].task
      BY <2>2, <2>3, <2>4, <3>1 DEF SingleInFlight, InStatus
    <3>3. outbox[p] \in Operation
      BY <3>1, RowIsOperation DEF StoreTypeOK, OpStatus
    <3>4. mapping'[outbox[p].task] = mapping[outbox[p].task]
      BY <2>3, <3>2, <3>3 DEF Operation
    <3>5. QED
      BY <3>1, <3>4 DEF InStep, FromLink
  <2>5. \A p \in OpId : FromLink(p)'
    BY <2>3, <2>4 DEF FromLink
  <2>6. Agrees(job[s])
    BY <2>2 DEF InStep
  <2>7. j.desired = outbox'[o].desired /\ j.baseline = outbox'[o].baseline
    BY <1>3, <2>1, <2>3, <2>6 DEF Agrees, MergedInto, TookMerge, OpenWrite
  <2>8. ASSUME NEW r \in Sender, NEW k, k = job'[r], k \in Job
        PROVE  Agrees(k)'
    <3>1. CASE r = s
      <4>1. k = j
        BY <1>3, <2>8, <3>1 DEF SyncTyped
      <4>2. QED
        BY <2>2, <2>7, <4>1 DEF Agrees
    <3>2. CASE r # s
      <4>1. k = job[r] /\ k.op \in OpId
        BY <1>3, <2>8, <3>2 DEF SyncTyped, Job
      <4>2. k.op # o
        BY <2>1, <2>2, <2>3, <2>8, <3>2, <4>1, OneOwner
      <4>3. outbox'[k.op] = outbox[k.op] /\ Agrees(k)
        BY <2>3, <2>8, <4>1, <4>2 DEF InStep
      <4>4. QED
        BY <2>8, <4>3, SameRowAgrees
    <3>3. QED
      BY <3>1, <3>2
  <2>9. QED
    BY <2>5, <2>8, AllAgree DEF InStep
<1>4. QED
  BY <1>1, <1>2, <1>3, HeldCases

LEMMA InStepInductive == Spec => []InStep
<1>1. Init => InStep
  <2> SUFFICES ASSUME Init
               PROVE  InStep
    OBVIOUS
  <2>1. \A s \in Sender : job[s] \notin Job
    BY DEF Init, Idle, Job, Place
  <2>2. QED
    BY <2>1 DEF Init, StoreInit, Absent, InStep, FromLink
<1>2. SyncSafe /\ OpSafe /\ InStep /\ [Next]_vars => InStep'
  BY InStepStep
<1>3. QED
  BY <1>1, <1>2, SyncInductive, OpInductive, PTL DEF Spec

----------------------------------------------------------------------------
(* Baselines and pages, until somebody edits in Notion or a backup replaces *)
(* the dataset.  A task without a request that may have left is at rest;   *)
(* with one, its page still holds the baseline, or already the values of   *)
(* the attempt with no request left.                                       *)

Pristine == epoch = 0 /\ remoteEdits = 0

NoWire(t) == \A r \in wire : r.task # t

Shared(t) ==
  IF mapping[t].copy = NoCopy THEN Provider!Pages(t) = {}
                              ELSE remote[t][mapping[t].copy] = mapping[t].baseline

AtRest(t) == Shared(t) /\ NoWire(t)

(* The request of an attempt: a create with every field, or the fields that *)
(* differ from the baseline.                                               *)
Asks(t, o, r) ==
  /\ r.op = o /\ r.copy = mapping[t].copy /\ r.fields = outbox[o].desired
  /\ r.only = {f \in Field : \/ mapping[t].copy = NoCopy
                             \/ outbox[o].desired[f] # mapping[t].baseline[f]}

Flying(t, o) ==
  /\ Shared(t)
  /\ mapping[t].copy # NoCopy => outbox[o].desired # mapping[t].baseline
  /\ \A r \in wire : r.task = t => Asks(t, o, r)

Landed(t, o) ==
  /\ NoWire(t)
  /\ \A c \in Provider!Pages(t) : remote[t][c] = outbox[o].desired

Sent(t, o) ==
  outbox[o].status \in OpenWrite /\ outbox[o].task = t /\ issued[o] = 1

TaskTrue(t) ==
  /\ mapping[t].state = "active" <=> mapping[t].copy # NoCopy
  /\ \/ AtRest(t)
     \/ \E o \in OpId : Sent(t, o) /\ (Flying(t, o) \/ Landed(t, o))

(* What a process read of the page still holds when it confirms, and is    *)
(* the baseline of the link before it sends: there is nothing to merge.    *)
JobTrue(j) ==
  /\ outbox[j.op].status \in OpenWrite /\ j.pc = "confirm" =>
       NoWire(j.task) /\ remote[j.task][j.copy] = j.seen
  /\ outbox[j.op].status = "sending" =>
       /\ j.pc # "merge"
       /\ j.pc \in {"supersede", "gate", "send"} /\ j.copy # NoCopy =>
            j.seen = mapping[j.task].baseline /\ j.seen # j.desired

RemoteTrue ==
  /\ remoteEdits \in Nat
  /\ Pristine => /\ \A t \in Task : TaskTrue(t)
                 /\ \A s \in Sender : job[s] \in Job => JobTrue(job[s])

(* The other invariants that this one rests on. *)
SyncInv == SyncSafe /\ OpSafe /\ PageSafe /\ InStep

----------------------------------------------------------------------------
(* No step goes back to the first dataset or takes an edit back.           *)
LEMMA EditsCounted ==
  ASSUME StoreTypeOK, SyncTyped, [Next]_vars, remoteEdits \in Nat
  PROVE  remoteEdits' = remoteEdits \/ remoteEdits' = remoteEdits + 1
  BY StepCases DEF Dispatched, Ended, Claimed, WentOn, MergedInto, SentBy, OtherStep,
     notionVars, ProviderStep, Provider!ProviderNext, Provider!LandCreate,
     Provider!LandUpdate, Provider!Lose, Provider!RemoteEdit, Provider!Issue

LEMMA EpochGrows ==
  ASSUME [StoreNext]_storeVars
  PROVE  epoch' = epoch \/ ReplaceAllData
  BY DEF StoreNext, storeVars, LocalWrite, WriteLinkedTask, CreateLinkedTask, WriteLocalTask,
     RecoverOrphans, Attempt, MarkSending, SupersedeUnsent, PauseUnsent, DeferUnsent,
     MergePreflight, MarkUnknown, Confirm, ConfirmDiffers, Fence, Pause, Resume, Disconnect,
     CredentialChanged, Reconnect, DeadlinePasses, PauseForRestore, SetConn, Export,
     Instance, OpenStore, CloseStore, CrashStore

LEMMA PristineBefore ==
  ASSUME SyncSafe, remoteEdits \in Nat, [Next]_vars, Pristine'
  PROVE  Pristine /\ ~ReplaceAllData /\ remoteEdits' = remoteEdits
<1> USE DEF SyncSafe, StoreSafe
<1>1. epoch \in Nat /\ epoch' = 0 /\ remoteEdits' = 0
  BY DEF StoreTypeOK, Pristine
<1>2. ~ReplaceAllData
  BY <1>1 DEF ReplaceAllData
<1>3. epoch = 0
  BY <1>1, <1>2, StepOfStore, EpochGrows
<1>4. remoteEdits = 0
  BY <1>1, EditsCounted
<1>5. QED
  BY <1>1, <1>2, <1>3, <1>4 DEF Pristine

----------------------------------------------------------------------------
(* The link of a task stays, or is recorded without a page. *)
LinkStays(t) ==
  /\ mapping'[t].copy = mapping[t].copy
  /\ mapping[t].copy # NoCopy => mapping'[t].baseline = mapping[t].baseline
  /\ mapping'[t].state = "active" <=> mapping[t].state = "active"

Onward(o) ==
  outbox[o].status \in OpenWrite =>
    /\ outbox'[o].status \in OpenWrite
    /\ outbox'[o].task = outbox[o].task
    /\ outbox'[o].desired = outbox[o].desired

LEMMA TaskStays ==
  ASSUME NEW t \in Task, TaskTrue(t), UNCHANGED notionVars, LinkStays(t),
         \A o \in OpId : Sent(t, o) => Onward(o)
  PROVE  TaskTrue(t)'
<1>1. UNCHANGED <<remote, wire, issued>>
  BY DEF notionVars
<1>2. NoWire(t)' <=> NoWire(t)
  BY <1>1 DEF NoWire
<1>3. Shared(t) => Shared(t)'
  BY <1>1 DEF Shared, LinkStays, Provider!Pages
<1>4. ASSUME NEW o \in OpId, Sent(t, o), Flying(t, o) \/ Landed(t, o)
      PROVE  Sent(t, o)' /\ (Flying(t, o)' \/ Landed(t, o)')
  <2>1. Onward(o) /\ outbox'[o].desired = outbox[o].desired
    BY <1>4 DEF Sent, Onward
  <2>2. Sent(t, o)'
    BY <1>1, <1>4, <2>1 DEF Sent, Onward
  <2>3. ASSUME NEW r, Asks(t, o, r)
        PROVE  Asks(t, o, r)'
    BY <2>1, <2>3 DEF Asks, LinkStays
  <2>4. Flying(t, o) => Flying(t, o)'
    BY <1>1, <1>3, <2>1, <2>3 DEF Flying, LinkStays
  <2>5. Landed(t, o) => Landed(t, o)'
    BY <1>1, <1>2, <2>1 DEF Landed, Provider!Pages
  <2>6. QED
    BY <1>4, <2>2, <2>4, <2>5
<1>5. AtRest(t) => AtRest(t)'
  BY <1>2, <1>3 DEF AtRest
<1>6. mapping'[t].state = "active" <=> mapping'[t].copy # NoCopy
  BY DEF TaskTrue, LinkStays
<1>7. QED
  BY <1>4, <1>5, <1>6 DEF TaskTrue

LEMMA DemotedTasks ==
  ASSUME StoreTypeOK, Demoted
  PROVE  (\A t \in Task : LinkStays(t)) /\ \A o \in OpId : Onward(o)
<1>1. ASSUME NEW o \in OpId, outbox[o].status \in OpenWrite
      PROVE  Onward(o)
  <2>1. outbox[o] \in Operation
    BY <1>1, RowIsOperation DEF StoreTypeOK, OpStatus, OpenWrite
  <2>2. outbox'[o] = outbox[o] \/ outbox'[o] = [outbox[o] EXCEPT !.status = "unknown"]
    BY DEF Demoted
  <2>3. QED
    BY <1>1, <2>1, <2>2 DEF Onward, Operation, OpenWrite
<1>2. QED
  BY <1>1 DEF Demoted, LinkStays, Onward

LEMMA LocalWriteTasks ==
  ASSUME StoreTypeOK, RowsEnqueued, NEW u \in Task, NEW new \in TaskFields,
         LocalWrite(u, new), \A t \in Task : TaskTrue(t)
  PROVE  (\A t \in Task : LinkStays(t)) /\ \A o \in OpId : Onward(o)
<1>1. ASSUME NEW o \in OpId, outbox[o].status \in OpenWrite, NEW baseline,
             outbox' = Enqueued(u, new, baseline)
      PROVE  outbox'[o] = outbox[o]
  BY <1>1 DEF Enqueued, OpsOf, OpenWrite, RowsEnqueued, Absent, StoreTypeOK, OpId
<1>2. ASSUME NEW o \in OpId
      PROVE  Onward(o)
  <2>1. PICK old : old = mapping[u].baseline
    OBVIOUS
  <2>2. outbox' = Enqueued(u, new, old) \/ outbox' = Enqueued(u, new, NoFields)
          \/ outbox' = outbox
    BY <2>1 DEF LocalWrite, WriteLinkedTask, CreateLinkedTask, WriteLocalTask
  <2>3. outbox[o].status \in OpenWrite => outbox'[o] = outbox[o]
    BY <1>1, <2>2
  <2>4. QED
    BY <2>3 DEF Onward
<1>3. ASSUME NEW t \in Task
      PROVE  LinkStays(t)
  <2>1. CASE WriteLinkedTask(u, new) \/ WriteLocalTask(u, new)
    BY <2>1 DEF WriteLinkedTask, WriteLocalTask, LinkStays
  <2>2. CASE CreateLinkedTask(u, new)
    <3>1. /\ mapping[u].state = "none"
          /\ mapping' = [mapping EXCEPT ![u] = [Unlinked EXCEPT !.state = "pending_create"]]
      BY <2>2 DEF CreateLinkedTask
    <3>2. mapping[u].copy = NoCopy
      BY <3>1 DEF TaskTrue
    <3>3. t # u => mapping'[t] = mapping[t]
      BY <3>1 DEF StoreTypeOK
    <3>4. mapping'[u].copy = NoCopy /\ mapping'[u].state = "pending_create"
      BY <3>1 DEF StoreTypeOK, Unlinked
    <3>5. QED
      BY <3>1, <3>2, <3>3, <3>4 DEF LinkStays
  <2>3. QED
    BY <2>1, <2>2 DEF LocalWrite
<1>4. QED
  BY <1>2, <1>3

LEMMA ReturnTasks ==
  ASSUME StoreTypeOK, NEW o \in OpId, Returns(o), issued[o] = 0
  PROVE  /\ \A t \in Task : LinkStays(t)
         /\ \A p \in OpId : issued[p] = 1 => Onward(p)
<1>1. mapping' = mapping
  BY DEF Returns, SupersedeUnsent, PauseUnsent, DeferUnsent
<1>2. QED
  BY <1>1, ReturnRow DEF LinkStays, Onward

LEMMA ClaimTasks ==
  ASSUME StoreTypeOK, NEW o \in OpId, NEW s \in Sender, MarkSending(o, s)
  PROVE  (\A t \in Task : LinkStays(t)) /\ \A p \in OpId : Onward(p)
  BY ClaimRow, ClaimedRow DEF LinkStays, Onward, OpenWrite

(* The values read back become the baseline; nothing is on its way. *)
LEMMA ConfirmTasks ==
  ASSUME StoreTypeOK, NEW o \in OpId, NEW copy \in Copy, NEW fields \in TaskFields,
         Confirm(o, copy, fields), UNCHANGED notionVars,
         NoWire(outbox[o].task), remote[outbox[o].task][copy] = fields,
         \A t \in Task : TaskTrue(t)
  PROVE  \A t \in Task : TaskTrue(t)'
<1>1. PICK u : u = outbox[o].task
  OBVIOUS
<1>2. outbox[o].status \in OpenWrite /\ outbox' = Settled(o, fields)
      /\ mapping' = [mapping EXCEPT ![u] =
                       [state |-> "active", copy |-> copy, baseline |-> fields]]
  BY <1>1 DEF Confirm, Confirmable, OpenWrite
<1>3. outbox[o] \in Operation
  BY <1>2, RowIsOperation DEF StoreTypeOK, OpStatus, OpenWrite
<1>4. u \in Task
  BY <1>1, <1>3 DEF Operation
<1>5. /\ mapping'[u] = [state |-> "active", copy |-> copy, baseline |-> fields]
      /\ \A t \in Task \ {u} : mapping'[t] = mapping[t]
  BY <1>2, <1>4 DEF StoreTypeOK
<1>6. copy # NoCopy
  BY NoCopyAssumption
<1>7. TaskTrue(u)'
  BY <1>1, <1>5, <1>6 DEF TaskTrue, AtRest, Shared, NoWire, notionVars
<1>8. ASSUME NEW t \in Task, t # u
      PROVE  TaskTrue(t)'
  <2>1. LinkStays(t)
    BY <1>5, <1>8 DEF LinkStays
  <2>2. ASSUME NEW p \in OpId, Sent(t, p)
        PROVE  Onward(p)
    <3>1. p # o /\ outbox[p].status \in OpenWrite
      BY <1>1, <1>2, <1>8, <2>2 DEF Sent
    <3>2. outbox'[p] = outbox[p]
      BY <1>1, <1>2, <1>8, <2>2, <3>1 DEF Sent, Settled, OpsOf, OpenWrite
    <3>3. QED
      BY <3>1, <3>2 DEF Onward
  <2>3. QED
    BY <2>1, <2>2, TaskStays
<1>9. QED
  BY <1>7, <1>8

----------------------------------------------------------------------------
(* Notion at work: of the request of an attempt, and of nothing else.      *)
LEMMA TaskAside ==
  ASSUME NEW t \in Task, TaskTrue(t), UNCHANGED <<mapping, outbox>>,
         remote'[t] = remote[t],
         \A r \in wire' : r.task = t => r \in wire,
         \A o \in OpId : outbox[o].task = t => issued'[o] = issued[o]
  PROVE  TaskTrue(t)'
<1>1. NoWire(t) => NoWire(t)'
  BY DEF NoWire
<1>2. Shared(t) => Shared(t)'
  BY DEF Shared, Provider!Pages
<1>3. ASSUME NEW o \in OpId, Sent(t, o), Flying(t, o) \/ Landed(t, o)
      PROVE  Sent(t, o)' /\ (Flying(t, o)' \/ Landed(t, o)')
  <2>1. Sent(t, o)'
    BY <1>3 DEF Sent
  <2>2. Flying(t, o) => Flying(t, o)'
    BY <1>2 DEF Flying, Asks
  <2>3. Landed(t, o) => Landed(t, o)'
    BY <1>1 DEF Landed, Provider!Pages
  <2>4. QED
    BY <1>3, <2>1, <2>2, <2>3
<1>4. QED
  BY <1>1, <1>2, <1>3 DEF TaskTrue, AtRest

LEMMA ArrivedTrue ==
  ASSUME SyncTyped, PagesKnown, OneBirth, NEW r \in wire, r.task \in Task, TaskTrue(r.task),
         UNCHANGED storeVars,
         (\E c \in Copy : Provider!LandCreate(r, c)) \/ Provider!LandUpdate(r) \/ Provider!Lose(r)
  PROVE  TaskTrue(r.task)'
<1> DEFINE t == r.task
<1>1. /\ wire' = wire \ {r} /\ issued' = issued /\ UNCHANGED <<mapping, outbox>>
  BY DEF Provider!LandCreate, Provider!LandUpdate, Provider!Lose, storeVars
<1>2. PICK o \in OpId : Sent(t, o) /\ Flying(t, o)
  BY DEF TaskTrue, AtRest, Landed, NoWire
<1>3. Sent(t, o)' /\ Asks(t, o, r)
  BY <1>1, <1>2 DEF Sent, Flying
<1>4. ASSUME Landed(t, o)'
      PROVE  TaskTrue(t)'
  BY <1>1, <1>3, <1>4 DEF TaskTrue
<1>5. NoWire(t)'
  <2> SUFFICES ASSUME NEW q \in wire, q.task = t
               PROVE  q = r
    BY <1>1 DEF NoWire
  <2>1. Asks(t, o, q)
    BY <1>2 DEF Flying
  <2>2. q \in Request /\ r \in Request
    BY DEF SyncTyped
  <2>3. /\ q.op = r.op /\ q.task = r.task /\ q.copy = r.copy
        /\ q.fields = r.fields /\ q.only = r.only
    BY <1>3, <2>1 DEF Asks
  <2>4. QED
    BY <2>2, <2>3 DEF Request
<1>6. r.fields \in TaskFields /\ r.fields = outbox[o].desired
  BY <1>3 DEF Asks, SyncTyped, Request
<1>7. ASSUME NEW c \in Copy, Provider!LandCreate(r, c)
      PROVE  TaskTrue(t)'
  <2>1. remote' = [remote EXCEPT ![r.task][c] = r.fields] /\ mapping[t].copy = NoCopy
    BY <1>3, <1>7 DEF Provider!LandCreate, Asks
  <2>2. PICK fields : fields = r.fields
    OBVIOUS
  <2>3. Provider!Pages(t)' = Provider!Pages(t) \cup {c}
    BY <1>6, <2>1, <2>2, PageWritten
  <2>4. Provider!Pages(t)' = {c}
    BY <1>2, <2>1, <2>3 DEF Flying, Shared
  <2>5. remote'[t][c] = r.fields
    BY <2>1 DEF PagesKnown
  <2>6. Landed(t, o)'
    BY <1>1, <1>5, <1>6, <2>4, <2>5 DEF Landed
  <2>7. QED
    BY <1>4, <2>6
<1>8. CASE Provider!LandUpdate(r)
  <2> DEFINE c == r.copy
             new == [f \in Field |-> IF f \in r.only THEN r.fields[f] ELSE remote[t][c][f]]
  <2>1. c \in Copy /\ remote' = [remote EXCEPT ![t][c] = new]
    BY <1>8 DEF Provider!LandUpdate
  <2>2. c = mapping[t].copy /\ c # NoCopy
    BY <1>3, <2>1, NoCopyAssumption DEF Asks
  <2>3. remote[t][c] = mapping[t].baseline
    BY <1>2, <2>2 DEF Flying, Shared
  <2>4. r.only = {f \in Field : r.fields[f] # remote[t][c][f]}
    BY <1>3, <2>2, <2>3 DEF Asks
  <2>5. new = r.fields
    BY <1>6, <2>4 DEF TaskFields
  <2> HIDE DEF new
  <2>6. c \in Provider!Pages(t)
    BY <2>2 DEF PagesKnown, OnPage
  <2>7. remote'[t][c] = r.fields /\ \A d \in Copy \ {c} : remote'[t][d] = remote[t][d]
    BY <2>1, <2>5 DEF PagesKnown
  <2>8. \A d \in Provider!Pages(t)' : d = c
    BY <2>6, <2>7 DEF OneBirth, Provider!Pages
  <2>9. Landed(t, o)'
    BY <1>1, <1>5, <1>6, <2>7, <2>8 DEF Landed
  <2>10. QED
    BY <1>4, <2>9
<1>9. CASE Provider!Lose(r)
  <2>1. UNCHANGED <<remote, mapping, outbox>>
    BY <1>1, <1>9 DEF Provider!Lose
  <2>2. Flying(t, o)'
    BY <1>1, <1>2, <2>1 DEF Flying, Shared, Asks, Provider!Pages
  <2>3. QED
    BY <1>3, <2>1, <2>2 DEF TaskTrue
<1>10. QED
  BY <1>7, <1>8, <1>9

LEMMA NotionTrue ==
  ASSUME SyncTyped, PagesKnown, OneBirth, ProviderStep, remoteEdits \in Nat,
         remoteEdits' = remoteEdits
  PROVE  \E r \in wire :
           /\ r.task \in Task /\ wire' = wire \ {r} /\ issued' = issued
           /\ \A t \in Task \ {r.task} : remote'[t] = remote[t]
           /\ \/ \E c \in Copy : Provider!LandCreate(r, c)
              \/ Provider!LandUpdate(r)
              \/ Provider!Lose(r)
<1>1. \A t \in Task, c \in Copy, new \in Provider!TaskFields : ~Provider!RemoteEdit(t, c, new)
  BY DEF Provider!RemoteEdit
<1>2. PICK r \in wire : \/ \E c \in Copy : Provider!LandCreate(r, c)
                        \/ Provider!LandUpdate(r)
                        \/ Provider!Lose(r)
  BY <1>1 DEF ProviderStep, Provider!ProviderNext
<1>3. r.task \in Task
  BY DEF SyncTyped, Request
<1>4. wire' = wire \ {r} /\ issued' = issued
  BY <1>2 DEF Provider!LandCreate, Provider!LandUpdate, Provider!Lose
<1>5. \A t \in Task \ {r.task} : remote'[t] = remote[t]
  <2>1. ASSUME NEW c, NEW new, remote' = [remote EXCEPT ![r.task][c] = new]
        PROVE  \A t \in Task \ {r.task} : remote'[t] = remote[t]
    BY <2>1 DEF PagesKnown
  <2>2. CASE \E c \in Copy : Provider!LandCreate(r, c)
    BY <2>1, <2>2 DEF Provider!LandCreate
  <2>3. CASE Provider!LandUpdate(r)
    <3>1. PICK new : new = [f \in Field |-> IF f \in r.only THEN r.fields[f]
                                                            ELSE remote[r.task][r.copy][f]]
      OBVIOUS
    <3>2. PICK c : c = r.copy
      OBVIOUS
    <3>3. remote' = [remote EXCEPT ![r.task][c] = new]
      BY <2>3, <3>1, <3>2 DEF Provider!LandUpdate
    <3>4. QED
      BY <2>1, <3>3
  <2>4. CASE Provider!Lose(r)
    BY <2>4 DEF Provider!Lose
  <2>5. QED
    BY <1>2, <2>2, <2>3, <2>4
<1>6. QED
  BY <1>2, <1>3, <1>4, <1>5

----------------------------------------------------------------------------
(* Processes that read and write while this holds.                         *)

(* Before an attempt sends, its task is at rest. *)
LEMMA RestBefore ==
  ASSUME SingleInFlight, NEW t \in Task, TaskTrue(t), NEW o \in OpId,
         outbox[o].status \in OpenWrite, outbox[o].task = t, issued[o] = 0
  PROVE  AtRest(t)
<1>1. \A p \in OpId : Sent(t, p) => p = o
  BY DEF Sent, SingleInFlight, InStatus, OpenWrite
<1>2. ~ \E p \in OpId : Sent(t, p)
  BY <1>1 DEF Sent
<1>3. QED
  BY <1>2 DEF TaskTrue

(* Once a page says what an open write wants, no request is left. *)
LEMMA DesiredSeen ==
  ASSUME SingleInFlight, PagesKnown, OneBirth, NEW t \in Task, TaskTrue(t),
         NEW o \in OpId, outbox[o].status \in OpenWrite, outbox[o].task = t,
         NEW copy \in Provider!Pages(t), remote[t][copy] = outbox[o].desired
  PROVE  NoWire(t)
<1>1. \A p \in OpId : Sent(t, p) => p = o
  BY DEF Sent, SingleInFlight, InStatus, OpenWrite
<1>2. mapping[t].copy # NoCopy => copy = mapping[t].copy
  BY DEF PagesKnown, OnPage, OneBirth
<1>3. ~Flying(t, o)
  BY <1>2 DEF Flying, Shared
<1>4. QED
  BY <1>1, <1>3 DEF TaskTrue, AtRest, Landed

(* A dispatch that goes on knows no more than it read. *)
LEMMA TurnTrue ==
  ASSUME SyncSafe, OpSafe, PageSafe, InStep, \A t \in Task : TaskTrue(t),
         NEW s \in Sender, NEW j, WentOn(s, j), JobTrue(job[s])
  PROVE  JobTrue(j)
<1> USE DEF SyncSafe, StoreSafe, PageSafe
<1>1. PICK k : k = job[s]
  OBVIOUS
<1>2. PICK o, t : o = k.op /\ t = k.task
  OBVIOUS
<1>3. /\ k \in Job /\ j \in Job /\ j.op = o /\ j.task = t /\ o \in OpId /\ t \in Task
      /\ Owns(s, k) /\ Agrees(k) /\ JobTrue(k) /\ FromLink(o)
      /\ j.desired = k.desired /\ j.baseline = k.baseline
      /\ ReadOn(s, j) \/ MovedOn(s, j)
  BY <1>1, <1>2 DEF WentOn, SameAttempt, Further, SameValues, OpSafe, RowsOwned, InStep, Job
<1>4. TaskTrue(t) /\ (outbox[o].status \in OpenWrite => outbox[o].task = t)
  BY <1>2, <1>3 DEF Owns
<1>5. ASSUME outbox[o].status \in OpenWrite, j.pc = "confirm"
      PROVE  NoWire(t) /\ remote[t][j.copy] = j.seen
  <2>1. PICK copy \in Copy : ReadsPage(s, copy, j.seen) /\ j.copy = copy /\ j.seen = j.desired
    BY <1>3, <1>5 DEF ReadOn, MovedOn
  <2>2. copy \in Provider!Pages(t) /\ remote[t][copy] = j.seen
    BY <1>1, <1>2, <2>1 DEF ReadsPage
  <2>3. remote[t][copy] = outbox[o].desired
    BY <1>2, <1>3, <1>5, <2>1, <2>2 DEF Agrees
  <2>4. NoWire(t)
    BY <1>3, <1>4, <1>5, <2>2, <2>3, DesiredSeen
  <2>5. QED
    BY <2>1, <2>2, <2>4
<1>6. ASSUME outbox[o].status = "sending"
      PROVE  j.pc # "merge"
  <2>1. k.baseline = mapping[t].baseline
    BY <1>2, <1>3, <1>4, <1>6 DEF Agrees, FromLink, OpenWrite
  <2> SUFFICES ASSUME j.pc = "merge"
               PROVE  FALSE
    OBVIOUS
  <2>2. MovedOn(s, j)
    BY <1>3 DEF ReadOn
  <2>3. k.pc = "supersede" /\ k.copy # NoCopy /\ k.seen # k.baseline
    BY <1>1, <1>3, <2>2 DEF MovedOn
  <2>4. k.seen = mapping[t].baseline
    BY <1>2, <1>3, <1>6, <2>3 DEF JobTrue
  <2>5. QED
    BY <2>1, <2>3, <2>4
<1>7. ASSUME outbox[o].status = "sending", j.pc \in {"supersede", "gate", "send"},
             j.copy # NoCopy
      PROVE  j.seen = mapping[t].baseline /\ j.seen # j.desired
  <2>1. CASE MovedOn(s, j)
    <3>1. k.pc \in {"supersede", "gate"} /\ k.copy # NoCopy /\ k.seen = j.seen
      BY <1>1, <1>7, <2>1 DEF MovedOn
    <3>2. QED
      BY <1>2, <1>3, <1>7, <3>1 DEF JobTrue
  <2>2. CASE ReadOn(s, j)
    <3>1. PICK copy \in Copy : /\ ReadsPage(s, copy, j.seen)
                               /\ k.pc = "preflight" /\ j.copy = k.copy /\ j.seen # j.desired
      BY <1>1, <1>7, <2>2 DEF ReadOn
    <3>2. copy = k.copy /\ j.seen = remote[t][copy]
      BY <1>1, <1>2, <1>7, <3>1 DEF ReadsPage
    <3>3. k.copy = mapping[t].copy /\ issued[o] = 0
      BY <1>2, <1>3, <1>7, <3>1 DEF Owns, Unsent
    <3>4. AtRest(t)
      BY <1>3, <1>4, <1>7, <3>3, RestBefore DEF OpenWrite
    <3>5. QED
      BY <1>7, <3>1, <3>2, <3>3, <3>4 DEF AtRest, Shared
  <2>3. QED
    BY <1>3, <2>1, <2>2
<1>8. QED
  BY <1>3, <1>5, <1>6, <1>7 DEF JobTrue

LEMMA CarriedTrue ==
  ASSUME SyncSafe, OpSafe, PageSafe, InStep, \A t \in Task : TaskTrue(t),
         NEW s \in Sender, job[s] \in Job => JobTrue(job[s]),
         NEW j \in Job, Carried(s, j)
  PROVE  /\ JobTrue(j)
         /\ outbox[j.op].status \in OpenWrite => outbox[j.op].task = j.task
<1>1. job[s] \in Job => Owns(s, job[s])
  BY DEF OpSafe, RowsOwned
<1>2. CASE j = job[s]
  BY <1>1, <1>2 DEF Owns
<1>3. CASE WentOn(s, j)
  <2>1. job[s] \in Job /\ j.op = job[s].op /\ j.task = job[s].task
    BY <1>3 DEF WentOn, SameAttempt
  <2>2. QED
    BY <1>1, <1>3, <2>1, TurnTrue DEF Owns
<1>4. CASE SentBy(s, j)
  <2>1. job[s] \in Job /\ j.op = job[s].op /\ j.task = job[s].task /\ j.pc = "readBack"
    BY <1>4 DEF SentBy, SameAttempt
  <2>2. QED
    BY <1>1, <2>1 DEF Owns, JobTrue
<1>5. CASE LetPass(s, j)
  <2>1. job[s] \in Job /\ j.op = job[s].op /\ j.task = job[s].task /\ job[s].pc = "merge"
        /\ j.pc = "merge"
    BY <1>5 DEF LetPass, SameAttempt, Job
  <2>2. outbox[j.op].status # "sending"
    BY <2>1 DEF JobTrue
  <2>3. QED
    BY <1>1, <2>1, <2>2 DEF Owns, JobTrue
<1>6. CASE Reconciled(s, j)
  BY <1>6 DEF Reconciled, Dispatching, JobTrue
<1>7. QED
  BY <1>2, <1>3, <1>4, <1>5, <1>6 DEF Carried

LEMMA TrueStays ==
  ASSUME NEW j \in Job, JobTrue(j), HeldRow(j.op),
         outbox[j.op].status \in OpenWrite => outbox[j.op].task = j.task,
         NoWire(j.task) => NoWire(j.task)' /\ remote'[j.task] = remote[j.task]
  PROVE  JobTrue(j)'
<1>1. outbox'[j.op].status \in OpenWrite => outbox[j.op].status \in OpenWrite
  BY DEF HeldRow
<1>2. outbox'[j.op].status = "sending" =>
        outbox[j.op].status = "sending" /\ mapping'[j.task] = mapping[j.task]
  BY DEF HeldRow, OpenWrite
<1>3. QED
  BY <1>1, <1>2 DEF JobTrue

LEMMA AllTrue ==
  ASSUME \A s \in Sender : \E j : j = job'[s] /\ (j \in Job => JobTrue(j)')
  PROVE  \A s \in Sender : job'[s] \in Job => JobTrue(job[s])'
  BY DEF JobTrue

SyncTrue ==
  /\ \A t \in Task : TaskTrue(t)
  /\ \A s \in Sender : job[s] \in Job => JobTrue(job[s])

(* Notion carries out the request of an attempt, or loses it. *)
LEMMA NotionStepTrue ==
  ASSUME SyncInv, SyncTrue, ProviderStep, remoteEdits \in Nat, remoteEdits' = remoteEdits
  PROVE  SyncTrue'
<1> USE DEF SyncInv, SyncSafe, StoreSafe, PageSafe
<1>1. UNCHANGED <<storeVars, job>>
  BY DEF ProviderStep
<1>2. PICK r \in wire :
         /\ r.task \in Task /\ wire' = wire \ {r} /\ issued' = issued
         /\ \A t \in Task \ {r.task} : remote'[t] = remote[t]
         /\ \/ \E c \in Copy : Provider!LandCreate(r, c)
            \/ Provider!LandUpdate(r)
            \/ Provider!Lose(r)
  BY NotionTrue
<1>3. UNCHANGED <<mapping, outbox>>
  BY <1>1 DEF storeVars
<1>4. TaskTrue(r.task)'
  BY <1>1, <1>2, ArrivedTrue DEF SyncTrue
<1>5. ASSUME NEW t \in Task, t # r.task
      PROVE  TaskTrue(t)'
  BY <1>2, <1>3, <1>5, TaskAside DEF SyncTrue
<1>6. ASSUME NEW s \in Sender, NEW j, j = job'[s], j \in Job
      PROVE  JobTrue(j)'
  <2>1. j = job[s] /\ JobTrue(j) /\ Owns(s, j) /\ j.task \in Task
    BY <1>1, <1>6 DEF SyncTrue, OpSafe, RowsOwned, Job
  <2>2. HeldRow(j.op)
    BY <1>3 DEF HeldRow
  <2>3. NoWire(j.task) => NoWire(j.task)' /\ remote'[j.task] = remote[j.task]
    BY <1>2, <2>1 DEF NoWire
  <2>4. QED
    BY <1>6, <2>1, <2>2, <2>3, TrueStays DEF Owns
<1>7. QED
  BY <1>4, <1>5, <1>6, AllTrue DEF SyncTrue

(* An attempt sends its request. *)
LEMMA SendTrue ==
  ASSUME SyncInv, SyncTrue, Pristine, NEW s \in Sender, NEW j \in JobState,
         Dispatched(s, j), SentBy(s, j)
  PROVE  SyncTrue'
<1> USE DEF SyncInv, SyncSafe, StoreSafe, PageSafe
<1>1. PICK k : k = job[s]
  OBVIOUS
<1>2. PICK o, t : o = k.op /\ t = k.task
  OBVIOUS
<1>3. /\ k \in Job /\ j \in Job /\ j.op = o /\ j.task = t /\ o \in OpId /\ t \in Task
      /\ Owns(s, k) /\ Agrees(k) /\ JobTrue(k)
      /\ k.pc = "send" /\ j.pc = "readBack" /\ outbox[o].status = "sending"
      /\ UNCHANGED <<mapping, outbox>> /\ job' = [job EXCEPT ![s] = j]
  BY <1>1, <1>2 DEF SentBy, SameAttempt, OpSafe, RowsOwned, SendHeld, Pristine, InStep,
     SyncTrue, storeVars, Dispatched, Job
<1>4. PICK r \in Request :
         /\ r.op = o /\ r.task = t /\ r.copy = k.copy
         /\ AsksFor(s, r)
         /\ wire' = wire \cup {r} /\ remote' = remote
         /\ issued' = [issued EXCEPT ![o] = @ + 1]
  BY <1>1, <1>2 DEF SentBy, Provider!Issue
<1>5. /\ outbox[o].task = t /\ issued[o] = 0 /\ k.copy = mapping[t].copy
      /\ k.desired = outbox[o].desired
      /\ k.copy # NoCopy => k.seen = mapping[t].baseline /\ k.seen # k.desired
  BY <1>2, <1>3 DEF Owns, Agrees, JobTrue, Unsent, OpenWrite
<1>6. AtRest(t)
  BY <1>3, <1>5, RestBefore DEF SyncTrue, OpenWrite
<1>7. issued'[o] = 1 /\ \A p \in OpId \ {o} : issued'[p] = issued[p]
  BY <1>3, <1>4, <1>5 DEF SyncTyped
<1>8. TaskTrue(t)'
  <2>1. Sent(t, o)'
    BY <1>3, <1>5, <1>7 DEF Sent, OpenWrite
  <2>2. Asks(t, o, r)'
    BY <1>1, <1>3, <1>4, <1>5 DEF Asks, AsksFor
  <2>3. \A q \in wire' : q.task = t => q = r
    BY <1>4, <1>6 DEF AtRest, NoWire
  <2>4. Shared(t)'
    BY <1>3, <1>4, <1>6 DEF AtRest, Shared, Provider!Pages
  <2>5. mapping'[t].copy # NoCopy => outbox'[o].desired # mapping'[t].baseline
    BY <1>3, <1>5
  <2>6. Flying(t, o)'
    BY <2>2, <2>3, <2>4, <2>5 DEF Flying
  <2>7. mapping'[t].state = "active" <=> mapping'[t].copy # NoCopy
    BY <1>3 DEF SyncTrue, TaskTrue
  <2>8. QED
    BY <1>3, <2>1, <2>6, <2>7 DEF TaskTrue
<1>9. ASSUME NEW u \in Task, u # t
      PROVE  TaskTrue(u)'
  <2>1. \A p \in OpId : outbox[p].task = u => issued'[p] = issued[p]
    BY <1>5, <1>7, <1>9
  <2>2. \A q \in wire' : q.task = u => q \in wire
    BY <1>4, <1>9
  <2>3. QED
    BY <1>3, <1>4, <2>1, <2>2, TaskAside DEF SyncTrue
<1>10. ASSUME NEW q \in Sender, NEW l, l = job'[q], l \in Job
       PROVE  JobTrue(l)'
  <2>1. CASE q = s
    <3>1. l = j
      BY <1>3, <1>10, <2>1 DEF SyncTyped
    <3>2. QED
      BY <1>3, <3>1 DEF JobTrue
  <2>2. CASE q # s
    <3>1. l = job[q] /\ JobTrue(l) /\ Owns(q, l) /\ l.op \in OpId
      BY <1>3, <1>10, <2>2 DEF SyncTyped, SyncTrue, OpSafe, RowsOwned, Job
    <3>2. HeldRow(l.op)
      BY <1>3 DEF HeldRow
    <3>3. CASE l.task = t /\ outbox[l.op].status \in OpenWrite
      <4>1. l.op = o
        BY <1>3, <1>5, <3>1, <3>3 DEF Owns, SingleInFlight, InStatus, OpenWrite
      <4>2. QED
        BY <1>1, <1>2, <1>3, <1>10, <2>2, <3>1, <4>1, OneOwner
    <3>4. CASE outbox[l.op].status \notin OpenWrite
      BY <1>3, <3>4 DEF JobTrue, OpenWrite
    <3>5. CASE l.task # t
      <4>1. NoWire(l.task) => NoWire(l.task)'
        BY <1>4, <3>5 DEF NoWire
      <4>2. QED
        BY <1>4, <1>10, <3>1, <3>2, <4>1, TrueStays DEF Owns
    <3>6. QED
      BY <3>3, <3>4, <3>5
  <2>3. QED
    BY <2>1, <2>2
<1>11. QED
  BY <1>8, <1>9, <1>10, AllTrue DEF SyncTrue

LEMMA TasksStay ==
  ASSUME UNCHANGED notionVars, \A t \in Task : TaskTrue(t), \A t \in Task : LinkStays(t),
         \A o \in OpId : issued[o] = 1 => Onward(o)
  PROVE  \A t \in Task : TaskTrue(t)'
<1> SUFFICES ASSUME NEW t \in Task
             PROVE  TaskTrue(t)'
  OBVIOUS
<1>1. \A o \in OpId : Sent(t, o) => Onward(o)
  BY DEF Sent
<1>2. QED
  BY <1>1, TaskStays

LEMMA AsideTrue ==
  ASSUME SyncInv, SyncTrue, Aside, ~ReplaceAllData, UNCHANGED notionVars
  PROVE  \A t \in Task : TaskTrue(t)'
<1> USE DEF SyncInv, SyncSafe, StoreSafe, StoreKept, SyncTrue
<1>1. CASE Demoted
  BY <1>1, DemotedTasks, TasksStay
<1>2. ASSUME NEW u \in Task, NEW new \in TaskFields, LocalWrite(u, new)
      PROVE  \A t \in Task : TaskTrue(t)'
  BY <1>2, LocalWriteTasks, TasksStay
<1>3. QED
  BY <1>1, <1>2, AsideDemotes

(* The other steps of a dispatch. *)
LEMMA TurnTasks ==
  ASSUME SyncInv, SyncTrue, NEW s \in Sender, NEW j \in JobState, Dispatched(s, j),
         ~SentBy(s, j), ~ReplaceAllData
  PROVE  /\ UNCHANGED notionVars
         /\ \A t \in Task : TaskTrue(t)'
<1> USE DEF SyncInv, SyncSafe, StoreSafe, SyncTrue
<1>1. UNCHANGED notionVars
  BY DEF Dispatched, Ended, Claimed, WentOn, MergedInto
<1>2. ASSUME job[s] \in Job
      PROVE  /\ job[s].op \in OpId /\ Owns(s, job[s]) /\ JobTrue(job[s])
             /\ ReadFirst(job[s])
  BY <1>2 DEF OpSafe, RowsOwned, Job, SyncTyped
<1>3. CASE UNCHANGED storeVars \/ RecoverOrphans
  BY <1>1, <1>3, AsideTrue DEF Aside
<1>4. CASE Claimed(s, j)
  <2>1. PICK o \in OpId : MarkSending(o, s)
    BY <1>4 DEF Claimed
  <2>2. QED
    BY <1>1, <2>1, ClaimTasks, TasksStay
<1>5. CASE job[s] \in Job /\ job[s].pc \in Unsent /\ Returns(job[s].op)
  <2>1. issued[job[s].op] = 0
    BY <1>2, <1>5, ReturnRow DEF Owns
  <2>2. QED
    BY <1>1, <1>2, <1>5, <2>1, ReturnTasks, TasksStay
<1>6. CASE job[s] \in Job /\ MarkUnknown(job[s].op)
  BY <1>1, <1>2, <1>6, MarkUnknownDemotes, DemotedTasks, TasksStay
<1>7. CASE /\ job[s] \in Job /\ job[s].pc = "confirm"
           /\ Confirm(job[s].op, job[s].copy, job[s].seen)
  <2>1. PICK o, copy, fields : o = job[s].op /\ copy = job[s].copy /\ fields = job[s].seen
    OBVIOUS
  <2>2. outbox[o].status \in OpenWrite
    BY <1>7, <2>1 DEF Confirm, Confirmable, OpenWrite
  <2>3. NoWire(outbox[o].task) /\ remote[outbox[o].task][copy] = fields
    BY <1>2, <1>7, <2>1, <2>2 DEF JobTrue, Owns
  <2>4. o \in OpId /\ copy \in Copy /\ fields \in TaskFields /\ Confirm(o, copy, fields)
    BY <1>2, <1>7, <2>1 DEF ReadFirst
  <2>5. QED
    BY <1>1, <2>3, <2>4, ConfirmTasks
<1>8. ~MergedInto(s, j)
  <2> SUFFICES ASSUME MergedInto(s, j)
               PROVE  FALSE
    OBVIOUS
  <2>1. job[s] \in Job /\ job[s].pc = "merge" /\ MergePreflight(job[s].op, job[s].seen)
    BY DEF MergedInto, SameAttempt
  <2>2. outbox[job[s].op].status = "sending"
    BY <2>1 DEF MergePreflight, Rebasable, CanDispatch
  <2>3. QED
    BY <1>2, <2>1, <2>2 DEF JobTrue
<1>9. QED
  BY <1>1, <1>3, <1>4, <1>5, <1>6, <1>7, <1>8 DEF Dispatched, Ended, WentOn

LEMMA TurnJobs ==
  ASSUME SyncInv, SyncTrue, [Next]_vars, UNCHANGED notionVars
  PROVE  \A s \in Sender : job'[s] \in Job => JobTrue(job[s])'
<1> USE DEF SyncInv, SyncSafe, StoreSafe, SyncTrue
<1>1. ASSUME NEW l \in Job
      PROVE  NoWire(l.task) => NoWire(l.task)' /\ remote'[l.task] = remote[l.task]
  BY DEF NoWire, notionVars
<1>2. CASE Held /\ \A s \in Sender : \E j : j = job'[s] /\ Carried(s, j)
  <2>1. ASSUME NEW s \in Sender, NEW j \in Job, Carried(s, j)
        PROVE  JobTrue(j)'
    <3>1. /\ JobTrue(j)
          /\ outbox[j.op].status \in OpenWrite => outbox[j.op].task = j.task
      BY <2>1, CarriedTrue
    <3>2. HeldRow(j.op)
      BY <1>2 DEF Held, Job
    <3>3. QED
      BY <1>1, <3>1, <3>2, TrueStays
  <2>2. QED
    BY <1>2, <2>1, AllTrue
<1>3. ASSUME NEW s \in Sender, NEW j \in JobState, job' = [job EXCEPT ![s] = j],
             Claimed(s, j)
      PROVE  \A q \in Sender : job'[q] \in Job => JobTrue(job[q])'
  <2>1. PICK o \in OpId, queue \in SUBSET OpId :
          MarkSending(o, s) /\ j = Dispatching("preflight", queue, o)
    BY <1>3 DEF Claimed
  <2>2. /\ outbox[o].status = "pending"
        /\ \A p \in OpId \ {o} : outbox'[p] = outbox[p]
        /\ mapping' = mapping
    BY <2>1, ClaimRow, ClaimedRow
  <2>3. ASSUME NEW q \in Sender, NEW l, l = job'[q], l \in Job
        PROVE  JobTrue(l)'
    <3>1. CASE q = s
      <4>1. l = j /\ l.pc = "preflight"
        BY <1>3, <2>1, <2>3, <3>1 DEF SyncTyped, Dispatching
      <4>2. QED
        BY <4>1 DEF JobTrue
    <3>2. CASE q # s
      <4>1. l = job[q] /\ JobTrue(l) /\ Owns(q, l) /\ l.op \in OpId
        BY <1>3, <2>3, <3>2 DEF SyncTyped, OpSafe, RowsOwned, Job
      <4>2. l.op # o
        BY <2>2, <4>1 DEF Owns
      <4>3. HeldRow(l.op)
        BY <2>2, <4>1, <4>2 DEF HeldRow
      <4>4. QED
        BY <1>1, <2>3, <4>1, <4>3, TrueStays DEF Owns
    <3>3. QED
      BY <3>1, <3>2
  <2>4. QED
    BY <2>3, AllTrue
<1>4. ASSUME NEW s \in Sender, NEW j \in JobState, MergedInto(s, j)
      PROVE  FALSE
  <2>1. job[s] \in Job /\ job[s].pc = "merge" /\ MergePreflight(job[s].op, job[s].seen)
    BY <1>4 DEF MergedInto, SameAttempt
  <2>2. outbox[job[s].op].status = "sending"
    BY <2>1 DEF MergePreflight, Rebasable, CanDispatch
  <2>3. QED
    BY <2>1, <2>2 DEF JobTrue
<1>5. QED
  BY <1>2, <1>3, <1>4, HeldCases

LEMMA RemoteStep ==
  ASSUME SyncInv, RemoteTrue, [Next]_vars
  PROVE  RemoteTrue'
<1> USE DEF SyncInv, SyncSafe, StoreSafe
<1>1. remoteEdits \in Nat /\ remoteEdits' \in Nat
  BY EditsCounted DEF RemoteTrue
<1>2. ASSUME Pristine'
      PROVE  SyncTrue'
  <2>1. Pristine /\ ~ReplaceAllData /\ remoteEdits' = remoteEdits
    BY <1>1, <1>2, PristineBefore
  <2>2. SyncTrue
    BY <2>1 DEF RemoteTrue, SyncTrue
  <2>3. ASSUME NEW s \in Sender, NEW j \in JobState, Dispatched(s, j)
        PROVE  SyncTrue'
    BY <2>1, <2>2, <2>3, SendTrue, TurnTasks, TurnJobs DEF SyncTrue
  <2>4. CASE OtherStep
    BY <2>1, <2>2, <2>4, AsideTrue, TurnJobs DEF SyncTrue, OtherStep
  <2>5. CASE ProviderStep
    BY <1>1, <2>1, <2>2, <2>5, NotionStepTrue
  <2>6. QED
    BY <2>3, <2>4, <2>5, StepCases
<1>3. QED
  BY <1>1, <1>2 DEF RemoteTrue, SyncTrue

LEMMA RemoteInductive == Spec => []RemoteTrue
<1>1. Init => RemoteTrue
  <2> SUFFICES ASSUME Init
               PROVE  RemoteTrue
    OBVIOUS
  <2>1. \A s \in Sender : job[s] \notin Job
    BY DEF Init, Idle, Job, Place
  <2>2. \A t \in Task : TaskTrue(t)
    <3>1. /\ mapping = [t \in Task |-> Unlinked] /\ wire = {}
          /\ remote = [t \in Task |-> [c \in Copy |-> NoFields]] /\ remoteEdits = 0
      BY DEF Init, StoreInit, Provider!ProviderInit
    <3>2. QED
      BY <3>1 DEF TaskTrue, AtRest, Shared, NoWire, Provider!Pages, Unlinked
  <2>3. remoteEdits = 0
    BY DEF Init, Provider!ProviderInit
  <2>4. QED
    BY <2>1, <2>2, <2>3 DEF RemoteTrue
<1>2. SyncInv /\ RemoteTrue /\ [Next]_vars => RemoteTrue'
  BY RemoteStep
<1>3. QED
  BY <1>1, <1>2, SyncInductive, OpInductive, PageInductive, InStepInductive, PTL
  DEF Spec, SyncInv

(* Until somebody edits in Notion or a backup replaces the dataset, a task  *)
(* without an open attempt has on its page exactly the fields recorded as  *)
(* shared, and no request under way: a confirmation is never premature     *)
(* (readBackAndConfirm of the dispatcher, confirmNotionOutbox of the store). *)
THEOREM BaselineKept == Spec => []BaselineIsRemote
<1>1. ASSUME SyncInv, RemoteTrue
      PROVE  BaselineIsRemote
  <2> SUFFICES ASSUME epoch = 0, remoteEdits = 0, NEW t \in Task,
                      mapping[t].state = "active", OpsOf(t, {"sending", "unknown"}) = {}
               PROVE  remote[t][mapping[t].copy] = mapping[t].baseline /\ NoWire(t)
    BY DEF BaselineIsRemote, NoWire
  <2>1. TaskTrue(t)
    BY <1>1 DEF RemoteTrue, Pristine
  <2>2. \A o \in OpId : ~Sent(t, o)
    BY DEF Sent, OpsOf, OpenWrite
  <2>3. AtRest(t) /\ mapping[t].copy # NoCopy
    BY <2>1, <2>2 DEF TaskTrue
  <2>4. QED
    BY <2>3 DEF AtRest, Shared
<1>2. QED
  BY <1>1, SyncInductive, OpInductive, PageInductive, InStepInductive, RemoteInductive, PTL
  DEF SyncInv

----------------------------------------------------------------------------
(* One process at a time.                                                  *)

Alone == \A s, u \in live : s = u

(* Only the process at work holds anything. *)
LEMMA OthersIdle ==
  ASSUME Alone, InMemory, NEW s \in live
  PROVE  \A q \in Sender \ {s} : job[q] = Idle /\ undo[q] = {}
  BY DEF Alone, InMemory

(* The receipt of a process names the last change of the task. *)
LEMMA UndoStep ==
  ASSUME SyncSafe, Alone, InMemory, UndoCurrent, [Next]_vars
  PROVE  UndoCurrent'
<1> USE DEF SyncSafe, StoreSafe
<1>1. ASSUME NEW s \in live, undo'[s] = {}, \A q \in Sender \ {s} : undo'[q] = undo[q]
      PROVE  UndoCurrent'
  BY <1>1, OthersIdle DEF UndoCurrent, StoreTypeOK
<1>2. ASSUME NEW s \in Sender, undo' = [undo EXCEPT ![s] = {}]
      PROVE  undo'[s] = {} /\ \A q \in Sender \ {s} : undo'[q] = undo[q]
  BY <1>2 DEF SyncTyped
<1>3. ASSUME UNCHANGED task, \A q \in Sender : undo'[q] \subseteq undo[q]
      PROVE  UndoCurrent'
  BY <1>3 DEF UndoCurrent
<1>4. ASSUME NEW s \in Sender, NEW t \in Task, NEW new \in TaskFields, EditTask(s, t, new)
      PROVE  UndoCurrent'
  <2>1. s \in live /\ task'[t] = new
        /\ undo' = [undo EXCEPT ![s] = {[task |-> t, fields |-> task[t], wrote |-> new]}]
    BY <1>4 DEF EditTask, PlannerTurn, Free, WriteLinkedTask, StoreTypeOK
  <2>2. /\ undo'[s] = {[task |-> t, fields |-> task[t], wrote |-> new]}
        /\ \A q \in Sender \ {s} : undo'[q] = {}
    BY <2>1, OthersIdle DEF SyncTyped
  <2>3. \A old \in undo'[s] : old.task = t /\ old.wrote = new
    BY <2>2
  <2>4. QED
    BY <2>1, <2>2, <2>3 DEF UndoCurrent
<1>5. ASSUME NEW s \in Sender, NEW t \in Task, NEW new \in TaskFields, CreateTask(s, t, new)
      PROVE  UndoCurrent'
  BY <1>1, <1>2, <1>5 DEF CreateTask, PlannerTurn, Free
<1>6. ASSUME NEW s \in Sender, UndoEdit(s)
      PROVE  UndoCurrent'
  BY <1>1, <1>2, <1>6 DEF UndoEdit, PlannerTurn, Free
<1>7. ASSUME NEW s \in Sender, DispatchStep(s)
      PROVE  UndoCurrent'
  <2>1. s \in live
    BY <1>7, LiveTurn DEF DispatchStep
  <2>2. CASE task' = task
    BY <1>3, <1>7, <2>2 DEF DispatchStep
  <2>3. CASE task' # task
    BY <1>1, <1>2, <1>7, <2>1, <2>3 DEF DispatchStep
  <2>4. QED
    BY <2>2, <2>3
<1>8. ASSUME NEW s \in Sender, ReconcileStep(s) \/ ExportBackup(s) \/ StartRestore(s)
                               \/ RestoreFails(s)
      PROVE  UndoCurrent'
  BY <1>3, <1>8 DEF ReconcileStep, Reconcile, ExportBackup, StartRestore, RestoreFails,
     Export, PauseForRestore, SetConn, plannerVars, storeVars
<1>9. ASSUME NEW s \in Sender, FinishRestore(s)
      PROVE  UndoCurrent'
  <2>1. s \in live
    BY <1>9 DEF FinishRestore, InMemory
  <2>2. QED
    BY <1>1, <1>2, <1>9, <2>1 DEF FinishRestore
<1>10. ASSUME NEW s \in Sender, Open(s)
       PROVE  UndoCurrent'
  BY <1>3, <1>10 DEF Open, OpenStore, plannerVars
<1>11. ASSUME NEW s \in Sender, Stop(s)
       PROVE  UndoCurrent'
  <2>1. task' = task /\ \A q \in Sender : undo'[q] \subseteq undo[q]
    BY <1>2, <1>11 DEF Stop, CloseStore, CrashStore
  <2>2. QED
    BY <1>3, <2>1
<1>12. CASE FenceStep
  BY <1>3, <1>12 DEF FenceStep, Pause, Resume, Disconnect, CredentialChanged, Reconnect,
     DeadlinePasses, SetConn, plannerVars
<1>13. CASE NotionStep
  BY <1>3, <1>13 DEF NotionStep, ProviderStep, plannerVars, storeVars
<1>14. CASE UNCHANGED vars
  BY <1>3, <1>14 DEF vars, dispatchVars, storeVars, plannerVars
<1>15. QED
  BY <1>4, <1>5, <1>6, <1>7, <1>8, <1>9, <1>10, <1>11, <1>12, <1>13, <1>14
  DEF Next, PlannerStep, RestoreStep

(* Such a run is a run of the whole system, whose invariants it has. *)
LEMMA SerialIsSpec == SerialSpec => Spec
<1>1. [Next /\ \A s, u \in live' : s = u]_vars => [Next]_vars
  OBVIOUS
<1>2. QED
  BY <1>1, PTL DEF SerialSpec, Spec

LEMMA SerialInductive == SerialSpec => [](Alone /\ InMemory)
<1>1. Init => Alone /\ InMemory
  BY DEF Init, StoreInit, Alone, InMemory
<1>2. Alone /\ [Next /\ \A s, u \in live' : s = u]_vars => Alone'
  BY DEF Alone, vars, dispatchVars, storeVars
<1>3. SyncSafe /\ InMemory /\ [Next]_vars => InMemory'
  BY InMemoryStep
<1>4. [Next /\ \A s, u \in live' : s = u]_vars => [Next]_vars
  OBVIOUS
<1>5. QED
  BY <1>1, <1>2, <1>3, <1>4, SerialIsSpec, SyncInductive, PTL DEF SerialSpec

----------------------------------------------------------------------------
(* The last check of the only process still holds when its request leaves. *)
StillFree == \A s \in Sender : job[s].pc = "send" => CanDispatch(job[s].op)

(* An instance that runs was opened, and is not opened again. *)
LiveStarted == live \subseteq started

LEMMA StartedStep ==
  ASSUME LiveStarted, [StoreNext]_storeVars
  PROVE  LiveStarted'
  BY DEF LiveStarted, StoreNext, storeVars, LocalWrite, WriteLinkedTask, CreateLinkedTask,
     WriteLocalTask, RecoverOrphans, Attempt, MarkSending, SupersedeUnsent, PauseUnsent,
     DeferUnsent, MergePreflight, MarkUnknown, Confirm, ConfirmDiffers, Fence, Pause, Resume,
     Disconnect, CredentialChanged, Reconnect, DeadlinePasses, PauseForRestore, SetConn,
     Export, ReplaceAllData, Instance, OpenStore, CloseStore, CrashStore

(* In the turn of a send its process does nothing else, and no other runs. *)
LEMMA TurnKeepsStore ==
  ASSUME SyncSafe, Alone, Alone', LiveStarted, [Next]_vars,
         NEW s \in Sender, job[s].pc = "send", job'[s] = job[s]
  PROVE  UNCHANGED <<outbox, conn, epoch>>
<1> USE DEF SyncSafe, StoreSafe
<1>1. s \in live
  BY DEF InMemory, Idle
<1>2. \A r \in live : r = s
  BY <1>1 DEF Alone
<1>3. \A r \in Sender : ~Free(r)
  BY <1>2 DEF Free
<1>4. \A r \in Sender : ~PlannerTurn(r)
  BY <1>3 DEF PlannerTurn
<1>5. CASE UNCHANGED storeVars
  BY <1>5 DEF storeVars
<1>6. ASSUME NEW r \in Sender, DispatchStep(r)
      PROVE  UNCHANGED storeVars
  <2>1. r = s
    BY <1>2, <1>6, LiveTurn DEF DispatchStep
  <2>2. PICK j \in JobState : Dispatched(s, j)
    BY <1>6, <2>1, DispatchCases DEF DispatchStep
  <2>3. j.pc = "send"
    BY <2>2 DEF Dispatched, SyncTyped
  <2>4. ~Ended(s, j)
    BY <2>3 DEF Ended, Idle, Loops
  <2>5. ~Claimed(s, j)
    <3>1. \A p \in OpId, queue \in SUBSET OpId : Dispatching("preflight", queue, p).pc # "send"
      BY DEF Dispatching
    <3>2. QED
      BY <2>3, <3>1 DEF Claimed
  <2>6. ~MergedInto(s, j) /\ ~SentBy(s, j)
    BY <2>3 DEF MergedInto, TookMerge, SentBy
  <2>7. QED
    BY <2>2, <2>4, <2>5, <2>6 DEF Dispatched, WentOn
<1>7. ASSUME NEW r \in Sender
      PROVE  ~PlannerStep(r) /\ ~RestoreStep(r)
  BY <1>3, <1>4 DEF PlannerStep, EditTask, CreateTask, UndoEdit, RestoreStep, ExportBackup,
     StartRestore, FinishRestore, RestoreFails
<1>8. ASSUME NEW r \in Sender
      PROVE  ~Open(r)
  <2>1. CASE r = s
    BY <1>1, <2>1 DEF Open, OpenStore, LiveStarted
  <2>2. CASE r # s
    BY <1>1, <2>2 DEF Open, OpenStore, Alone
  <2>3. QED
    BY <2>1, <2>2
<1>9. ASSUME NEW r \in Sender
      PROVE  ~Stop(r)
  <2> SUFFICES ASSUME Stop(r)
               PROVE  FALSE
    OBVIOUS
  <2>1. r \in live
    BY DEF Stop, CloseStore, CrashStore
  <2>2. job'[s] = Idle
    BY <1>2, <2>1 DEF Stop, SyncTyped
  <2>3. QED
    BY <2>2 DEF Idle
<1>10. ~FenceStep
  BY <1>2 DEF FenceStep, Free
<1>11. ASSUME NEW r \in Sender, ReconcileStep(r)
       PROVE  UNCHANGED storeVars
  BY <1>11 DEF ReconcileStep, Reconcile
<1>12. CASE NotionStep \/ UNCHANGED vars
  BY <1>5, <1>12 DEF NotionStep, ProviderStep, vars, dispatchVars
<1>13. QED
  BY <1>5, <1>6, <1>7, <1>8, <1>9, <1>10, <1>11, <1>12 DEF Next

LEMMA FreeStep ==
  ASSUME SyncSafe, Alone, Alone', LiveStarted, StillFree, [Next]_vars
  PROVE  StillFree'
<1> SUFFICES ASSUME NEW s \in Sender, job'[s].pc = "send"
             PROVE  CanDispatch(job[s].op)'
  BY DEF StillFree
<1>1. CASE job'[s] = job[s]
  <2>1. CanDispatch(job[s].op)
    BY <1>1 DEF StillFree
  <2>2. UNCHANGED <<outbox, conn, epoch>>
    BY <1>1, TurnKeepsStore
  <2>3. QED
    BY <1>1, <2>1, <2>2 DEF CanDispatch
<1>2. CASE job'[s] # job[s]
  <2>1. CanDispatch(job[s].op) /\ job'[s].op = job[s].op /\ UNCHANGED storeVars
    BY <1>2, SendersCases
  <2>2. QED
    BY <2>1 DEF CanDispatch, storeVars
<1>3. QED
  BY <1>1, <1>2

LEMMA FreeInductive == SerialSpec => [](StillFree /\ LiveStarted)
<1>1. Init => StillFree /\ LiveStarted
  BY DEF Init, StoreInit, StillFree, LiveStarted, Idle
<1>2. /\ SyncSafe /\ Alone /\ Alone' /\ LiveStarted /\ StillFree /\ [Next]_vars
      => StillFree'
  BY FreeStep
<1>3. LiveStarted /\ [StoreNext]_storeVars => LiveStarted'
  BY StartedStep
<1>4. [Next /\ \A s, u \in live' : s = u]_vars => [Next]_vars
  OBVIOUS
<1>5. QED
  BY <1>1, <1>2, <1>3, <1>4, SerialIsSpec, SyncInductive, SerialInductive, PTL
  DEF SerialSpec

LEMMA FencedStep ==
  ASSUME SyncSafe, OpSafe, StillFree, [Next]_vars, NEW r \in wire' \ wire
  PROVE  /\ conn = "active"
         /\ outbox[r.op].status = "sending" /\ outbox[r.op].epoch = epoch
         /\ OpsOf(r.task, {"sending", "unknown", "quarantined"}) = {r.op}
         /\ NoQuarantine
<1>1. PICK s \in Sender : /\ job[s] \in Job /\ job[s].pc = "send" /\ job[s].op \in OpId
                          /\ r.op = job[s].op /\ r.task = job[s].task
  BY RequestSource
<1>2. CanDispatch(r.op)
  BY <1>1 DEF StillFree
<1>3. conn = "active" /\ outbox[r.op].status = "sending"
  BY <1>2 DEF CanDispatch
<1>4. QED
  BY <1>1, <1>3, OneAttempt

(* With one process at a time, however often it restarts, every request    *)
(* leaves under an active connection, for the one attempt of its task, of  *)
(* the current dataset, with nothing in quarantine: the last check and the *)
(* request share one turn of the process, which neither a fence nor a      *)
(* restore interrupts (canDispatchNotionOutbox, then createPage or          *)
(* updatePage).                                                            *)
THEOREM Fenced == SerialSpec => WriteFence
<1>1. /\ SyncSafe /\ OpSafe /\ StillFree /\ [Next]_vars
      => [\A r \in wire' \ wire :
            /\ conn = "active"
            /\ outbox[r.op].status = "sending" /\ outbox[r.op].epoch = epoch
            /\ OpsOf(r.task, {"sending", "unknown", "quarantined"}) = {r.op}
            /\ NoQuarantine]_vars
  BY FencedStep
<1>2. QED
  BY <1>1, SerialIsSpec, SyncInductive, OpInductive, FreeInductive, PTL
  DEF Spec, WriteFence

(* With one process at a time, however often it restarts, the undo receipt *)
(* names the last change of its task: no merge, restore or command since   *)
(* is undone with it (planner-undo.ts, and clearUndoReceipts called by     *)
(* applyPreflightMerge of the dispatcher).                                 *)
THEOREM UndoIsCurrent == SerialSpec => []UndoCurrent
<1>1. Init => UndoCurrent
  BY DEF Init, UndoCurrent
<1>2. SyncSafe /\ Alone /\ InMemory /\ UndoCurrent /\ [Next]_vars => UndoCurrent'
  BY UndoStep
<1>3. [Next /\ \A s, u \in live' : s = u]_vars => [Next]_vars
  OBVIOUS
<1>4. QED
  BY <1>1, <1>2, <1>3, SerialIsSpec, SyncInductive, SerialInductive, PTL DEF SerialSpec

----------------------------------------------------------------------------
(* A waiting intent says what its task says and starts from the baseline   *)
(* of its link.  So does an attempt under way, unless a newer intent waits. *)
WaitRow(o) ==
  outbox[o].status = "pending" =>
    /\ mapping[outbox[o].task].state # "none"
    /\ MatchesTask(outbox[o])
    /\ outbox[o].baseline = mapping[outbox[o].task].baseline

TryRow(o) == outbox[o].status = "sending" => MatchesTask(outbox[o]) \/ Newer(o) # {}

Current == \A o \in OpId : WaitRow(o) /\ TryRow(o)

(* What lets a process merge: no newer intent, but one written by the only *)
(* command that can come between the check and the merge, and which the    *)
(* merge then sees.                                                        *)
MergeReady(j) ==
  outbox[j.op].status = "sending" =>
    /\ j.pc \in {"preflight", "supersede"} => ~j.passed
    /\ j.pc = "merge" => \/ Newer(j.op) = {}
                         \/ j.passed /\ task[j.task] # j.desired

Serial ==
  /\ Current
  /\ \A s \in Sender : job[s] \in Job => MergeReady(job[s])

(* The code calls an intent comparable when it is of this dataset and      *)
(* baseline: with one process at a time, every waiting intent is.          *)
LEMMA NoneIgnored ==
  ASSUME StoreTypeOK, LiveOpsCurrentEpoch, Current,
         NEW o \in OpId, outbox[o].status = "sending", NewerIgnored(o)
  PROVE  Newer(o) = {}
<1> SUFFICES ASSUME NEW n \in Newer(o)
             PROVE  Comparable(n, o)
  BY DEF NewerIgnored
<1>1. n \in OpId /\ outbox[n].status = "pending" /\ outbox[n].task = outbox[o].task
  BY DEF Newer, OpsOf
<1>2. WaitRow(n)
  BY <1>1 DEF Current
<1>3. outbox[n].epoch = epoch /\ outbox[o].epoch = epoch
  BY <1>1 DEF LiveOpsCurrentEpoch, InStatus
<1>4. QED
  BY <1>1, <1>2, <1>3 DEF Comparable, WaitRow

LEMMA NewerKept ==
  ASSUME NEW o \in OpId, outbox'[o].task = outbox[o].task,
         \A p \in OpId : outbox[p].status = "pending" /\ outbox[p].task = outbox[o].task =>
           outbox'[p] = outbox[p]
  PROVE  Newer(o) # {} => Newer(o)' # {}
<1> SUFFICES ASSUME NEW p \in Newer(o)
             PROVE  p \in Newer(o)'
  OBVIOUS
<1>1. p \in OpId /\ outbox[p].status = "pending" /\ outbox[p].task = outbox[o].task /\ p # o
  BY DEF Newer, OpsOf
<1>2. outbox'[p] = outbox[p]
  BY <1>1
<1>3. QED
  BY <1>1, <1>2 DEF Newer, OpsOf

LEMMA NoNewer ==
  ASSUME NEW o \in OpId, outbox'[o].task = outbox[o].task, Newer(o) = {},
         \A p \in OpId : outbox'[p].status = "pending" /\ outbox'[p].task = outbox[o].task
           => outbox'[p] = outbox[p]
  PROVE  Newer(o)' = {}
<1> SUFFICES ASSUME NEW p \in Newer(o)'
             PROVE  p \in Newer(o)
  OBVIOUS
<1>1. p \in OpId /\ outbox'[p].status = "pending" /\ outbox'[p].task = outbox[o].task /\ p # o
  BY DEF Newer, OpsOf
<1>2. outbox'[p] = outbox[p]
  BY <1>1
<1>3. QED
  BY <1>1, <1>2 DEF Newer, OpsOf

LEMMA KeptCurrent ==
  ASSUME Current, NEW o \in OpId, outbox'[o] = outbox[o],
         outbox[o].status \in {"pending", "sending"} =>
           /\ task'[outbox[o].task] = task[outbox[o].task]
           /\ mapping'[outbox[o].task] = mapping[outbox[o].task],
         outbox[o].status = "sending" =>
           \A p \in OpId : outbox[p].status = "pending" /\ outbox[p].task = outbox[o].task =>
             outbox'[p] = outbox[p]
  PROVE  WaitRow(o)' /\ TryRow(o)'
<1>1. WaitRow(o) /\ TryRow(o)
  BY DEF Current
<1>2. WaitRow(o)'
  BY <1>1 DEF WaitRow, MatchesTask
<1>3. outbox[o].status = "sending" /\ Newer(o) # {} => Newer(o)' # {}
  BY NewerKept
<1>4. TryRow(o)'
  BY <1>1, <1>3 DEF TryRow, MatchesTask
<1>5. QED
  BY <1>2, <1>4

----------------------------------------------------------------------------
(* What each transaction does to it.                                       *)

LEMMA EnqueuedCurrent ==
  ASSUME StoreTypeOK, RowsEnqueued, Current, NEW t \in Task, NEW new \in TaskFields,
         NEW baseline, nextOp < MaxOps, outbox' = Enqueued(t, new, baseline),
         task' = [task EXCEPT ![t] = new],
         mapping'[t].state # "none", mapping'[t].baseline = baseline,
         \A u \in Task \ {t} : mapping'[u] = mapping[u]
  PROVE  Current'
<1>1. PICK n : n = nextOp + 1
  OBVIOUS
<1>2. n \in OpId /\ outbox[n] = Absent
  <2>1. nextOp \in Nat /\ n \in OpId /\ n > nextOp
    BY <1>1, BoundsAssumption DEF StoreTypeOK, OpId
  <2>2. QED
    BY <2>1 DEF RowsEnqueued
<1>3. /\ outbox'[n].status = "pending" /\ outbox'[n].task = t
      /\ outbox'[n].desired = new /\ outbox'[n].baseline = baseline
  <2>1. outbox'[n] = [status |-> "pending", task |-> t, epoch |-> epoch,
                      desired |-> new, baseline |-> baseline, owner |-> NoSender]
    BY <1>1, <1>2 DEF Enqueued
  <2>2. QED
    BY <2>1
<1>4. task'[t] = new /\ \A u \in Task \ {t} : task'[u] = task[u]
  BY DEF StoreTypeOK
<1>5. ASSUME NEW o \in OpId, o # n
      PROVE  IF outbox[o].status = "pending" /\ outbox[o].task = t
               THEN outbox'[o].status = "superseded"
               ELSE outbox'[o] = outbox[o]
  <2>1. CASE outbox[o].status = "pending" /\ outbox[o].task = t
    <3>1. outbox'[o] = [outbox[o] EXCEPT !.status = "superseded"]
      BY <1>1, <1>5, <2>1 DEF Enqueued, OpsOf
    <3>2. outbox[o] \in Operation
      BY <2>1, RowIsOperation DEF StoreTypeOK, OpStatus
    <3>3. QED
      BY <2>1, <3>1, <3>2 DEF Operation
  <2>2. CASE ~(outbox[o].status = "pending" /\ outbox[o].task = t)
    <3>1. o \notin OpsOf(t, {"pending"})
      BY <2>2 DEF OpsOf
    <3>2. outbox'[o] = outbox[o]
      BY <1>1, <1>5, <3>1 DEF Enqueued
    <3>3. QED
      BY <2>2, <3>2
  <2>3. QED
    BY <2>1, <2>2
<1>6. ASSUME NEW o \in OpId
      PROVE  WaitRow(o)' /\ TryRow(o)'
  <2>1. CASE o = n
    BY <1>3, <1>4, <2>1 DEF WaitRow, TryRow, MatchesTask
  <2>2. CASE o # n /\ outbox[o].status = "pending" /\ outbox[o].task = t
    <3>1. outbox'[o].status = "superseded"
      BY <1>5, <2>2
    <3>2. QED
      BY <3>1 DEF WaitRow, TryRow
  <2>3. CASE o # n /\ outbox[o].status = "sending" /\ outbox[o].task = t
    <3>1. outbox'[o] = outbox[o]
      BY <1>5, <2>3
    <3>2. n \in Newer(o)'
      BY <1>2, <1>3, <2>3, <3>1 DEF Newer, OpsOf
    <3>3. QED
      BY <2>3, <3>1, <3>2 DEF WaitRow, TryRow
  <2>4. CASE o # n /\ outbox[o].status \in {"pending", "sending"} /\ outbox[o].task # t
    <3>1. outbox'[o] = outbox[o]
      BY <1>5, <2>4
    <3>2. outbox[o] \in Operation
      BY <2>4, RowIsOperation DEF StoreTypeOK, OpStatus
    <3>3. outbox[o].task \in Task \ {t}
      BY <2>4, <3>2 DEF Operation
    <3>4. \A p \in OpId : outbox[p].status = "pending" /\ outbox[p].task = outbox[o].task =>
            outbox'[p] = outbox[p]
      BY <1>2, <1>5, <2>4 DEF Absent
    <3>5. QED
      BY <1>4, <3>1, <3>3, <3>4, KeptCurrent
  <2>5. CASE o # n /\ outbox[o].status \notin {"pending", "sending"}
    <3>1. outbox'[o] = outbox[o]
      BY <1>5, <2>5
    <3>2. QED
      BY <2>5, <3>1 DEF WaitRow, TryRow
  <2>6. QED
    BY <2>1, <2>2, <2>3, <2>4, <2>5
<1>7. QED
  BY <1>6 DEF Current

LEMMA LocalWriteCurrent ==
  ASSUME SyncSafe, Current, NEW t \in Task, NEW new \in TaskFields, LocalWrite(t, new)
  PROVE  Current'
<1> USE DEF SyncSafe, StoreSafe, StoreKept
<1>1. CASE WriteLinkedTask(t, new)
  <2>1. PICK old : old = mapping[t].baseline
    OBVIOUS
  <2>2. /\ mapping'[t].state # "none" /\ mapping'[t].baseline = old
        /\ \A u \in Task \ {t} : mapping'[u] = mapping[u]
        /\ nextOp < MaxOps /\ outbox' = Enqueued(t, new, old)
        /\ task' = [task EXCEPT ![t] = new]
    BY <1>1, <2>1 DEF WriteLinkedTask
  <2>3. QED
    BY <2>2, EnqueuedCurrent
<1>2. CASE CreateLinkedTask(t, new)
  <2>1. mapping' = [mapping EXCEPT ![t] = [Unlinked EXCEPT !.state = "pending_create"]]
    BY <1>2 DEF CreateLinkedTask
  <2>2. /\ mapping'[t].state = "pending_create" /\ mapping'[t].baseline = NoFields
        /\ \A u \in Task \ {t} : mapping'[u] = mapping[u]
    BY <2>1 DEF StoreTypeOK, Unlinked
  <2>3. /\ nextOp < MaxOps /\ outbox' = Enqueued(t, new, NoFields)
        /\ task' = [task EXCEPT ![t] = new]
    BY <1>2 DEF CreateLinkedTask
  <2>4. QED
    BY <2>2, <2>3, EnqueuedCurrent
<1>3. CASE WriteLocalTask(t, new)
  <2>1. /\ mapping[t].state = "none" /\ UNCHANGED <<mapping, outbox>>
        /\ \A u \in Task \ {t} : task'[u] = task[u]
    BY <1>3 DEF WriteLocalTask, StoreTypeOK
  <2>2. ASSUME NEW o \in OpId
        PROVE  WaitRow(o)' /\ TryRow(o)'
    <3>1. CASE outbox[o].status \in {"pending", "sending"}
      <4>1. outbox[o] \in Operation
        BY <3>1, RowIsOperation DEF StoreTypeOK, OpStatus
      <4>2. mapping[outbox[o].task].state # "none"
        BY <3>1 DEF Current, WaitRow, SendsAlone, InStatus
      <4>3. outbox[o].task \in Task \ {t}
        BY <2>1, <4>1, <4>2 DEF Operation
      <4>4. QED
        BY <2>1, <4>3, KeptCurrent
    <3>2. CASE outbox[o].status \notin {"pending", "sending"}
      BY <2>1, <3>2 DEF WaitRow, TryRow
    <3>3. QED
      BY <3>1, <3>2
  <2>3. QED
    BY <2>2 DEF Current
<1>4. QED
  BY <1>1, <1>2, <1>3 DEF LocalWrite

LEMMA DemotedRow ==
  ASSUME StoreTypeOK, Demoted, NEW o \in OpId
  PROVE  /\ outbox'[o].status \in {"pending", "sending"} => outbox'[o] = outbox[o]
         /\ outbox[o].status = "pending" => outbox'[o] = outbox[o]
<1>1. CASE outbox[o].status = "sending" /\ outbox'[o] = [outbox[o] EXCEPT !.status = "unknown"]
  <2>1. outbox[o] \in Operation
    BY <1>1, RowIsOperation DEF StoreTypeOK, OpStatus
  <2>2. QED
    BY <1>1, <2>1 DEF Operation
<1>2. QED
  BY <1>1 DEF Demoted

LEMMA DemotedCurrent ==
  ASSUME StoreTypeOK, Current, Demoted
  PROVE  Current'
<1> SUFFICES ASSUME NEW o \in OpId
             PROVE  WaitRow(o)' /\ TryRow(o)'
  BY DEF Current
<1>1. CASE outbox'[o].status \in {"pending", "sending"}
  <2>1. outbox'[o] = outbox[o] /\ UNCHANGED <<task, mapping>>
    BY <1>1, DemotedRow DEF Demoted
  <2>2. \A p \in OpId : outbox[p].status = "pending" => outbox'[p] = outbox[p]
    BY DemotedRow
  <2>3. QED
    BY <2>1, <2>2, KeptCurrent
<1>2. CASE outbox'[o].status \notin {"pending", "sending"}
  BY <1>2 DEF WaitRow, TryRow
<1>3. QED
  BY <1>1, <1>2

LEMMA ClaimCurrent ==
  ASSUME StoreTypeOK, Current, NEW o \in OpId, NEW s \in Sender, MarkSending(o, s)
  PROVE  Current'
<1>1. /\ outbox'[o].status = "sending"
      /\ outbox'[o].task = outbox[o].task /\ outbox'[o].desired = outbox[o].desired
      /\ MatchesTask(outbox[o]) /\ UNCHANGED <<task, mapping>>
      /\ \A p \in OpId \ {o} : outbox'[p] = outbox[p]
  BY ClaimRow, ClaimedRow
<1>2. \A p \in OpId : outbox[p].status = "sending" => outbox[p].task # outbox[o].task
  BY DEF MarkSending, Claimable, OpsOf
<1>3. WaitRow(o)' /\ TryRow(o)'
  BY <1>1 DEF WaitRow, TryRow, MatchesTask
<1>4. ASSUME NEW p \in OpId \ {o}
      PROVE  WaitRow(p)' /\ TryRow(p)'
  <2>1. outbox[p].status = "sending" =>
          \A q \in OpId : outbox[q].status = "pending" /\ outbox[q].task = outbox[p].task =>
            outbox'[q] = outbox[q]
    BY <1>1, <1>2
  <2>2. QED
    BY <1>1, <2>1, KeptCurrent
<1>5. QED
  BY <1>3, <1>4 DEF Current

LEMMA ReturnCurrent ==
  ASSUME SyncSafe, InStep, Current, NEW o \in OpId, Returns(o)
  PROVE  Current'
<1> USE DEF SyncSafe, StoreSafe, StoreKept
<1>1. /\ outbox[o].status = "sending" /\ outbox'[o].status \in {"pending", "superseded"}
      /\ \A p \in OpId \ {o} : outbox'[p] = outbox[p]
  BY ReturnRow
<1>2. UNCHANGED <<task, mapping>>
  BY DEF Returns, SupersedeUnsent, PauseUnsent, DeferUnsent
<1>3. outbox[o] \in Operation
  BY <1>1, RowIsOperation DEF StoreTypeOK, OpStatus
<1>4. ASSUME outbox'[o].status = "pending"
      PROVE  WaitRow(o)'
  <2>1. \/ outbox' = [outbox EXCEPT ![o].status = "superseded"]
        \/ /\ NewerIgnored(o)
           /\ outbox' = [outbox EXCEPT ![o].status = "pending", ![o].owner = NoSender]
    BY DEF Returns, SupersedeUnsent, PauseUnsent, DeferUnsent, ReturnUnsent
  <2>2. \/ outbox'[o] = [outbox[o] EXCEPT !.status = "superseded"]
        \/ /\ NewerIgnored(o)
           /\ outbox'[o] = [outbox[o] EXCEPT !.status = "pending", !.owner = NoSender]
    BY <2>1 DEF StoreTypeOK
  <2>3. /\ NewerIgnored(o) /\ outbox'[o].task = outbox[o].task
        /\ outbox'[o].desired = outbox[o].desired /\ outbox'[o].baseline = outbox[o].baseline
    BY <1>3, <1>4, <2>2 DEF Operation
  <2>4. Newer(o) = {}
    BY <1>1, <2>3, NoneIgnored
  <2>5. MatchesTask(outbox[o])
    BY <1>1, <2>4 DEF Current, TryRow
  <2>6. /\ mapping[outbox[o].task].state # "none"
        /\ outbox[o].baseline = mapping[outbox[o].task].baseline
    BY <1>1 DEF SendsAlone, InStatus, InStep, FromLink
  <2>7. QED
    BY <1>2, <2>3, <2>5, <2>6 DEF WaitRow, MatchesTask
<1>5. WaitRow(o)' /\ TryRow(o)'
  BY <1>1, <1>4 DEF WaitRow, TryRow
<1>6. ASSUME NEW p \in OpId \ {o}
      PROVE  WaitRow(p)' /\ TryRow(p)'
  <2>1. \A q \in OpId : outbox[q].status = "pending" => outbox'[q] = outbox[q]
    BY <1>1
  <2>2. outbox'[p] = outbox[p]
    BY <1>1
  <2>3. QED
    BY <1>2, <2>1, <2>2, KeptCurrent
<1>7. QED
  BY <1>5, <1>6 DEF Current

LEMMA MergeCurrent ==
  ASSUME SyncSafe, Current, NEW o \in OpId, NEW fields \in TaskFields,
         MergePreflight(o, fields), Newer(o) = {}
  PROVE  Current'
<1> USE DEF SyncSafe, StoreSafe
<1>1. /\ outbox[o] \in Operation /\ outbox[o].status = "sending"
      /\ outbox'[o].status = "sending" /\ outbox'[o].task = outbox[o].task
      /\ task'[outbox[o].task] = outbox'[o].desired
      /\ \A p \in OpId \ {o} : outbox'[p] = outbox[p]
      /\ \A t \in Task \ {outbox[o].task} : mapping'[t] = mapping[t] /\ task'[t] = task[t]
  BY MergeRow
<1>2. WaitRow(o)' /\ TryRow(o)'
  BY <1>1 DEF WaitRow, TryRow, MatchesTask
<1>3. ASSUME NEW p \in OpId \ {o}
      PROVE  WaitRow(p)' /\ TryRow(p)'
  <2>1. outbox'[p] = outbox[p]
    BY <1>1
  <2>2. CASE outbox[p].status \in {"pending", "sending"}
    <3>1. outbox[p].task # outbox[o].task
      BY <1>1, <1>3, <2>2 DEF Newer, OpsOf, SingleInFlight, InStatus
    <3>2. outbox[p] \in Operation
      BY <2>2, RowIsOperation DEF StoreTypeOK, OpStatus
    <3>3. outbox[p].task \in Task \ {outbox[o].task}
      BY <3>1, <3>2 DEF Operation
    <3>4. \A q \in OpId : outbox[q].status = "pending" => outbox'[q] = outbox[q]
      BY <1>1
    <3>5. QED
      BY <1>1, <2>1, <3>3, <3>4, KeptCurrent
  <2>3. CASE outbox[p].status \notin {"pending", "sending"}
    BY <2>1, <2>3 DEF WaitRow, TryRow
  <2>4. QED
    BY <2>2, <2>3
<1>4. QED
  BY <1>2, <1>3 DEF Current

LEMMA ConfirmCurrent ==
  ASSUME SyncSafe, Current, NEW o \in OpId, NEW copy \in Copy, NEW fields \in TaskFields,
         Confirm(o, copy, fields)
  PROVE  Current'
<1> USE DEF SyncSafe, StoreSafe
<1>1. PICK t : t = outbox[o].task
  OBVIOUS
<1>2. /\ outbox[o].status \in OpenWrite /\ outbox' = Settled(o, fields)
      /\ mapping' = [mapping EXCEPT ![t] =
                       [state |-> "active", copy |-> copy, baseline |-> fields]]
      /\ task' = task
  BY <1>1 DEF Confirm, Confirmable, OpenWrite
<1>3. outbox[o] \in Operation
  BY <1>2, RowIsOperation DEF StoreTypeOK, OpStatus, OpenWrite
<1>4. t \in Task
  BY <1>1, <1>3 DEF Operation
<1>5. /\ mapping'[t].state = "active" /\ mapping'[t].baseline = fields
      /\ \A u \in Task \ {t} : mapping'[u] = mapping[u]
  BY <1>2, <1>4 DEF StoreTypeOK
<1>6. ASSUME NEW p \in OpId
      PROVE  WaitRow(p)' /\ TryRow(p)'
  <2>1. CASE p = o
    <3>1. outbox'[p] = [outbox[p] EXCEPT !.status = "confirmed"]
      BY <1>2, <2>1 DEF Settled
    <3>2. outbox'[p].status = "confirmed"
      BY <1>3, <2>1, <3>1 DEF Operation
    <3>3. QED
      BY <3>2 DEF WaitRow, TryRow
  <2>2. CASE p # o /\ outbox[p].status = "pending" /\ outbox[p].task = t
    <3>1. outbox[p] \in Operation
      BY <2>2, RowIsOperation DEF StoreTypeOK, OpStatus
    <3>2. outbox'[p] = [outbox[p] EXCEPT !.baseline = fields,
                          !.status = IF outbox[p].desired = fields
                                       THEN "confirmed" ELSE "pending"]
      BY <1>1, <1>2, <2>2 DEF Settled, OpsOf
    <3>3. /\ outbox'[p].status \in {"confirmed", "pending"} /\ outbox'[p].task = t
          /\ outbox'[p].desired = outbox[p].desired /\ outbox'[p].baseline = fields
      BY <2>2, <3>1, <3>2 DEF Operation
    <3>4. MatchesTask(outbox[p])
      BY <2>2 DEF Current, WaitRow
    <3>5. QED
      BY <1>2, <1>5, <2>2, <3>3, <3>4 DEF WaitRow, TryRow, MatchesTask
  <2>3. CASE p # o /\ ~(outbox[p].status = "pending" /\ outbox[p].task = t)
    <3>1. outbox'[p] = outbox[p]
      BY <1>1, <1>2, <2>3 DEF Settled, OpsOf
    <3>2. CASE outbox[p].status \in {"pending", "sending"}
      <4>1. outbox[p].task # t
        BY <1>1, <1>2, <2>3, <3>2 DEF SingleInFlight, InStatus, OpenWrite
      <4>2. outbox[p] \in Operation
        BY <3>2, RowIsOperation DEF StoreTypeOK, OpStatus
      <4>3. outbox[p].task \in Task \ {t}
        BY <4>1, <4>2 DEF Operation
      <4>4. ASSUME NEW q \in OpId, outbox[q].status = "pending",
                   outbox[q].task = outbox[p].task
            PROVE  outbox'[q] = outbox[q]
        <5>1. q # o /\ outbox[q].task # t
          BY <1>2, <4>1, <4>4 DEF OpenWrite
        <5>2. QED
          BY <1>1, <1>2, <5>1 DEF Settled, OpsOf
      <4>5. QED
        BY <1>2, <1>5, <3>1, <4>3, <4>4, KeptCurrent
    <3>3. CASE outbox[p].status \notin {"pending", "sending"}
      BY <3>1, <3>3 DEF WaitRow, TryRow
    <3>4. QED
      BY <3>2, <3>3
  <2>4. QED
    BY <2>1, <2>2, <2>3
<1>7. QED
  BY <1>6 DEF Current

LEMMA ReplaceCurrent ==
  ASSUME StoreTypeOK, ReplaceAllData
  PROVE  Current'
  BY ReplacedRows DEF Current, WaitRow, TryRow, LiveStatus

----------------------------------------------------------------------------
(* What each step leaves a process ready for.                              *)

LEMMA ReadyStays ==
  ASSUME NEW j \in Job, MergeReady(j), HeldRow(j.op),
         outbox'[j.op].status = "sending" =>
           (Newer(j.op) = {} => Newer(j.op)' = {}) /\ task'[j.task] = task[j.task]
  PROVE  MergeReady(j)'
<1> SUFFICES ASSUME outbox'[j.op].status = "sending"
             PROVE  /\ j.pc \in {"preflight", "supersede"} => ~j.passed
                    /\ j.pc = "merge" => \/ Newer(j.op)' = {}
                                         \/ j.passed /\ task'[j.task] # j.desired
  BY DEF MergeReady
<1>1. outbox[j.op].status = "sending"
  BY DEF HeldRow, OpenWrite
<1>2. QED
  BY <1>1 DEF MergeReady

LEMMA AllReady ==
  ASSUME \A s \in Sender : \E j : j = job'[s] /\ (j \in Job => MergeReady(j)')
  PROVE  \A s \in Sender : job'[s] \in Job => MergeReady(job[s])'
  BY DEF MergeReady, Newer, OpsOf

LEMMA DemotedReady ==
  ASSUME StoreTypeOK, Demoted, NEW j \in Job, MergeReady(j)
  PROVE  MergeReady(j)'
<1>1. HeldRow(j.op)
  BY DemotedHeld DEF Held, Job
<1>2. ASSUME outbox'[j.op].status = "sending"
      PROVE  (Newer(j.op) = {} => Newer(j.op)' = {}) /\ task'[j.task] = task[j.task]
  <2>1. j.op \in OpId /\ outbox'[j.op].task = outbox[j.op].task
    BY <1>1, <1>2 DEF HeldRow, OpenWrite, Job
  <2>2. \A p \in OpId : outbox'[p].status = "pending" => outbox'[p] = outbox[p]
    BY DemotedRow
  <2>3. Newer(j.op) = {} => Newer(j.op)' = {}
    BY <2>1, <2>2, NoNewer
  <2>4. QED
    BY <2>3 DEF Demoted
<1>3. QED
  BY <1>1, <1>2, ReadyStays

(* A step of a dispatch leaves an attempt ready to merge. *)
LEMMA TurnReady ==
  ASSUME SyncSafe, Serial, NEW s \in Sender, NEW j \in Job, Dispatched(s, j)
  PROVE  MergeReady(j)'
<1> USE DEF SyncSafe, StoreSafe
<1>1. CASE Claimed(s, j)
  <2>1. j.pc = "preflight" /\ j.passed = FALSE
    BY <1>1 DEF Claimed, Dispatching
  <2>2. QED
    BY <2>1 DEF MergeReady
<1>2. CASE WentOn(s, j)
  <2>1. PICK k : k = job[s]
    OBVIOUS
  <2>2. /\ k \in Job /\ j.op = k.op /\ j.task = k.task /\ j.passed = k.passed
        /\ ReadOn(s, j) \/ MovedOn(s, j)
        /\ UNCHANGED <<outbox, task>> /\ j.op \in OpId
    BY <1>2, <2>1 DEF WentOn, SameAttempt, Further, SameValues, storeVars, Job
  <2>3. MergeReady(k)
    BY <2>1, <2>2 DEF Serial
  <2>4. ASSUME outbox[j.op].status = "sending", j.pc = "merge"
        PROVE  Newer(j.op) = {}
    <3>1. NewerIgnored(j.op)
      BY <2>1, <2>2, <2>4 DEF ReadOn, MovedOn, Sending
    <3>2. QED
      BY <2>2, <2>4, <3>1, NoneIgnored DEF Serial
  <2>5. ASSUME j.pc \in {"preflight", "supersede"}
        PROVE  k.pc = "preflight"
    BY <2>1, <2>2, <2>5 DEF ReadOn, MovedOn
  <2>6. MergeReady(j)
    BY <2>2, <2>3, <2>4, <2>5 DEF MergeReady
  <2>7. QED
    BY <2>2, <2>6 DEF MergeReady, Newer, OpsOf
<1>3. CASE MergedInto(s, j) \/ SentBy(s, j)
  <2>1. j.pc \in {"confirm", "gate", "readBack"}
    BY <1>3 DEF MergedInto, TookMerge, SentBy
  <2>2. QED
    BY <2>1 DEF MergeReady
<1>4. ~Ended(s, j)
  BY DEF Ended, Idle, Loops, Job, Place
<1>5. QED
  BY <1>1, <1>2, <1>3, <1>4 DEF Dispatched

LEMMA TurnCurrent ==
  ASSUME SyncSafe, OpSafe, InStep, Serial, NEW s \in Sender, NEW j, Dispatched(s, j)
  PROVE  Current'
<1> USE DEF SyncSafe, StoreSafe, Serial
<1>1. ASSUME job[s] \in Job
      PROVE  /\ job[s].op \in OpId /\ Owns(s, job[s]) /\ MergeReady(job[s])
             /\ Agrees(job[s]) /\ ReadFirst(job[s])
  BY <1>1 DEF OpSafe, RowsOwned, Job, SyncTyped, InStep
<1>2. CASE UNCHANGED storeVars \/ RecoverOrphans
  BY <1>2, SameRowsDemote, RecoveryDemotes, DemotedCurrent DEF storeVars, RecoverOrphans
<1>3. CASE Claimed(s, j)
  BY <1>3, ClaimCurrent DEF Claimed
<1>4. CASE job[s] \in Job /\ Returns(job[s].op)
  BY <1>1, <1>4, ReturnCurrent
<1>5. CASE job[s] \in Job /\ MarkUnknown(job[s].op)
  BY <1>1, <1>5, MarkUnknownDemotes, DemotedCurrent
<1>6. CASE /\ job[s] \in Job /\ job[s].pc = "confirm"
           /\ Confirm(job[s].op, job[s].copy, job[s].seen)
  BY <1>1, <1>6, ConfirmCurrent DEF ReadFirst
<1>7. CASE MergedInto(s, j)
  <2>1. PICK k, o, t, fields : k = job[s] /\ o = k.op /\ t = k.task /\ fields = k.seen
    OBVIOUS
  <2>2. /\ k \in Job /\ k.pc = "merge" /\ MergePreflight(o, fields) /\ o \in OpId
        /\ fields \in TaskFields /\ MergeReady(k) /\ Agrees(k) /\ Owns(s, k)
    BY <1>1, <1>7, <2>1 DEF MergedInto, SameAttempt, ReadFirst
  <2>3. /\ outbox[o].status = "sending" /\ task[outbox[o].task] = outbox[o].desired
    BY <2>2, MergeRow
  <2>4. task[t] = k.desired
    BY <2>1, <2>2, <2>3 DEF Agrees, Owns, OpenWrite
  <2>5. Newer(o) = {}
    BY <2>1, <2>2, <2>3, <2>4 DEF MergeReady
  <2>6. QED
    BY <2>2, <2>5, MergeCurrent
<1>8. QED
  BY <1>2, <1>3, <1>4, <1>5, <1>6, <1>7 DEF Dispatched, Ended, WentOn, SentBy

(* The one command that can come before a merge. *)
LEMMA CommandReady ==
  ASSUME SyncSafe, OpSafe, InStep, Serial, NEW s \in Sender, PlannerTurn(s),
         Demoted \/ \E t \in Task, new \in TaskFields : LocalWrite(t, new),
         NEW j, j = job'[s], j \in Job
  PROVE  MergeReady(j)'
<1> USE DEF SyncSafe, StoreSafe, StoreKept
<1>1. PICK k : k = job[s]
  OBVIOUS
<1>2. \/ k.pc = "merge" /\ ~k.passed /\ j = [k EXCEPT !.passed = TRUE]
      \/ k.pc # "merge" /\ j = k
  BY <1>1 DEF PlannerTurn, SyncTyped
<1>3. k \in Job
  <2>1. CASE k.pc = "merge"
    BY <1>1, <2>1, JobIsDispatch DEF SyncTyped, Place
  <2>2. QED
    BY <1>2, <2>1
<1>4. /\ j.op = k.op /\ j.task = k.task /\ j.desired = k.desired /\ j.pc = k.pc
      /\ k.pc = "merge" => ~k.passed /\ j.passed
      /\ k.pc # "merge" => j.passed = k.passed
      /\ k.op \in OpId
  BY <1>2, <1>3 DEF Job
<1>5. MergeReady(k) /\ Agrees(k) /\ Owns(s, k)
  BY <1>1, <1>3 DEF Serial, InStep, OpSafe, RowsOwned
<1>6. CASE Demoted
  <2>1. MergeReady(k)'
    BY <1>3, <1>5, <1>6, DemotedReady
  <2>2. QED
    BY <1>4, <2>1 DEF MergeReady, Newer, OpsOf
<1>7. ASSUME NEW t \in Task, NEW new \in TaskFields, LocalWrite(t, new)
      PROVE  MergeReady(j)'
  <2>1. PICK o : o = k.op
    OBVIOUS
  <2>2. SUFFICES ASSUME outbox'[o].status = "sending"
                 PROVE  /\ j.pc \in {"preflight", "supersede"} => ~j.passed
                        /\ j.pc = "merge" => \/ Newer(o)' = {}
                                             \/ j.passed /\ task'[j.task] # j.desired
    BY <1>4, <2>1 DEF MergeReady
  <2>3. /\ outbox[o].status = "sending" /\ outbox'[o].task = outbox[o].task
        /\ outbox[o].task = k.task /\ o \in OpId
    BY <1>4, <1>5, <1>7, <2>1, <2>2, LocalWriteHeld DEF Held, HeldRow, OpenWrite, Owns
  <2>4. mapping[k.task].state # "none"
    BY <2>3 DEF SendsAlone, InStatus
  <2>5. k.pc \in {"preflight", "supersede"} => ~k.passed
    BY <1>5, <2>1, <2>3 DEF MergeReady
  <2>6. ASSUME k.pc = "merge"
        PROVE  Newer(o) = {} /\ task[k.task] = k.desired
    <3>1. Newer(o) = {}
      BY <1>4, <1>5, <2>1, <2>3, <2>6 DEF MergeReady
    <3>2. MatchesTask(outbox[o])
      BY <2>3, <3>1 DEF Serial, Current, TryRow
    <3>3. QED
      BY <1>5, <2>1, <2>3, <3>1, <3>2 DEF MatchesTask, Agrees, OpenWrite
  <2>7. CASE t = k.task
    <3>1. WriteLinkedTask(t, new)
      BY <1>7, <2>4, <2>7 DEF LocalWrite, CreateLinkedTask, WriteLocalTask
    <3>2. new # task[t] /\ task'[t] = new
      BY <3>1 DEF WriteLinkedTask, StoreTypeOK
    <3>3. QED
      BY <1>4, <2>5, <2>6, <2>7, <3>2
  <2>8. CASE t # k.task
    <3>1. ASSUME NEW p \in OpId, outbox'[p].status = "pending",
                 outbox'[p].task = outbox[o].task
          PROVE  outbox'[p] = outbox[p]
      <4>1. ASSUME NEW baseline, outbox' = Enqueued(t, new, baseline)
            PROVE  outbox'[p] = outbox[p]
        <5>1. CASE p = nextOp + 1
          <6>1. outbox'[p] = [status |-> "pending", task |-> t, epoch |-> epoch,
                              desired |-> new, baseline |-> baseline, owner |-> NoSender]
            BY <4>1, <5>1 DEF Enqueued
          <6>2. outbox'[p].task = t
            BY <6>1
          <6>3. QED
            BY <2>3, <2>8, <3>1, <6>2
        <5>2. CASE p # nextOp + 1 /\ p \in OpsOf(t, {"pending"})
          <6>1. outbox'[p] = [outbox[p] EXCEPT !.status = "superseded"]
            BY <4>1, <5>2 DEF Enqueued
          <6>2. outbox[p] \in Operation
            BY <5>2, RowIsOperation DEF OpsOf, StoreTypeOK, OpStatus
          <6>3. outbox'[p].status = "superseded"
            BY <6>1, <6>2 DEF Operation
          <6>4. QED
            BY <3>1, <6>3
        <5>3. CASE p # nextOp + 1 /\ p \notin OpsOf(t, {"pending"})
          BY <4>1, <5>3 DEF Enqueued
        <5>4. QED
          BY <5>1, <5>2, <5>3
      <4>2. PICK old : old = mapping[t].baseline
        OBVIOUS
      <4>3. outbox' = Enqueued(t, new, old) \/ outbox' = Enqueued(t, new, NoFields)
              \/ outbox' = outbox
        BY <1>7, <4>2 DEF LocalWrite, WriteLinkedTask, CreateLinkedTask, WriteLocalTask
      <4>4. QED
        BY <4>1, <4>3
    <3>2. Newer(o) = {} => Newer(o)' = {}
      BY <2>3, <3>1, NoNewer
    <3>3. QED
      BY <1>4, <2>5, <2>6, <3>2
  <2>9. QED
    BY <2>7, <2>8
<1>8. QED
  BY <1>6, <1>7

(* The steps, with the process they belong to. *)
LEMMA SerialCases ==
  ASSUME SyncSafe, InMemory, [Next]_vars
  PROVE  \/ \E s \in live, j \in JobState : Dispatched(s, j)
         \/ \E s \in live : \E j : /\ Reconciled(s, j) /\ job' = [job EXCEPT ![s] = j]
         \/ \E s \in live : /\ PlannerTurn(s)
                            /\ \/ Demoted
                               \/ \E t \in Task, new \in TaskFields : LocalWrite(t, new)
         \/ /\ Demoted \/ ReplaceAllData
            /\ UNCHANGED job \/ \E s \in Sender : job' = [job EXCEPT ![s] = Idle]
<1> USE DEF SyncSafe, StoreSafe
<1>1. UNCHANGED storeVars => Demoted
  BY SameRowsDemote DEF storeVars
<1>2. ASSUME NEW s \in Sender, PlannerStep(s)
      PROVE  /\ s \in live /\ PlannerTurn(s)
             /\ Demoted \/ \E t \in Task, new \in TaskFields : LocalWrite(t, new)
  <2>1. s \in live /\ PlannerTurn(s)
    BY <1>2 DEF PlannerStep, EditTask, CreateTask, UndoEdit, PlannerTurn, Free
  <2>2. CASE \E t \in Task, new \in TaskFields : EditTask(s, t, new) \/ CreateTask(s, t, new)
    BY <2>1, <2>2 DEF EditTask, CreateTask, LocalWrite
  <2>3. CASE UndoEdit(s)
    <3>1. PICK old \in undo[s] :
            \/ LocalWrite(old.task, old.fields)
            \/ UNCHANGED storeVars
      BY <2>3 DEF UndoEdit, LocalWrite
    <3>2. old.task \in Task /\ old.fields \in TaskFields
      BY DEF SyncTyped, Receipt
    <3>3. QED
      BY <1>1, <2>1, <3>1, <3>2
  <2>4. QED
    BY <1>2, <2>1, <2>2, <2>3 DEF PlannerStep
<1>3. ASSUME NEW s \in Sender, DispatchStep(s)
      PROVE  s \in live /\ \E j \in JobState : Dispatched(s, j)
  BY <1>3, LiveTurn, DispatchCases DEF DispatchStep
<1>4. ASSUME NEW s \in Sender, ReconcileStep(s)
      PROVE  s \in live /\ \E j : Reconciled(s, j) /\ job' = [job EXCEPT ![s] = j]
  <2>1. PICK o \in OpId : Reconcile(s, o)
    BY <1>4 DEF ReconcileStep
  <2>2. PICK j : j = Dispatching("readBack", {}, o)
    OBVIOUS
  <2>3. s \in live /\ Reconciled(s, j) /\ job' = [job EXCEPT ![s] = j]
    BY <2>1, <2>2 DEF Reconcile, Reconciled
  <2>4. QED
    BY <2>3
<1>5. ASSUME NEW s \in Sender, ExportBackup(s) \/ StartRestore(s)
      PROVE  s \in live /\ PlannerTurn(s) /\ Demoted
  BY <1>1, <1>5, SameRowsDemote DEF ExportBackup, StartRestore, PlannerTurn, Free, Export,
     PauseForRestore, SetConn
<1>6. ASSUME NEW s \in Sender, FinishRestore(s) \/ RestoreFails(s)
      PROVE  (Demoted \/ ReplaceAllData) /\ UNCHANGED job
  BY <1>1, <1>6 DEF FinishRestore, RestoreFails
<1>7. ASSUME NEW s \in Sender, Open(s) \/ Stop(s)
      PROVE  Demoted /\ (UNCHANGED job \/ job' = [job EXCEPT ![s] = Idle])
  BY <1>7, InstanceDemotes DEF Open, Stop, Instance
<1>8. CASE FenceStep
  BY <1>8, FenceDemotes DEF FenceStep, Fence
<1>9. CASE NotionStep \/ UNCHANGED vars
  BY <1>1, <1>9 DEF NotionStep, ProviderStep, vars, dispatchVars
<1>10. QED
  BY <1>2, <1>3, <1>4, <1>5, <1>6, <1>7, <1>8, <1>9 DEF Next, RestoreStep

LEMMA SerialStep ==
  ASSUME SyncSafe, OpSafe, InStep, Alone, InMemory, Serial, [Next]_vars
  PROVE  Serial'
<1> USE DEF SyncSafe, StoreSafe
<1>1. ASSUME NEW s \in live, NEW j, j = job'[s], j \in Job => MergeReady(j)',
             \A q \in Sender \ {s} : job'[q] = job[q]
      PROVE  \A q \in Sender : job'[q] \in Job => MergeReady(job[q])'
  <2>1. Idle \notin Job
    BY DEF Idle, Job, Place
  <2>2. ASSUME NEW q \in Sender
        PROVE  \E l : l = job'[q] /\ (l \in Job => MergeReady(l)')
    BY <1>1, <2>1, OthersIdle
  <2>3. QED
    BY <2>2, AllReady
<1>2. ASSUME NEW s \in live, NEW j \in JobState, Dispatched(s, j)
      PROVE  Serial'
  <2>1. s \in Sender /\ job' = [job EXCEPT ![s] = j]
    BY <1>2 DEF StoreTypeOK, Dispatched
  <2>2. j = job'[s] /\ \A q \in Sender \ {s} : job'[q] = job[q]
    BY <2>1 DEF SyncTyped
  <2>3. j \in Job => MergeReady(j)'
    BY <1>2, <2>1, TurnReady
  <2>4. Current'
    BY <1>2, <2>1, TurnCurrent
  <2>5. QED
    BY <1>1, <2>2, <2>3, <2>4 DEF Serial
<1>3. ASSUME NEW s \in live, NEW j, Reconciled(s, j), job' = [job EXCEPT ![s] = j]
      PROVE  Serial'
  <2>1. j = job'[s] /\ \A q \in Sender \ {s} : job'[q] = job[q]
    BY <1>3 DEF SyncTyped, StoreTypeOK
  <2>2. j.pc = "readBack"
    BY <1>3 DEF Reconciled, Dispatching
  <2>3. MergeReady(j)'
    BY <2>2 DEF MergeReady
  <2>4. Current'
    BY <1>3, SameRowsDemote, DemotedCurrent DEF Reconciled, storeVars, Serial
  <2>5. QED
    BY <1>1, <2>1, <2>3, <2>4 DEF Serial
<1>4. ASSUME NEW s \in live, PlannerTurn(s),
             Demoted \/ \E t \in Task, new \in TaskFields : LocalWrite(t, new)
      PROVE  Serial'
  <2>1. s \in Sender
    BY DEF StoreTypeOK
  <2>2. PICK j : j = job'[s]
    OBVIOUS
  <2>3. \A q \in Sender \ {s} : job'[q] = job[q]
    BY <1>4 DEF PlannerTurn, SyncTyped
  <2>4. j \in Job => MergeReady(j)'
    BY <1>4, <2>1, <2>2, CommandReady
  <2>5. Current'
    BY <1>4, DemotedCurrent, LocalWriteCurrent DEF Serial
  <2>6. QED
    BY <1>1, <2>2, <2>3, <2>4, <2>5 DEF Serial
<1>5. ASSUME Demoted \/ ReplaceAllData,
             UNCHANGED job \/ \E s \in Sender : job' = [job EXCEPT ![s] = Idle]
      PROVE  Serial'
  <2>1. Current'
    BY <1>5, DemotedCurrent, ReplaceCurrent DEF Serial
  <2>2. ASSUME NEW l \in Job, MergeReady(l)
        PROVE  MergeReady(l)'
    <3>1. CASE Demoted
      BY <2>2, <3>1, DemotedReady
    <3>2. CASE ReplaceAllData
      BY <3>2, ReplacedRows DEF MergeReady, LiveStatus, Job
    <3>3. QED
      BY <1>5, <3>1, <3>2
  <2>3. Idle \notin Job
    BY DEF Idle, Job, Place
  <2>4. ASSUME NEW q \in Sender
        PROVE  \E l : l = job'[q] /\ (l \in Job => MergeReady(l)')
    <3>1. job'[q] = job[q] \/ job'[q] = Idle
      BY <1>5 DEF SyncTyped
    <3>2. QED
      BY <2>2, <2>3, <3>1 DEF Serial
  <2>5. QED
    BY <2>1, <2>4, AllReady DEF Serial
<1>6. QED
  BY <1>2, <1>3, <1>4, <1>5, SerialCases

(* With one process at a time, however often it restarts, an intent that   *)
(* waits says what its task says, so that its claim is not refused for the *)
(* values: the check before the merge and the one command that can follow  *)
(* it are enough (supersedeNotionUnsentIfNewer, applyPreflightMerge).      *)
THEOREM WaitingIsCurrent == SerialSpec => []PendingMatchesTask
<1>1. Init => Serial
  <2> SUFFICES ASSUME Init
               PROVE  Serial
    OBVIOUS
  <2>1. \A s \in Sender : job[s] \notin Job
    BY DEF Init, Idle, Job, Place
  <2>2. QED
    BY <2>1 DEF Init, StoreInit, Absent, Serial, Current, WaitRow, TryRow
<1>2. SyncSafe /\ OpSafe /\ InStep /\ Alone /\ InMemory /\ Serial /\ [Next]_vars => Serial'
  BY SerialStep
<1>3. [Next /\ \A s, u \in live' : s = u]_vars => [Next]_vars
  OBVIOUS
<1>4. Serial => PendingMatchesTask
  BY DEF Serial, Current, WaitRow, PendingMatchesTask, InStatus
<1>5. QED
  BY <1>1, <1>2, <1>3, <1>4, SerialIsSpec, SyncInductive, OpInductive, InStepInductive,
     SerialInductive, PTL DEF SerialSpec
=============================================================================
