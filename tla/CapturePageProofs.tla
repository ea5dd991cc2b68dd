--------------------------- MODULE CapturePageProofs ---------------------------
(***************************************************************************)
(* What holds of the tab that captures tasks and of the service behind it, *)
(* for any number of captures, drafts, restores and requests on their way: *)
(* a capture creates its tasks once, a stopped one none, and only the one  *)
(* the tab still follows.                                                  *)
(***************************************************************************)
EXTENDS CapturePage, SequenceTheorems, TLAPS

----------------------------------------------------------------------------
(* The rows of the service. *)

OperationRow == [capture : Captures, tasks : SUBSET Drafts, status : {"applied", "details_deleted"}]

WorldTyped ==
  /\ epoch \in 0..MaxEpoch /\ today \in Days /\ tasks \in SUBSET Drafts
  /\ job \in [Captures -> Job \cup {NoRow}]
CaptureTypeOK ==
  /\ WorldTyped
  /\ capture \in [Captures -> CaptureRow \cup {NoRow}]
  /\ operation \in [Operations -> OperationRow \cup {NoRow}]
  /\ made \in [Captures -> {0, 1}]

(* Statuses of a capture that created its tasks, or will not create any. *)
MadeStatus == {"applied", "details_deleted"}
StoppedStatus == {"failed", "interrupted", "details_deleted"}

(* Tasks were created by captures that say so, and operations belong to them. *)
MadeRecorded ==
  \A c \in Captures : made[c] = 1 => capture[c] # NoRow /\ capture[c].status \in MadeStatus
OperationsRecorded ==
  \A o \in Operations : operation[o] # NoRow =>
    /\ capture[operation[o].capture] # NoRow
    /\ capture[operation[o].capture].status \in MadeStatus

CaptureInv == CaptureTypeOK /\ MadeRecorded /\ OperationsRecorded

----------------------------------------------------------------------------
(* The tab. *)

Session == [capture : Captures \cup {NoRow}, request : BOOLEAN, mode : Mode,
            pending : Pending \cup {NoRow}]
Busy == {"none", "starting", "checking", "applying", "cancelling"}
Page == [busy : Busy, view : RunView \cup {NoRow}, unsure : {"none", "start", "apply"},
         retry : BOOLEAN]
Request == [kind : {"create", "get", "apply", "cancel"}, id : Captures, mode : Mode,
            pending : Pending \cup {NoRow}, awaited : BOOLEAN]

PageTypeOK ==
  /\ session \in Session /\ page \in Page /\ line \in Seq(Request)
  /\ reply \in Answers \cup {NoRow}

(* What an answer says still holds: a run that ended does not run again,   *)
(* and one that was stopped created nothing.                               *)
Agrees(v) ==
  /\ v.id = session.capture /\ capture[v.id] # NoRow
  /\ v.status # "running" => capture[v.id].status # "running"
  /\ v.status \in {"failed", "interrupted"} =>
       capture[v.id].status \in StoppedStatus /\ made[v.id] = 0

ViewsAgree ==
  /\ page.view # NoRow => Agrees(page.view)
  /\ reply # NoRow /\ reply.kind = "run" => Agrees(reply)

(* Requests on their way are about the capture the tab follows, and only   *)
(* the last may be awaited.  When it is answered none is left.             *)
KindOf(busy) == CASE busy = "starting" -> "create" [] busy = "checking" -> "get"
                  [] busy = "applying" -> "apply" [] OTHER -> "cancel"
LineOrdered ==
  /\ \A i \in 1..Len(line) :
       /\ line[i].id = session.capture /\ line[i].mode = session.mode
       /\ line[i].kind = "apply" => line[i].pending # NoRow
       /\ line[i].awaited => /\ i = Len(line) /\ page.busy # "none"
                             /\ line[i].kind = KindOf(page.busy)
  /\ reply # NoRow => line = <<>> /\ page.busy # "none"

(* A tab that waits for nothing and doubts nothing has nothing on its way, *)
(* and shows the capture it follows.                                       *)
Settled ==
  /\ page.busy = "none" /\ page.unsure = "none" =>
       line = <<>> /\ (session.capture # NoRow => page.view # NoRow)
  /\ session.capture = NoRow =>
       /\ line = <<>> /\ page.busy = "none"
       /\ ~session.request /\ session.pending = NoRow
  /\ page.busy = "applying" \/ (page.retry /\ session.pending # NoRow) => page.view # NoRow
  /\ page.busy = "starting" => session.pending = NoRow

(* Captures are known by the tab; only the one it follows can be running,  *)
(* in the mode of its request.                                             *)
Followed ==
  /\ session.capture # NoRow => session.capture \in used
  /\ \A c \in Captures : capture[c] # NoRow =>
       /\ c \in used
       /\ c = session.capture => capture[c].mode = session.mode
       /\ c # session.capture => capture[c].status # "running"

(* A request that was refused has started nothing. *)
RefusedNothing ==
  page.busy = "starting" /\ reply # NoRow /\ reply.kind = "refused" =>
    capture[session.capture] = NoRow

PageInv ==
  PageTypeOK /\ ViewsAgree /\ LineOrdered /\ Settled /\ Followed /\ RefusedNothing

FullInv == CaptureInv /\ PageInv

----------------------------------------------------------------------------
(* What the service may do to a capture: nothing, store it, end it, delete *)
(* its details, move it on, or create its tasks for the first time.        *)

Waiting == {"running", "ready"}

Onward(c) ==
  \/ capture'[c] = capture[c] /\ made'[c] = made[c]
  \/ capture[c] = NoRow /\ made'[c] = made[c]
  \/ /\ capture[c] # NoRow /\ capture'[c] \in CaptureRow
     /\ capture'[c].mode = capture[c].mode
     /\ \/ /\ made'[c] = made[c]
           /\ \/ capture'[c].status = "details_deleted"
              \/ /\ capture[c].status \in Waiting
                 /\ capture'[c].status \in Waiting \cup {"failed", "interrupted"}
                 /\ capture'[c].status = "running" => capture[c].status = "running"
        \/ /\ made'[c] = made[c] + 1
           /\ capture[c].status \in Waiting /\ capture'[c].status = "applied"

(* What others may rely on. *)
KeepsOn(c) ==
  /\ capture[c] # NoRow =>
       /\ capture'[c] # NoRow /\ capture'[c].mode = capture[c].mode
       /\ capture[c].status # "running" => capture'[c].status # "running"
       /\ capture[c].status \in StoppedStatus /\ made[c] = 0 =>
            capture'[c].status \in StoppedStatus /\ made'[c] = 0

LEMMA RowFacts ==
  ASSUME CaptureInv, NEW c \in Captures
  PROVE  /\ capture[c] # NoRow => capture[c] \in CaptureRow
         /\ made[c] \in {0, 1}
         /\ capture[c] # NoRow /\ capture[c].status \in Waiting => made[c] = 0
  BY DEF CaptureInv, CaptureTypeOK, MadeRecorded, MadeStatus, Waiting

LEMMA RowIsThere == \A row \in CaptureRow : row # NoRow
  BY NoRowAssumption

LEMMA OnwardKeeps ==
  ASSUME CaptureInv, NEW c \in Captures, Onward(c)
  PROVE  KeepsOn(c) /\ made'[c] \in {0, 1}
         /\ (made'[c] = 1 => capture'[c] # NoRow /\ capture'[c].status \in MadeStatus)
         /\ (capture[c] # NoRow /\ capture[c].status \in MadeStatus =>
               capture'[c] # NoRow /\ capture'[c].status \in MadeStatus)
<1>1. /\ made[c] \in {0, 1}
      /\ made[c] = 1 => capture[c] # NoRow /\ capture[c].status \in MadeStatus
  BY DEF CaptureInv, CaptureTypeOK, MadeRecorded
<1>2. CASE capture'[c] = capture[c] /\ made'[c] = made[c]
  BY <1>1, <1>2 DEF KeepsOn
<1>0. CASE capture[c] = NoRow /\ made'[c] = made[c]
  BY <1>0, <1>1 DEF KeepsOn
<1>3. CASE /\ capture[c] # NoRow /\ capture'[c] \in CaptureRow
           /\ capture'[c].mode = capture[c].mode
           /\ made'[c] = made[c]
           /\ \/ capture'[c].status = "details_deleted"
              \/ /\ capture[c].status \in Waiting
                 /\ capture'[c].status \in Waiting \cup {"failed", "interrupted"}
                 /\ capture'[c].status = "running" => capture[c].status = "running"
  BY <1>1, <1>3, RowIsThere DEF KeepsOn, Waiting, MadeStatus, StoppedStatus
<1>4. CASE /\ capture[c] # NoRow /\ capture'[c] \in CaptureRow
           /\ capture'[c].mode = capture[c].mode
           /\ made'[c] = made[c] + 1
           /\ capture[c].status \in Waiting /\ capture'[c].status = "applied"
  BY <1>1, <1>4, RowIsThere DEF KeepsOn, Waiting, MadeStatus, StoppedStatus
<1>5. QED
  BY <1>0, <1>2, <1>3, <1>4 DEF Onward

(* Rows move on and operations stay, lose details or belong to captures    *)
(* whose tasks were created.                                               *)
LEMMA ServiceStep ==
  ASSUME CaptureInv, WorldTyped',
         capture' \in [Captures -> CaptureRow \cup {NoRow}],
         made' \in [Captures -> Nat],
         operation' \in [Operations -> OperationRow \cup {NoRow}],
         \A c \in Captures : Onward(c),
         \A o \in Operations : operation'[o] # NoRow =>
           \/ operation[o] # NoRow /\ operation'[o].capture = operation[o].capture
           \/ /\ capture'[operation'[o].capture] # NoRow
              /\ capture'[operation'[o].capture].status \in MadeStatus
  PROVE  CaptureInv' /\ \A c \in Captures : KeepsOn(c)
<1>1. \A c \in Captures : KeepsOn(c)
  BY OnwardKeeps
<1>2. made' \in [Captures -> {0, 1}]
  BY OnwardKeeps
<1>3. MadeRecorded'
  BY OnwardKeeps DEF MadeRecorded
<1>4. OperationsRecorded'
  <2> SUFFICES ASSUME NEW o \in Operations, operation'[o] # NoRow
               PROVE  /\ capture'[operation'[o].capture] # NoRow
                      /\ capture'[operation'[o].capture].status \in MadeStatus
    BY DEF OperationsRecorded
  <2>1. CASE operation[o] # NoRow /\ operation'[o].capture = operation[o].capture
    <3>1. operation[o] \in OperationRow
      BY <2>1 DEF CaptureInv, CaptureTypeOK
    <3>2. operation[o].capture \in Captures
      BY <3>1 DEF OperationRow
    <3>3. capture[operation[o].capture] # NoRow
          /\ capture[operation[o].capture].status \in MadeStatus
      BY <2>1 DEF CaptureInv, OperationsRecorded
    <3>4. QED
      BY <2>1, <3>2, <3>3, OnwardKeeps
  <2>2. QED
    BY <2>1
<1>5. QED
  BY <1>1, <1>2, <1>3, <1>4 DEF CaptureInv, CaptureTypeOK

(* Captures that waited are ended. *)
LEMMA EndedStep ==
  ASSUME CaptureInv, WorldTyped', NEW S \in SUBSET Captures, NEW s \in {"failed", "interrupted"},
         \A c \in S : capture[c] # NoRow /\ capture[c].status \in Waiting,
         capture' = Ended(S, s), UNCHANGED <<made, operation>>
  PROVE  CaptureInv' /\ (\A c \in Captures : KeepsOn(c))
         /\ (\A c \in Captures \ S : capture'[c] = capture[c])
<1>1. ASSUME NEW c \in Captures
      PROVE  /\ capture'[c] \in CaptureRow \cup {NoRow} /\ Onward(c)
             /\ c \notin S => capture'[c] = capture[c]
  <2>1. CASE c \in S
    <3>1. capture[c] \in CaptureRow
      BY <2>1, RowFacts
    <3>2. capture'[c] = [capture[c] EXCEPT !.status = s]
      BY <2>1 DEF Ended
    <3>3. capture'[c] \in CaptureRow /\ capture'[c].status = s
          /\ capture'[c].mode = capture[c].mode
      BY <3>1, <3>2 DEF CaptureRow, Status
    <3>4. QED
      BY <2>1, <3>3 DEF Onward
  <2>2. CASE c \notin S
    BY <2>2 DEF Ended, Onward, CaptureInv, CaptureTypeOK
  <2>3. QED
    BY <2>1, <2>2
<1>2. capture' \in [Captures -> CaptureRow \cup {NoRow}]
  BY <1>1 DEF Ended
<1>3. made' \in [Captures -> Nat] /\ operation' \in [Operations -> OperationRow \cup {NoRow}]
  BY DEF CaptureInv, CaptureTypeOK
<1>4. QED
  BY <1>1, <1>2, <1>3, ServiceStep

----------------------------------------------------------------------------
(* Requests to the service.  Each says what it may change and what its     *)
(* answer is worth. *)

(* The answer is a view of c that is true after the step. *)
TrueOf(v, c) ==
  /\ v \in RunView /\ v.id = c /\ capture[c] # NoRow
  /\ v.status # "running" => capture[c].status # "running"
  /\ v.status \in {"failed", "interrupted"} =>
       capture[c].status \in StoppedStatus /\ made[c] = 0

(* Only capture c is touched. *)
Only(c) == \A d \in Captures \ {c} : capture'[d] = capture[d] /\ made'[d] = made[d]

LEMMA MadeOnlyIf ==
  ASSUME CaptureInv, NEW c \in Captures, capture[c] # NoRow,
         capture[c].status \in {"failed", "interrupted"}
  PROVE  made[c] = 0
  BY DEF CaptureInv, CaptureTypeOK, MadeRecorded, MadeStatus

LEMMA ViewTrue ==
  ASSUME CaptureInv, NEW c \in Captures, capture[c] # NoRow
  PROVE  TrueOf(ViewOf(c), c)
<1>1. capture[c] \in CaptureRow
  BY RowFacts
<1>2. ViewOf(c) \in RunView /\ ViewOf(c).id = c /\ ViewOf(c).status = capture[c].status
  BY <1>1 DEF ViewOf, View, RunView, CaptureRow
<1>3. QED
  BY <1>2, MadeOnlyIf DEF TrueOf, StoppedStatus

LEMMA CreateStep ==
  ASSUME CaptureInv, NEW c \in Captures, NEW mode \in Mode, NEW a, Create(c, mode, a)
  PROVE  /\ CaptureInv' /\ (\A d \in Captures : KeepsOn(d)) /\ Only(c)
         /\ a = Refused \/ TrueOf(a, c)'
         /\ a = Refused /\ (capture[c] # NoRow => capture[c].mode = mode) =>
              capture'[c] = NoRow
         /\ capture'[c] # NoRow => capture'[c].mode = IF capture[c] = NoRow THEN mode
                                                      ELSE capture[c].mode
<1>1. NewJob \in Job
  BY DEF NewJob, Job
<1>2. CASE CreateAgain(c, mode, a)
  <2>1. UNCHANGED <<epoch, today, tasks, capture, operation, made>> /\ capture[c] # NoRow
    BY <1>2 DEF CreateAgain, worldVars
  <2>2. job' \in [Captures -> Job \cup {NoRow}]
    BY <1>1, <1>2 DEF CreateAgain, CaptureInv, CaptureTypeOK, WorldTyped
  <2>3. a = ViewOf(c) \/ (a = Refused /\ capture[c].mode # mode)
    BY <1>2 DEF CreateAgain
  <2>4. CaptureInv'
    BY <2>1, <2>2 DEF CaptureInv, CaptureTypeOK, WorldTyped, MadeRecorded, OperationsRecorded
  <2>5. (\A d \in Captures : KeepsOn(d)) /\ Only(c)
    BY <2>1 DEF KeepsOn, Only
  <2>6. CASE a = ViewOf(c)
    <3>1. TrueOf(a, c) /\ a # Refused
      BY <2>1, <2>6, ViewTrue DEF TrueOf, RunView, Refused
    <3>2. TrueOf(a, c)'
      BY <2>1, <3>1 DEF TrueOf
    <3>3. QED
      BY <2>1, <2>4, <2>5, <3>1, <3>2
  <2>7. CASE a = Refused /\ capture[c].mode # mode
    BY <2>1, <2>4, <2>5, <2>7
  <2>8. QED
    BY <2>3, <2>6, <2>7
<1>3. CASE CreateNew(c, mode, a)
  <2>1. UNCHANGED <<epoch, today, tasks, operation, made>> /\ capture[c] = NoRow
    BY <1>3 DEF CreateNew, worldVars
  <2>2. CASE a = Refused /\ UNCHANGED <<capture, job>>
    <3>1. CaptureInv'
      BY <2>1, <2>2 DEF CaptureInv, CaptureTypeOK, WorldTyped, MadeRecorded, OperationsRecorded
    <3>2. QED
      BY <2>1, <2>2, <3>1 DEF KeepsOn, Only
  <2>3. CASE /\ capture' = [capture EXCEPT ![c] =
                    [mode |-> mode, status |-> "running", called |-> FALSE, epoch |-> epoch,
                     day |-> today, drafts |-> {}, op |-> NoRow]]
             /\ a = View(c, "running", {}, NoRow)
             /\ job' = [job EXCEPT ![c] = NewJob]
    <3> DEFINE row == [mode |-> mode, status |-> "running", called |-> FALSE, epoch |-> epoch,
                       day |-> today, drafts |-> {}, op |-> NoRow]
    <3>1. row \in CaptureRow /\ row # NoRow /\ row.mode = mode
      BY RowIsThere DEF CaptureInv, CaptureTypeOK, WorldTyped, CaptureRow, Status
    <3>2. /\ capture' \in [Captures -> CaptureRow \cup {NoRow}]
          /\ capture'[c] = row /\ \A d \in Captures \ {c} : capture'[d] = capture[d]
      <4> HIDE DEF row
      <4>1. capture' = [capture EXCEPT ![c] = row]
        BY <2>3 DEF row
      <4>2. QED
        BY <3>1, <4>1 DEF CaptureInv, CaptureTypeOK
    <3>3. WorldTyped'
      BY <1>1, <2>1, <2>3 DEF CaptureInv, CaptureTypeOK, WorldTyped
    <3>4. \A d \in Captures : Onward(d)
      BY <2>1, <3>2 DEF Onward
    <3>5. /\ made' \in [Captures -> Nat]
          /\ operation' \in [Operations -> OperationRow \cup {NoRow}]
          /\ operation' = operation
      BY <2>1 DEF CaptureInv, CaptureTypeOK
    <3>6. CaptureInv' /\ \A d \in Captures : KeepsOn(d)
      BY <3>2, <3>3, <3>4, <3>5, ServiceStep
    <3>7. a \in RunView /\ a.id = c /\ a.status = "running"
      BY <2>3 DEF View, RunView, Status
    <3>8. TrueOf(a, c)'
      BY <3>1, <3>2, <3>7 DEF TrueOf
    <3>9. a # Refused
      BY <3>7 DEF RunView, Refused
    <3>10. QED
      BY <2>1, <3>1, <3>2, <3>6, <3>8, <3>9 DEF Only
  <2>4. QED
    BY <1>3, <2>2, <2>3 DEF CreateNew
<1>4. QED
  BY <1>2, <1>3 DEF Create

LEMMA GetStep ==
  ASSUME CaptureInv, NEW c \in Captures, NEW a, Get(c, a)
  PROVE  /\ CaptureInv' /\ (\A d \in Captures : KeepsOn(d)) /\ Only(c)
         /\ capture' = capture
         /\ (a = Missing /\ capture[c] = NoRow) \/ TrueOf(a, c)'
<1>1. UNCHANGED <<epoch, today, tasks, capture, operation, job, made>>
  BY DEF Get, captureVars
<1>2. CaptureInv'
  BY <1>1 DEF CaptureInv, CaptureTypeOK, WorldTyped, MadeRecorded, OperationsRecorded
<1>3. (\A d \in Captures : KeepsOn(d)) /\ Only(c)
  BY <1>1 DEF KeepsOn, Only
<1>4. CASE capture[c] = NoRow
  BY <1>1, <1>2, <1>3, <1>4 DEF Get
<1>5. CASE capture[c] # NoRow
  <2>1. TrueOf(a, c)
    BY <1>5, ViewTrue DEF Get
  <2>2. TrueOf(a, c)'
    BY <1>1, <2>1 DEF TrueOf
  <2>3. QED
    BY <1>1, <1>2, <1>3, <2>2
<1>6. QED
  BY <1>4, <1>5

LEMMA CancelStep ==
  ASSUME CaptureInv, NEW c \in Captures, NEW a, Cancel(c, a)
  PROVE  /\ CaptureInv' /\ (\A d \in Captures : KeepsOn(d)) /\ Only(c)
         /\ capture[c] = NoRow => capture'[c] = NoRow
         /\ a = Missing \/ TrueOf(a, c)'
<1>1. UNCHANGED <<epoch, today, tasks, operation, made>>
  BY DEF Cancel, worldVars
<1>2. WorldTyped'
  <2>1. \A j \in Job : [j EXCEPT !.aborted = TRUE] \in Job
    BY DEF Job
  <2>2. job' \in [Captures -> Job \cup {NoRow}]
    BY <2>1 DEF Cancel, CaptureInv, CaptureTypeOK, WorldTyped
  <2>3. QED
    BY <1>1, <2>2 DEF CaptureInv, CaptureTypeOK, WorldTyped
<1>3. CASE capture[c] = NoRow
  <2>1. a = Missing /\ capture' = capture
    BY <1>3 DEF Cancel
  <2>2. CaptureInv'
    BY <1>1, <1>2, <2>1 DEF CaptureInv, CaptureTypeOK, MadeRecorded, OperationsRecorded
  <2>3. QED
    BY <1>1, <2>1, <2>2 DEF KeepsOn, Only
<1>4. CASE capture[c] # NoRow
  <2>1. /\ capture' = IF capture[c].status \in Waiting THEN Ended({c}, "interrupted")
                      ELSE capture
        /\ a = View(c, capture'[c].status, capture[c].drafts, capture[c].op)
    BY <1>4 DEF Cancel, Waiting
  <2>2. CaptureInv' /\ (\A d \in Captures : KeepsOn(d)) /\ Only(c)
    <3>1. CASE capture[c].status \in Waiting
      <4>1. CaptureInv' /\ (\A d \in Captures : KeepsOn(d))
            /\ \A d \in Captures \ {c} : capture'[d] = capture[d]
        BY <1>1, <1>2, <1>4, <2>1, <3>1, EndedStep
      <4>2. QED
        BY <1>1, <4>1 DEF Only
    <3>2. CASE capture[c].status \notin Waiting
      <4>1. capture' = capture
        BY <2>1, <3>2
      <4>2. QED
        BY <1>1, <1>2, <4>1
           DEF CaptureInv, CaptureTypeOK, MadeRecorded, OperationsRecorded, KeepsOn, Only
    <3>3. QED
      BY <3>1, <3>2
  <2>3. capture'[c] # NoRow /\ capture'[c] \in CaptureRow /\ capture[c] \in CaptureRow
    BY <1>4, <2>2 DEF KeepsOn, CaptureInv, CaptureTypeOK
  <2>4. a \in RunView /\ a.id = c /\ a.status = capture'[c].status
    BY <2>1, <2>3 DEF View, RunView, CaptureRow
  <2>5. capture'[c].status \in {"failed", "interrupted"} => made'[c] = 0
    BY <2>2, <2>3 DEF CaptureInv, CaptureTypeOK, MadeRecorded, MadeStatus
  <2>6. TrueOf(a, c)'
    BY <2>3, <2>4, <2>5 DEF TrueOf, StoppedStatus
  <2>7. QED
    BY <1>4, <2>2, <2>6
<1>5. QED
  BY <1>3, <1>4

LEMMA ApplyStep ==
  ASSUME CaptureInv, NEW c \in Captures, NEW o \in Ops, NEW chosen \in SUBSET Drafts, NEW a,
         Apply(c, o, chosen, a)
  PROVE  /\ CaptureInv' /\ (\A d \in Captures : KeepsOn(d)) /\ Only(c)
         /\ capture[c] = NoRow => capture'[c] = NoRow
         /\ a \in {Missing, Refused} \/ TrueOf(a, c)'
<1>1. UNCHANGED <<epoch, today, job>> /\ o \in Operations
  BY DEF Apply, worldVars, Operations
<1>2. CASE UNCHANGED <<tasks, capture, operation, made>>
  <2>1. CaptureInv'
    BY <1>1, <1>2 DEF CaptureInv, CaptureTypeOK, WorldTyped, MadeRecorded, OperationsRecorded
  <2>2. (\A d \in Captures : KeepsOn(d)) /\ Only(c)
    BY <1>2 DEF KeepsOn, Only
  <2>3. CASE operation[o] # NoRow /\ a # Refused
    <3>1. operation[o].capture = c /\ operation[o] \in OperationRow
      BY <1>1, <2>3 DEF Apply, CaptureInv, CaptureTypeOK
    <3>2. capture[c] # NoRow /\ capture[c].status \in MadeStatus /\ capture[c] \in CaptureRow
      BY <1>1, <2>3, <3>1, RowFacts DEF CaptureInv, OperationsRecorded
    <3>3. a = View(c, operation[o].status,
                   IF operation[o].status = "applied" THEN capture[c].drafts ELSE {}, o)
      BY <2>3 DEF Apply
    <3>4. operation[o].status \in MadeStatus
      BY <3>1 DEF OperationRow, MadeStatus
    <3>5. a \in RunView /\ a.id = c /\ a.status \in MadeStatus
      BY <1>1, <3>2, <3>3, <3>4 DEF View, RunView, CaptureRow, MadeStatus, Status
    <3>6. TrueOf(a, c)'
      BY <1>2, <3>2, <3>5 DEF TrueOf, MadeStatus
    <3>7. QED
      BY <1>2, <2>1, <2>2, <3>6
  <2>4. CASE operation[o] = NoRow /\ a \notin {Missing, Refused}
    <3>1. ApplyTasks(c, o, chosen) /\ MayApply(c, chosen) /\ capture[c] # NoRow
      BY <2>4 DEF Apply
    <3>2. capture[c] \in CaptureRow /\ made[c] \in {0, 1}
      BY <3>1, RowFacts
    <3>3. made'[c] = made[c] + 1
      BY <3>1 DEF ApplyTasks, CaptureInv, CaptureTypeOK
    <3>4. QED
      BY <1>2, <3>2, <3>3
  <2>5. QED
    BY <1>2, <2>1, <2>2, <2>3, <2>4
<1>3. CASE /\ operation[o] = NoRow /\ capture[c] # NoRow /\ MayApply(c, chosen)
           /\ ApplyTasks(c, o, chosen)
           /\ a = View(c, "applied", capture[c].drafts, o)
  <2>1. capture[c] \in CaptureRow /\ capture[c].status = "ready"
    BY <1>3, RowFacts DEF MayApply
  <2> DEFINE row == [capture[c] EXCEPT !.status = "applied", !.op = o]
  <2>2. row \in CaptureRow /\ row.status = "applied" /\ row.mode = capture[c].mode
    BY <1>1, <2>1 DEF CaptureRow, Status
  <2>3. capture' = [capture EXCEPT ![c] = row]
    BY <1>3 DEF ApplyTasks
  <2> HIDE DEF row
  <2>4. /\ capture' \in [Captures -> CaptureRow \cup {NoRow}]
        /\ capture'[c] = row /\ \A d \in Captures \ {c} : capture'[d] = capture[d]
    BY <2>2, <2>3 DEF CaptureInv, CaptureTypeOK
  <2>5. /\ made' \in [Captures -> Nat]
        /\ made'[c] = made[c] + 1 /\ \A d \in Captures \ {c} : made'[d] = made[d]
    BY <1>3 DEF ApplyTasks, CaptureInv, CaptureTypeOK
  <2>6. \A d \in Captures : Onward(d)
    BY <1>3, <2>1, <2>2, <2>4, <2>5 DEF Onward, Waiting
  <2>7. [capture |-> c, tasks |-> chosen, status |-> "applied"] \in OperationRow
    BY DEF OperationRow
  <2>8. /\ operation' \in [Operations -> OperationRow \cup {NoRow}]
        /\ operation'[o].capture = c
        /\ \A p \in Operations \ {o} : operation'[p] = operation[p]
    BY <1>1, <1>3, <2>7 DEF ApplyTasks, CaptureInv, CaptureTypeOK
  <2>9. capture'[c] # NoRow /\ capture'[c].status \in MadeStatus
    BY <2>2, <2>4, RowIsThere DEF MadeStatus
  <2>10. WorldTyped'
    BY <1>1, <1>3 DEF ApplyTasks, CaptureInv, CaptureTypeOK, WorldTyped
  <2>11. CaptureInv' /\ \A d \in Captures : KeepsOn(d)
    BY <2>4, <2>5, <2>6, <2>8, <2>9, <2>10, ServiceStep
  <2>12. a \in RunView /\ a.id = c /\ a.status = "applied"
    BY <1>1, <1>3, <2>1 DEF View, RunView, CaptureRow, Status
  <2>13. TrueOf(a, c)'
    BY <2>2, <2>4, <2>9, <2>12 DEF TrueOf
  <2>14. QED
    BY <1>3, <2>4, <2>5, <2>11, <2>13 DEF Only
<1>4. QED
  BY <1>2, <1>3 DEF Apply

----------------------------------------------------------------------------
(* What happens behind the requests: no capture appears, and only one that *)
(* runs creates its tasks. *)

BehindRequests ==
  /\ CaptureInv'
  /\ \A d \in Captures :
       /\ KeepsOn(d)
       /\ capture[d] = NoRow => capture'[d] = NoRow
       /\ made'[d] # made[d] => d \in Running

LEMMA JobMoves ==
  ASSUME CaptureInv, WorldTyped', UNCHANGED <<capture, operation, made>>
  PROVE  BehindRequests
<1>1. CaptureInv'
  BY DEF CaptureInv, CaptureTypeOK, MadeRecorded, OperationsRecorded
<1>2. QED
  BY <1>1 DEF BehindRequests, KeepsOn

LEMMA JobsTyped ==
  ASSUME CaptureInv, NEW c \in Captures
  PROVE  /\ job[c] # NoRow => job[c] \in Job
         /\ [job EXCEPT ![c] = NoRow] \in [Captures -> Job \cup {NoRow}]
         /\ \A pc \in {"begin", "call", "answered", "failing"} : job[c] # NoRow =>
              [job EXCEPT ![c].pc = pc] \in [Captures -> Job \cup {NoRow}]
         /\ [d \in Captures |-> NoRow] \in [Captures -> Job \cup {NoRow}]
<1>1. job \in [Captures -> Job \cup {NoRow}]
  BY DEF CaptureInv, CaptureTypeOK, WorldTyped
<1>2. ASSUME NEW pc \in {"begin", "call", "answered", "failing"}, job[c] # NoRow
      PROVE  [job EXCEPT ![c].pc = pc] \in [Captures -> Job \cup {NoRow}]
  <2>1. job[c] \in Job
    BY <1>1, <1>2
  <2>2. [job[c] EXCEPT !.pc = pc] \in Job
    BY <2>1 DEF Job
  <2>3. QED
    BY <1>1, <2>2
<1>3. QED
  BY <1>1, <1>2

(* A job ends or goes on. *)
LEMMA JobChanges ==
  ASSUME CaptureInv, NEW c \in Captures, job[c] # NoRow,
         EndJob(c) \/ Goto(c, "failing") \/ Goto(c, "call")
  PROVE  job' \in [Captures -> Job \cup {NoRow}]
<1>1. CASE EndJob(c)
  BY <1>1, JobsTyped DEF EndJob
<1>2. CASE Goto(c, "failing")
  BY <1>2, JobsTyped DEF Goto
<1>3. CASE Goto(c, "call")
  BY <1>3, JobsTyped DEF Goto
<1>4. QED
  BY <1>1, <1>2, <1>3

LEMMA BeginCallStep ==
  ASSUME CaptureInv, NEW c \in Captures, BeginCall(c)
  PROVE  BehindRequests
<1>1. UNCHANGED <<epoch, today, tasks, operation, made>> /\ job[c] # NoRow
  BY DEF BeginCall, JobOnly, worldVars
<1>2. job' \in [Captures -> Job \cup {NoRow}]
  <2>1. EndJob(c) \/ Goto(c, "failing") \/ Goto(c, "call")
    BY DEF BeginCall
  <2>2. QED
    BY <1>1, <2>1, JobChanges
<1>3. WorldTyped'
  BY <1>1, <1>2 DEF CaptureInv, CaptureTypeOK, WorldTyped
<1>4. CASE capture' = capture
  BY <1>1, <1>3, <1>4, JobMoves
<1>5. CASE c \in Running /\ capture' = [capture EXCEPT ![c].called = TRUE]
  <2>1. capture[c] \in CaptureRow /\ capture[c].status = "running" /\ capture[c] # NoRow
    BY <1>5, RowFacts DEF Running
  <2> DEFINE row == [capture[c] EXCEPT !.called = TRUE]
  <2>2. row \in CaptureRow /\ row.status = "running" /\ row.mode = capture[c].mode
    BY <2>1 DEF CaptureRow
  <2>3. capture' = [capture EXCEPT ![c] = row]
    BY <1>5
  <2> HIDE DEF row
  <2>4. /\ capture' \in [Captures -> CaptureRow \cup {NoRow}]
        /\ capture'[c] = row /\ \A d \in Captures \ {c} : capture'[d] = capture[d]
    BY <2>2, <2>3 DEF CaptureInv, CaptureTypeOK
  <2>5. \A d \in Captures : Onward(d)
    BY <1>1, <2>1, <2>2, <2>4 DEF Onward, Waiting
  <2>6. made' \in [Captures -> Nat] /\ operation' \in [Operations -> OperationRow \cup {NoRow}]
        /\ operation' = operation
    BY <1>1 DEF CaptureInv, CaptureTypeOK
  <2>7. CaptureInv' /\ \A d \in Captures : KeepsOn(d)
    BY <1>3, <2>4, <2>5, <2>6, ServiceStep
  <2>8. QED
    BY <1>1, <2>1, <2>4, <2>7 DEF BehindRequests
<1>6. QED
  BY <1>4, <1>5 DEF BeginCall, JobOnly, Wanted

LEMMA ModelStep ==
  ASSUME CaptureInv, NEW c \in Captures, ModelAnswers(c)
  PROVE  BehindRequests
<1>1. UNCHANGED <<epoch, today, tasks, capture, operation, made>> /\ job[c] # NoRow
  BY DEF ModelAnswers, JobOnly, worldVars
<1>2. job' \in [Captures -> Job \cup {NoRow}]
  <2>1. CASE Goto(c, "failing")
    BY <1>1, <2>1, JobsTyped DEF Goto
  <2>2. ASSUME NEW drafts \in SUBSET Drafts, NEW unsure \in SUBSET drafts,
               job' = [job EXCEPT ![c].pc = "answered", ![c].drafts = drafts, ![c].unsure = unsure]
        PROVE  job' \in [Captures -> Job \cup {NoRow}]
    <3> DEFINE j == [job[c] EXCEPT !.pc = "answered", !.drafts = drafts, !.unsure = unsure]
    <3>1. job[c] \in Job /\ unsure \in SUBSET Drafts
      BY <1>1, JobsTyped
    <3>2. j \in Job
      BY <3>1 DEF Job
    <3>3. job' = [job EXCEPT ![c] = j]
      BY <2>2
    <3> HIDE DEF j
    <3>4. QED
      BY <3>2, <3>3 DEF CaptureInv, CaptureTypeOK, WorldTyped
  <2>3. QED
    BY <2>1, <2>2 DEF ModelAnswers
<1>3. WorldTyped'
  BY <1>1, <1>2 DEF CaptureInv, CaptureTypeOK, WorldTyped
<1>4. QED
  BY <1>1, <1>3, JobMoves

LEMMA PublishStep ==
  ASSUME CaptureInv, NEW c \in Captures, Publish(c)
  PROVE  BehindRequests
<1>1. UNCHANGED <<epoch, today>> /\ job[c] \in Job
  BY JobsTyped DEF Publish, JobOnly, worldVars
<1>2. job' \in [Captures -> Job \cup {NoRow}]
  <2>1. EndJob(c) \/ Goto(c, "failing")
    BY DEF Publish
  <2>2. job[c] # NoRow
    BY DEF Publish
  <2>3. QED
    BY <2>1, <2>2, JobChanges
<1>3. tasks' \in SUBSET Drafts
  BY <1>1 DEF Publish, JobOnly, Job, CaptureInv, CaptureTypeOK, WorldTyped
<1>4. WorldTyped'
  BY <1>1, <1>2, <1>3 DEF CaptureInv, CaptureTypeOK, WorldTyped
<1>5. CASE UNCHANGED <<capture, operation, made>>
  BY <1>4, <1>5, JobMoves
<1>6. CASE /\ c \in Running
           /\ capture' = [capture EXCEPT ![c].status = "applied",
                                  ![c].drafts = job[c].drafts, ![c].op = AutoOp(c)]
           /\ operation' = [operation EXCEPT ![AutoOp(c)] =
                 [capture |-> c, tasks |-> job[c].drafts, status |-> "applied"]]
           /\ made' = [made EXCEPT ![c] = @ + 1]
  <2>1. /\ capture[c] \in CaptureRow /\ capture[c].status = "running" /\ capture[c] # NoRow
        /\ job[c].drafts \in SUBSET Drafts /\ AutoOp(c) \in Operations
    BY <1>1, <1>6, RowFacts DEF Running, Job, Operations
  <2> DEFINE row == [capture[c] EXCEPT !.status = "applied", !.drafts = job[c].drafts,
                                       !.op = AutoOp(c)]
             entry == [capture |-> c, tasks |-> job[c].drafts, status |-> "applied"]
  <2>2. row \in CaptureRow /\ row.status = "applied" /\ row.mode = capture[c].mode
    BY <2>1 DEF CaptureRow, Status
  <2>3. capture' = [capture EXCEPT ![c] = row]
    BY <1>6
  <2>4. entry \in OperationRow /\ entry.capture = c
    BY <2>1 DEF OperationRow
  <2>5. operation' = [operation EXCEPT ![AutoOp(c)] = entry]
    BY <1>6
  <2> HIDE DEF row, entry
  <2>6. /\ capture' \in [Captures -> CaptureRow \cup {NoRow}]
        /\ capture'[c] = row /\ \A d \in Captures \ {c} : capture'[d] = capture[d]
    BY <2>2, <2>3 DEF CaptureInv, CaptureTypeOK
  <2>7. /\ made' \in [Captures -> Nat]
        /\ made'[c] = made[c] + 1 /\ \A d \in Captures \ {c} : made'[d] = made[d]
    BY <1>6 DEF CaptureInv, CaptureTypeOK
  <2>8. \A d \in Captures : Onward(d)
    BY <2>1, <2>2, <2>6, <2>7 DEF Onward, Waiting
  <2>9. /\ operation' \in [Operations -> OperationRow \cup {NoRow}]
        /\ operation'[AutoOp(c)].capture = c
        /\ \A p \in Operations \ {AutoOp(c)} : operation'[p] = operation[p]
    BY <2>1, <2>4, <2>5 DEF CaptureInv, CaptureTypeOK
  <2>10. capture'[c] # NoRow /\ capture'[c].status \in MadeStatus
    BY <2>2, <2>6, RowIsThere DEF MadeStatus
  <2>11. CaptureInv' /\ \A d \in Captures : KeepsOn(d)
    BY <1>4, <2>6, <2>7, <2>8, <2>9, <2>10, ServiceStep
  <2>12. QED
    BY <1>6, <2>1, <2>6, <2>7, <2>11 DEF BehindRequests
<1>7. CASE /\ c \in Running
           /\ capture' = [capture EXCEPT ![c].status = "ready", ![c].drafts = job[c].drafts]
           /\ UNCHANGED <<operation, made>>
  <2>1. /\ capture[c] \in CaptureRow /\ capture[c].status = "running" /\ capture[c] # NoRow
        /\ job[c].drafts \in SUBSET Drafts
    BY <1>1, <1>7, RowFacts DEF Running, Job
  <2> DEFINE row == [capture[c] EXCEPT !.status = "ready", !.drafts = job[c].drafts]
  <2>2. row \in CaptureRow /\ row.status = "ready" /\ row.mode = capture[c].mode
    BY <2>1 DEF CaptureRow, Status
  <2>3. capture' = [capture EXCEPT ![c] = row]
    BY <1>7
  <2> HIDE DEF row
  <2>4. /\ capture' \in [Captures -> CaptureRow \cup {NoRow}]
        /\ capture'[c] = row /\ \A d \in Captures \ {c} : capture'[d] = capture[d]
    BY <2>2, <2>3 DEF CaptureInv, CaptureTypeOK
  <2>5. \A d \in Captures : Onward(d)
    BY <1>7, <2>1, <2>2, <2>4 DEF Onward, Waiting
  <2>6. made' \in [Captures -> Nat] /\ operation' \in [Operations -> OperationRow \cup {NoRow}]
        /\ operation' = operation
    BY <1>7 DEF CaptureInv, CaptureTypeOK
  <2>7. CaptureInv' /\ \A d \in Captures : KeepsOn(d)
    BY <1>4, <2>4, <2>5, <2>6, ServiceStep
  <2>8. QED
    BY <1>7, <2>1, <2>4, <2>7 DEF BehindRequests
<1>8. QED
  BY <1>5, <1>6, <1>7 DEF Publish, JobOnly, StillWanted, Wanted

(* Captures that run are ended, by a failure, a close or a start. *)
LEMMA RunningEnded ==
  ASSUME CaptureInv, WorldTyped', NEW S \in SUBSET Running, NEW s \in {"failed", "interrupted"},
         capture' = Ended(S, s), UNCHANGED <<made, operation>>
  PROVE  BehindRequests
<1>1. S \in SUBSET Captures /\ \A c \in S : capture[c] # NoRow /\ capture[c].status \in Waiting
  BY DEF Running, Waiting
<1>2. /\ CaptureInv' /\ \A d \in Captures : KeepsOn(d)
      /\ \A d \in Captures \ S : capture'[d] = capture[d]
  BY <1>1, EndedStep
<1>3. QED
  BY <1>1, <1>2 DEF BehindRequests

LEMMA FailStep ==
  ASSUME CaptureInv, NEW c \in Captures, Fail(c)
  PROVE  BehindRequests
<1>1. UNCHANGED <<epoch, today, tasks, operation, made>>
  BY DEF Fail, worldVars
<1>2. WorldTyped'
  BY <1>1, JobsTyped DEF Fail, EndJob, CaptureInv, CaptureTypeOK, WorldTyped
<1>3. CASE c \in Running
  <2>1. capture' = Ended({c}, "failed") /\ {c} \in SUBSET Running
    BY <1>3 DEF Fail
  <2>2. QED
    BY <1>1, <1>2, <2>1, RunningEnded
<1>4. CASE c \notin Running
  <2>1. capture' = capture
    BY <1>4 DEF Fail
  <2>2. QED
    BY <1>1, <1>2, <2>1, JobMoves
<1>5. QED
  BY <1>3, <1>4

LEMMA LossStep ==
  ASSUME CaptureInv, NEW c \in Captures, WriteFails(c) \/ FailLost(c)
  PROVE  BehindRequests
<1>1. UNCHANGED <<epoch, today, tasks, capture, operation, made>> /\ job[c] # NoRow
  BY DEF WriteFails, FailLost, JobOnly, worldVars
<1>2. job' \in [Captures -> Job \cup {NoRow}]
  <2>1. CASE WriteFails(c)
    <3>1. [job[c] EXCEPT !.pc = "failing"] \in Job
      BY <1>1, JobsTyped DEF Job
    <3>2. job' = [job EXCEPT ![c] = [job[c] EXCEPT !.pc = "failing"]]
      BY <2>1 DEF WriteFails, Goto
    <3>3. QED
      BY <3>1, <3>2 DEF CaptureInv, CaptureTypeOK, WorldTyped
  <2>2. CASE FailLost(c)
    BY <2>2 DEF FailLost, EndJob, CaptureInv, CaptureTypeOK, WorldTyped
  <2>3. QED
    BY <2>1, <2>2
<1>3. WorldTyped'
  BY <1>1, <1>2 DEF CaptureInv, CaptureTypeOK, WorldTyped
<1>4. QED
  BY <1>1, <1>3, JobMoves

LEMMA ProcessStep ==
  ASSUME CaptureInv, Start \/ Close \/ Crash
  PROVE  BehindRequests
<1>1. UNCHANGED <<epoch, today, tasks, operation, made>>
  BY DEF Start, Close, Crash
<1>2. job' \in [Captures -> Job \cup {NoRow}]
  BY DEF Start, Close, Crash, CaptureInv, CaptureTypeOK, WorldTyped
<1>3. WorldTyped'
  BY <1>1, <1>2 DEF CaptureInv, CaptureTypeOK, WorldTyped
<1>4. capture' = Ended(Running, "interrupted") \/ capture' = capture
  BY DEF Start, Close, Crash
<1>5. QED
  BY <1>1, <1>3, <1>4, RunningEnded, JobMoves

LEMMA WorldMoves ==
  ASSUME CaptureInv, RestoreDataset \/ DateChanges
  PROVE  BehindRequests
<1>1. UNCHANGED <<capture, operation, job, made>>
  BY DEF RestoreDataset, DateChanges
<1>2. epoch' \in 0..MaxEpoch /\ today' \in Days /\ tasks' \in SUBSET Drafts
  BY CaptureAssumption DEF RestoreDataset, DateChanges, CaptureInv, CaptureTypeOK, WorldTyped
<1>3. WorldTyped'
  BY <1>1, <1>2 DEF CaptureInv, CaptureTypeOK, WorldTyped
<1>4. QED
  BY <1>1, <1>3, JobMoves

LEMMA ClearStep ==
  ASSUME CaptureInv, ClearCaptures
  PROVE  BehindRequests
<1>1. UNCHANGED <<epoch, today, tasks, job, made>>
  BY DEF ClearCaptures, worldVars
<1>2. WorldTyped'
  BY <1>1 DEF CaptureInv, CaptureTypeOK, WorldTyped
<1>3. ASSUME NEW c \in Captures
      PROVE  /\ capture'[c] \in CaptureRow \cup {NoRow} /\ Onward(c)
             /\ capture[c] = NoRow => capture'[c] = NoRow
  <2>1. CASE capture[c] = NoRow
    <3>1. capture'[c] = NoRow
      BY <2>1 DEF ClearCaptures
    <3>2. QED
      BY <1>1, <2>1, <3>1 DEF Onward
  <2>2. CASE capture[c] # NoRow
    <3>1. capture[c] \in CaptureRow
      BY <2>2, RowFacts
    <3>2. capture'[c] = [capture[c] EXCEPT !.status = "details_deleted", !.called = TRUE,
                                           !.drafts = {}, !.op = NoRow]
      BY <2>2 DEF ClearCaptures
    <3>3. capture'[c] \in CaptureRow /\ capture'[c].status = "details_deleted"
          /\ capture'[c].mode = capture[c].mode
      BY <3>1, <3>2 DEF CaptureRow, Status
    <3>4. QED
      BY <1>1, <2>2, <3>3 DEF Onward
  <2>3. QED
    BY <2>1, <2>2
<1>4. capture' \in [Captures -> CaptureRow \cup {NoRow}]
  BY <1>3 DEF ClearCaptures
<1>5. ASSUME NEW o \in Operations
      PROVE  /\ operation'[o] \in OperationRow \cup {NoRow}
             /\ operation'[o] # NoRow =>
                  operation[o] # NoRow /\ operation'[o].capture = operation[o].capture
  <2>1. CASE operation[o] = NoRow
    BY <2>1 DEF ClearCaptures
  <2>2. CASE operation[o] # NoRow
    <3>1. operation[o] \in OperationRow
      BY <2>2 DEF CaptureInv, CaptureTypeOK
    <3>2. operation'[o] = [operation[o] EXCEPT !.status = "details_deleted"]
      BY <2>2 DEF ClearCaptures
    <3>3. QED
      BY <2>2, <3>1, <3>2 DEF OperationRow
  <2>3. QED
    BY <2>1, <2>2
<1>6. operation' \in [Operations -> OperationRow \cup {NoRow}]
  BY <1>5 DEF ClearCaptures
<1>7. made' \in [Captures -> Nat]
  BY <1>1 DEF CaptureInv, CaptureTypeOK
<1>8. CaptureInv' /\ \A d \in Captures : KeepsOn(d)
  BY <1>2, <1>3, <1>4, <1>5, <1>6, <1>7, ServiceStep
<1>9. QED
  BY <1>1, <1>3, <1>8 DEF BehindRequests

LEMMA BackgroundStep ==
  ASSUME CaptureInv, Background
  PROVE  BehindRequests
<1>1. ASSUME NEW c \in Captures, CaptureJob(c) PROVE BehindRequests
  BY <1>1, BeginCallStep, ModelStep, PublishStep, FailStep, LossStep DEF CaptureJob
<1>2. QED
  BY <1>1, ClearStep, WorldMoves, ProcessStep DEF Background

LEMMA CaptureStart == CaptureInit => CaptureInv
<1> SUFFICES ASSUME CaptureInit PROVE CaptureInv
  OBVIOUS
<1>1. CaptureTypeOK
  BY CaptureAssumption DEF CaptureInit, CaptureTypeOK, WorldTyped
<1>2. QED
  BY <1>1 DEF CaptureInit, CaptureInv, MadeRecorded, OperationsRecorded

----------------------------------------------------------------------------
(* Requests on their way. *)

LEMMA LineTail ==
  ASSUME NEW q \in Seq(Request), q # <<>>
  PROVE  /\ Head(q) \in Request /\ Head(q) = q[1] /\ 1 \in 1..Len(q)
         /\ Tail(q) \in Seq(Request) /\ Len(Tail(q)) = Len(q) - 1
         /\ \A i \in 1..Len(Tail(q)) : Tail(q)[i] = q[i + 1] /\ i + 1 \in 1..Len(q)
         /\ Len(q) = 1 => Tail(q) = <<>>
<1>1. Len(q) \in Nat \ {0}
  BY EmptySeq, SeqDef, LenProperties
<1>2. /\ Head(q) \in Request /\ Head(q) = q[1]
      /\ Tail(q) \in Seq(Request) /\ Len(Tail(q)) = Len(q) - 1
  BY <1>1, HeadTailProperties, ElementOfSeq
<1>3. ASSUME NEW i \in 1..Len(Tail(q)) PROVE Tail(q)[i] = q[i + 1] /\ i + 1 \in 1..Len(q)
  BY <1>1, <1>2, HeadTailProperties
<1>4. Len(q) = 1 => Tail(q) = <<>>
  <2>1. Len(q) = 1 => Len(Tail(q)) = 0
    BY <1>2
  <2>2. QED
    BY <1>2, <2>1, EmptySeq
<1>5. QED
  BY <1>1, <1>2, <1>3, <1>4

(* Requests that are given up are the same requests. *)
LEMMA AbandonedLine ==
  ASSUME line \in Seq(Request)
  PROVE  /\ Abandoned \in Seq(Request) /\ Len(Abandoned) = Len(line)
         /\ \A i \in 1..Len(line) :
              /\ Abandoned[i].id = line[i].id /\ Abandoned[i].mode = line[i].mode
              /\ Abandoned[i].kind = line[i].kind /\ Abandoned[i].pending = line[i].pending
              /\ Abandoned[i].awaited = FALSE
         /\ line = <<>> => Abandoned = <<>>
<1>1. line \in [1..Len(line) -> Request] /\ Len(line) \in Nat /\ DOMAIN line = 1..Len(line)
  BY LenProperties
<1>2. ASSUME NEW i \in 1..Len(line)
      PROVE  /\ Abandoned[i] = [line[i] EXCEPT !.awaited = FALSE] /\ Abandoned[i] \in Request
             /\ Abandoned[i].id = line[i].id /\ Abandoned[i].mode = line[i].mode
             /\ Abandoned[i].kind = line[i].kind /\ Abandoned[i].pending = line[i].pending
             /\ Abandoned[i].awaited = FALSE
  <2>1. Abandoned[i] = [line[i] EXCEPT !.awaited = FALSE]
    BY <1>1 DEF Abandoned
  <2>2. line[i] \in Request
    BY <1>1
  <2>3. QED
    BY <2>1, <2>2 DEF Request
<1>3. Abandoned \in [1..Len(line) -> Request]
  BY <1>1, <1>2 DEF Abandoned
<1>4. Abandoned \in Seq(Request) /\ Len(Abandoned) = Len(line)
  BY <1>1, <1>3, SeqDef, LenProperties
<1>5. line = <<>> => Abandoned = <<>>
  BY <1>4, EmptySeq
<1>6. QED
  BY <1>2, <1>4, <1>5

LEMMA ViewIsRow == \A v \in RunView : v # NoRow /\ v.id # NoRow /\ v.kind = "run"
  BY NoRowAssumption DEF RunView, Answers

(* A tab without a capture shows nothing. *)
LEMMA NothingShown ==
  ASSUME PageInv, session.capture = NoRow
  PROVE  page.view = NoRow /\ line = <<>>
<1>1. page.view \in RunView \cup {NoRow}
  BY DEF PageInv, PageTypeOK, Page
<1>2. QED
  BY <1>1, ViewIsRow DEF PageInv, ViewsAgree, Agrees, Settled

(* What a view says stays true while the service moves on. *)
LEMMA AgreesOn ==
  ASSUME NEW v \in RunView, Agrees(v), KeepsOn(v.id), session'.capture = session.capture
  PROVE  Agrees(v)'
  BY DEF Agrees, KeepsOn

----------------------------------------------------------------------------
(* The tab while the service works. *)

LEMMA CaptureStays ==
  ASSUME CaptureInv, UNCHANGED captureVars
  PROVE  CaptureInv' /\ UNCHANGED <<capture, made>> /\ \A d \in Captures : KeepsOn(d)
<1>1. UNCHANGED <<epoch, today, tasks, capture, operation, job, made>>
  BY DEF captureVars
<1>2. CaptureInv'
  BY <1>1 DEF CaptureInv, CaptureTypeOK, WorldTyped, MadeRecorded, OperationsRecorded
<1>3. QED
  BY <1>1, <1>2 DEF KeepsOn

(* A tab that waits follows a capture. *)
LEMMA BusyFollows ==
  ASSUME PageInv, page.busy # "none" \/ line # <<>>
  PROVE  session.capture \in Captures
<1>1. session.capture \in Captures \cup {NoRow}
  BY DEF PageInv, PageTypeOK, Session
<1>2. QED
  BY <1>1 DEF PageInv, Settled

LEMMA ReplyKinds ==
  ASSUME PageTypeOK
  PROVE  /\ reply # NoRow /\ reply.kind = "run" => reply \in RunView
         /\ page.view # NoRow => page.view \in RunView
  BY DEF PageTypeOK, Page, Answers, Refused, Missing

(* What the tab shows and was answered stays true while rows move on. *)
LEMMA ViewStays ==
  ASSUME PageInv, \A d \in Captures : KeepsOn(d), session'.capture = session.capture,
         page.view # NoRow
  PROVE  Agrees(page.view) /\ \A v \in {page.view} : Agrees(v)'
<1>1. page.view \in RunView /\ Agrees(page.view)
  BY ReplyKinds DEF PageInv, ViewsAgree
<1>2. page.view.id \in Captures
  BY <1>1 DEF RunView
<1>3. QED
  BY <1>1, <1>2, AgreesOn

LEMMA ReplyStays ==
  ASSUME PageInv, \A d \in Captures : KeepsOn(d), session'.capture = session.capture,
         reply # NoRow, reply.kind = "run"
  PROVE  Agrees(reply) /\ \A v \in {reply} : Agrees(v)'
<1>1. reply \in RunView /\ Agrees(reply)
  BY ReplyKinds DEF PageInv, ViewsAgree
<1>2. reply.id \in Captures
  BY <1>1 DEF RunView
<1>3. QED
  BY <1>1, <1>2, AgreesOn

LEMMA BackgroundKeeps ==
  ASSUME FullInv, BehindRequests, UNCHANGED pageVars
  PROVE  FullInv'
<1>1. UNCHANGED <<session, page, line, reply, used>>
  BY DEF pageVars
<1>2. CaptureInv' /\ PageInv /\ \A d \in Captures : KeepsOn(d)
  BY DEF FullInv, BehindRequests
<1>3. PageTypeOK'
  BY <1>1, <1>2 DEF PageInv, PageTypeOK
<1>4. ViewsAgree'
  <2>1. page'.view # NoRow => Agrees(page.view)'
    BY <1>1, <1>2, ViewStays
  <2>2. reply' # NoRow /\ reply'.kind = "run" => Agrees(reply)'
    BY <1>1, <1>2, ReplyStays
  <2>3. QED
    BY <2>1, <2>2 DEF ViewsAgree
<1>5. LineOrdered' /\ Settled'
  BY <1>1, <1>2 DEF PageInv, LineOrdered, Settled
<1>6. Followed'
  <2>1. session'.capture # NoRow => session'.capture \in used'
    BY <1>1, <1>2 DEF PageInv, Followed
  <2>2. ASSUME NEW c \in Captures, capture'[c] # NoRow
        PROVE  /\ c \in used'
               /\ c = session'.capture => capture'[c].mode = session'.mode
               /\ c # session'.capture => capture'[c].status # "running"
    <3>1. capture[c] # NoRow
      BY <2>2 DEF BehindRequests
    <3>2. QED
      BY <1>1, <1>2, <3>1 DEF PageInv, Followed, KeepsOn
  <2>3. QED
    BY <2>1, <2>2 DEF Followed
<1>7. RefusedNothing'
  <2>1. page.busy = "starting" => session.capture \in Captures
    BY <1>2, BusyFollows
  <2>2. QED
    BY <1>1, <1>2, <2>1 DEF PageInv, RefusedNothing, BehindRequests
<1>8. QED
  BY <1>2, <1>3, <1>4, <1>5, <1>6, <1>7 DEF FullInv, PageInv

----------------------------------------------------------------------------
(* What the tab sends. *)

LEMMA SentLine ==
  ASSUME line \in Seq(Request), NEW r \in Request, line' = Append(Abandoned, r)
  PROVE  /\ line' \in Seq(Request) /\ Len(line) \in Nat /\ Len(line') = Len(line) + 1
         /\ line'[Len(line) + 1] = r
         /\ \A i \in 1..Len(line) :
              /\ line'[i].id = line[i].id /\ line'[i].mode = line[i].mode
              /\ line'[i].kind = line[i].kind /\ line'[i].pending = line[i].pending
              /\ line'[i].awaited = FALSE
<1>1. Abandoned \in Seq(Request) /\ Len(Abandoned) = Len(line) /\ Len(line) \in Nat
  BY AbandonedLine, LenProperties
<1>2. /\ line' \in Seq(Request) /\ Len(line') = Len(line) + 1
      /\ line'[Len(line) + 1] = r
      /\ \A i \in 1..Len(line) : line'[i] = Abandoned[i]
  BY <1>1, AppendProperties
<1>3. QED
  BY <1>1, <1>2, AbandonedLine

(* A request about the capture the tab follows, or starts to follow.       *)
LEMMA SendMoves ==
  ASSUME FullInv, UNCHANGED captureVars,
         session' \in Session, session'.capture # NoRow,
         \/ session'.capture = session.capture /\ session'.mode = session.mode
         \/ session.capture = NoRow /\ session'.capture \notin used,
         session'.capture \in used', used \subseteq used',
         NEW busy \in Busy \ {"none"},
         busy = "applying" => session'.pending # NoRow /\ page'.view # NoRow,
         busy = "starting" => session'.pending = NoRow,
         page' \in Page, page'.busy = busy, ~page'.retry,
         page'.view = page.view \/ page'.view = NoRow,
         reply' = NoRow,
         line' = Append(Abandoned, [kind |-> KindOf(busy), id |-> session'.capture,
                          mode |-> session'.mode, pending |-> session'.pending, awaited |-> TRUE])
  PROVE  FullInv'
<1> DEFINE r == [kind |-> KindOf(busy), id |-> session'.capture, mode |-> session'.mode,
                 pending |-> session'.pending, awaited |-> TRUE]
<1>1. CaptureInv' /\ PageInv /\ UNCHANGED <<capture, made>> /\ \A d \in Captures : KeepsOn(d)
  BY CaptureStays DEF FullInv
<1>2. /\ r \in Request /\ r.id = session'.capture /\ r.mode = session'.mode
      /\ r.kind = KindOf(busy) /\ r.pending = session'.pending
  BY DEF Session, Request, KindOf, Busy
<1>3. r.kind = "apply" => r.pending # NoRow
  BY <1>2 DEF KindOf, Busy
<1>4. line \in Seq(Request) /\ line' = Append(Abandoned, r)
  BY <1>1 DEF PageInv, PageTypeOK
<1> HIDE DEF r
<1>5. /\ line' \in Seq(Request) /\ Len(line) \in Nat /\ Len(line') = Len(line) + 1
      /\ line'[Len(line) + 1] = r
      /\ \A i \in 1..Len(line) :
           /\ line'[i].id = line[i].id /\ line'[i].mode = line[i].mode
           /\ line'[i].kind = line[i].kind /\ line'[i].pending = line[i].pending
           /\ line'[i].awaited = FALSE
  BY <1>2, <1>4, SentLine
<1>6. session.capture = NoRow => page.view = NoRow /\ line = <<>> /\ Len(line) = 0
  BY <1>1, NothingShown, EmptySeq
<1>7. PageTypeOK'
  BY <1>5 DEF PageTypeOK
<1>8. ViewsAgree'
  <2>1. page'.view # NoRow => page'.view = page.view /\ session'.capture = session.capture
    BY <1>6
  <2>2. page'.view # NoRow => Agrees(page.view)'
    BY <1>1, <2>1, ViewStays
  <2>3. QED
    BY <2>2 DEF ViewsAgree
<1>9. LineOrdered'
  <2> SUFFICES ASSUME NEW i \in 1..Len(line')
               PROVE  /\ line'[i].id = session'.capture /\ line'[i].mode = session'.mode
                      /\ line'[i].kind = "apply" => line'[i].pending # NoRow
                      /\ line'[i].awaited => /\ i = Len(line') /\ page'.busy # "none"
                                             /\ line'[i].kind = KindOf(page'.busy)
    BY DEF LineOrdered, KindOf
  <2>1. CASE i = Len(line) + 1
    BY <1>2, <1>3, <1>5, <2>1
  <2>2. CASE i \in 1..Len(line)
    <3>1. session.capture # NoRow
      BY <1>6, <2>2
    <3>2. session'.capture = session.capture /\ session'.mode = session.mode
      BY <3>1
    <3>3. /\ line[i].id = session.capture /\ line[i].mode = session.mode
          /\ line[i].kind = "apply" => line[i].pending # NoRow
      BY <1>1, <2>2 DEF PageInv, LineOrdered
    <3>4. QED
      BY <1>5, <2>2, <3>2, <3>3
  <2>3. QED
    BY <1>5, <2>1, <2>2
<1>10. Settled'
  BY DEF Settled
<1>11. Followed'
  <2> SUFFICES ASSUME NEW c \in Captures, capture[c] # NoRow
               PROVE  /\ c \in used'
                      /\ c = session'.capture => capture[c].mode = session'.mode
                      /\ c # session'.capture => capture[c].status # "running"
    BY <1>1 DEF Followed
  <2>1. /\ c \in used /\ c # NoRow
        /\ c = session.capture => capture[c].mode = session.mode
        /\ c # session.capture => capture[c].status # "running"
    BY <1>1, NoRowAssumption DEF PageInv, Followed
  <2>2. QED
    BY <2>1
<1>12. RefusedNothing'
  BY DEF RefusedNothing
<1>13. QED
  BY <1>1, <1>7, <1>8, <1>9, <1>10, <1>11, <1>12 DEF FullInv, PageInv

LEMMA PageFacts ==
  ASSUME FullInv
  PROVE  /\ session \in Session /\ page \in Page /\ PageInv /\ CaptureInv
         /\ session.capture \in Captures \cup {NoRow} /\ session.mode \in Mode
         /\ session.pending \in Pending \cup {NoRow} /\ session.request \in BOOLEAN
         /\ page.busy \in Busy /\ page.view \in RunView \cup {NoRow}
  BY DEF FullInv, PageInv, PageTypeOK, Session, Page

LEMMA SentPage ==
  ASSUME NEW p \in Page, NEW busy \in Busy
  PROVE  /\ [p EXCEPT !.busy = busy, !.retry = FALSE] \in Page
         /\ [p EXCEPT !.busy = busy, !.retry = FALSE].busy = busy
         /\ [p EXCEPT !.busy = busy, !.retry = FALSE].retry = FALSE
         /\ [p EXCEPT !.busy = busy, !.retry = FALSE].view = p.view
  BY DEF Page

LEMMA StartCaptureKeeps ==
  ASSUME FullInv, NEW c \in Captures, NEW mode \in Mode, StartCapture(c, mode)
  PROVE  FullInv'
<1>1. /\ UNCHANGED captureVars /\ session.capture = NoRow /\ c \notin used
      /\ session' = [session EXCEPT !.capture = c, !.request = TRUE, !.mode = mode]
      /\ used' = used \cup {c} /\ Send("create", session', "starting")
  BY DEF StartCapture, Idle
<1>2. session.pending = NoRow
  BY <1>1, PageFacts DEF PageInv, Settled
<1>3. /\ session' \in Session /\ session'.capture = c /\ session'.mode = mode
      /\ session'.pending = session.pending /\ c # NoRow
  BY <1>1, PageFacts, NoRowAssumption DEF Session
<1>4. page' \in Page /\ page'.busy = "starting" /\ ~page'.retry /\ page'.view = page.view
  BY <1>1, PageFacts, SentPage DEF Send, Busy
<1>5. QED
  BY <1>1, <1>2, <1>3, <1>4, SendMoves DEF Send, Busy, KindOf

LEMMA ConfirmKeeps ==
  ASSUME FullInv, Confirm
  PROVE  FullInv'
<1>1. /\ UNCHANGED <<captureVars, session, used>> /\ session.capture # NoRow
      /\ Send("get", session, "checking")
  BY DEF Confirm, Idle
<1>2. session.capture \in used
  BY <1>1, PageFacts DEF PageInv, Followed
<1>3. page' \in Page /\ page'.busy = "checking" /\ ~page'.retry /\ page'.view = page.view
  BY <1>1, PageFacts, SentPage DEF Send, Busy
<1>4. QED
  BY <1>1, <1>2, <1>3, PageFacts, SendMoves DEF Send, Busy, KindOf

LEMMA RetryKeeps ==
  ASSUME FullInv, RetryOriginal
  PROVE  FullInv'
<1>1. UNCHANGED <<captureVars, session, used>> /\ page.retry
  BY DEF RetryOriginal, Idle
<1>2. CASE session.pending # NoRow
  <2>1. Send("apply", session, "applying")
    BY <1>2 DEF RetryOriginal
  <2>2. page.view # NoRow /\ session.capture # NoRow /\ session.capture \in used
    BY <1>1, <1>2, PageFacts DEF PageInv, Settled, Followed
  <2>3. page' \in Page /\ page'.busy = "applying" /\ ~page'.retry /\ page'.view = page.view
    BY <2>1, PageFacts, SentPage DEF Send, Busy
  <2>4. QED
    BY <1>1, <1>2, <2>1, <2>2, <2>3, PageFacts, SendMoves DEF Send, Busy, KindOf
<1>3. CASE session.pending = NoRow
  <2>1. Send("create", session, "starting") /\ session.request
    BY <1>3 DEF RetryOriginal
  <2>2. session.capture # NoRow /\ session.capture \in used
    BY <2>1, PageFacts DEF PageInv, Settled, Followed
  <2>3. page' \in Page /\ page'.busy = "starting" /\ ~page'.retry /\ page'.view = page.view
    BY <2>1, PageFacts, SentPage DEF Send, Busy
  <2>4. QED
    BY <1>1, <1>3, <2>1, <2>2, <2>3, PageFacts, SendMoves DEF Send, Busy, KindOf
<1>4. QED
  BY <1>2, <1>3

LEMMA ApplyDraftsKeeps ==
  ASSUME FullInv, NEW o \in Ops, NEW chosen \in SUBSET Drafts, ApplyDrafts(o, chosen)
  PROVE  FullInv'
<1> DEFINE pending == [op |-> o, tasks |-> chosen]
<1>1. /\ UNCHANGED captureVars /\ session.capture # NoRow /\ page.view # NoRow
      /\ session' = [session EXCEPT !.pending = pending]
      /\ used' = used \cup {o} /\ Send("apply", session', "applying")
  BY DEF ApplyDrafts, Idle, Showing
<1>2. pending \in Pending /\ pending # NoRow
  BY NoPendingAssumption DEF Pending
<1> HIDE DEF pending
<1>3. /\ session' \in Session /\ session'.capture = session.capture
      /\ session'.mode = session.mode /\ session'.pending # NoRow
  BY <1>1, <1>2, PageFacts DEF Session
<1>4. session.capture \in used
  BY <1>1, PageFacts DEF PageInv, Followed
<1>5. page' \in Page /\ page'.busy = "applying" /\ ~page'.retry /\ page'.view = page.view
  BY <1>1, PageFacts, SentPage DEF Send, Busy
<1>6. QED
  BY <1>1, <1>3, <1>4, <1>5, SendMoves DEF Send, Busy, KindOf

LEMMA CancelKeeps ==
  ASSUME FullInv, CancelCapture
  PROVE  FullInv'
<1>1. /\ UNCHANGED <<captureVars, session, used>> /\ session.capture # NoRow
      /\ Send("cancel", session, "cancelling")
  BY DEF CancelCapture, Idle
<1>2. session.capture \in used
  BY <1>1, PageFacts DEF PageInv, Followed
<1>3. page' \in Page /\ page'.busy = "cancelling" /\ ~page'.retry /\ page'.view = page.view
  BY <1>1, PageFacts, SentPage DEF Send, Busy
<1>4. QED
  BY <1>1, <1>2, <1>3, PageFacts, SendMoves DEF Send, Busy, KindOf

LEMMA FreshIsPage ==
  /\ FreshPage \in Page /\ FreshPage.busy = "none" /\ FreshPage.view = NoRow
  /\ FreshPage.unsure = "none" /\ FreshPage.retry = FALSE
  /\ [FreshPage EXCEPT !.busy = "checking"] \in Page
  /\ [FreshPage EXCEPT !.busy = "checking"].busy = "checking"
  /\ [FreshPage EXCEPT !.busy = "checking"].view = NoRow
  /\ [FreshPage EXCEPT !.busy = "checking"].retry = FALSE
  /\ EmptySession \in Session /\ EmptySession.capture = NoRow
  /\ EmptySession.request = FALSE /\ EmptySession.pending = NoRow
  BY DEF FreshPage, Page, Busy, EmptySession, Session, Mode

(* A tab without a capture, and nothing on its way. *)
LEMMA BlankTab ==
  ASSUME CaptureInv', session' \in Session, session'.capture = NoRow, ~session'.request,
         session'.pending = NoRow, page' \in Page, page'.busy = "none", page'.view = NoRow,
         reply' = NoRow, line' = <<>>,
         \A c \in Captures : capture'[c] # NoRow =>
           c \in used' /\ capture'[c].status # "running"
  PROVE  FullInv'
<1>1. line' \in Seq(Request) /\ Len(line') = 0
  BY EmptySeq
<1>2. PageTypeOK' /\ ViewsAgree' /\ RefusedNothing' /\ Settled'
  BY <1>1 DEF PageTypeOK, ViewsAgree, RefusedNothing, Settled
<1>3. LineOrdered'
  BY <1>1 DEF LineOrdered
<1>4. Followed'
  BY NoRowAssumption DEF Followed
<1>5. QED
  BY <1>2, <1>3, <1>4 DEF FullInv, PageInv

LEMMA ReloadKeeps ==
  ASSUME FullInv, Reload
  PROVE  FullInv'
<1>1. UNCHANGED <<captureVars, session, used>> /\ reply' = NoRow
  BY DEF Reload
<1>2. CASE session.capture = NoRow
  <2>1. line' = Abandoned /\ page' = FreshPage
    BY <1>2 DEF Reload
  <2>2. line = <<>> /\ line \in Seq(Request)
    BY <1>2, PageFacts, NothingShown DEF PageInv, PageTypeOK
  <2>3. line' = <<>>
    BY <2>1, <2>2, AbandonedLine
  <2>4. CaptureInv' /\ UNCHANGED <<capture, made>>
    BY <1>1, CaptureStays, PageFacts
  <2>5. \A c \in Captures : capture[c] # NoRow =>
          c \in used /\ capture[c].status # "running"
    BY <1>2, PageFacts, NoRowAssumption DEF PageInv, Followed
  <2>6. ~session.request /\ session.pending = NoRow
    BY <1>2, PageFacts DEF PageInv, Settled
  <2>7. QED
    BY <1>1, <1>2, <2>1, <2>3, <2>4, <2>5, <2>6, PageFacts, FreshIsPage, BlankTab
<1>3. CASE session.capture # NoRow
  <2>1. /\ line' = Append(Abandoned, [kind |-> "get", id |-> session.capture,
                    mode |-> session.mode, pending |-> session.pending, awaited |-> TRUE])
        /\ page' = [FreshPage EXCEPT !.busy = "checking"]
    BY <1>3 DEF Reload
  <2>2. session.capture \in used
    BY <1>3, PageFacts DEF PageInv, Followed
  <2>3. page' \in Page /\ page'.busy = "checking" /\ ~page'.retry /\ page'.view = NoRow
    BY <2>1, FreshIsPage
  <2>4. QED
    BY <1>1, <1>3, <2>1, <2>2, <2>3, PageFacts, SendMoves DEF Busy, KindOf
<1>4. QED
  BY <1>2, <1>3

LEMMA NewCaptureKeeps ==
  ASSUME FullInv, NewCapture
  PROVE  FullInv'
<1>1. /\ UNCHANGED <<captureVars, line, reply, used>> /\ session.capture # NoRow
      /\ page.busy = "none" /\ page.unsure = "none"
      /\ session' = EmptySession /\ page' = FreshPage
      /\ page.view # NoRow => page.view.status # "running"
  BY DEF NewCapture, Idle, MayForget, Showing
<1>2. line = <<>> /\ page.view # NoRow /\ reply = NoRow
  BY <1>1, PageFacts DEF PageInv, Settled, LineOrdered
<1>3. capture[session.capture].status # "running"
  BY <1>1, <1>2, PageFacts DEF PageInv, ViewsAgree, Agrees
<1>4. \A c \in Captures : capture[c] # NoRow => c \in used /\ capture[c].status # "running"
  BY <1>3, PageFacts DEF PageInv, Followed
<1>5. CaptureInv' /\ UNCHANGED <<capture, made>>
  BY <1>1, CaptureStays, PageFacts
<1>6. QED
  BY <1>1, <1>2, <1>4, <1>5, FreshIsPage, BlankTab

----------------------------------------------------------------------------
(* What the tab makes of an answer, of none, and of a lost request. *)

(* The tab has its answer: nothing is on its way, and it keeps what it     *)
(* follows or follows nothing. *)
LEMMA AnswerTaken ==
  ASSUME FullInv, NEW busy, NEW kind, busy # "none", Answered(busy, kind)
  PROVE  /\ UNCHANGED <<captureVars, capture, made, used>> /\ CaptureInv'
         /\ line = <<>> /\ line' = <<>> /\ reply' = NoRow /\ reply # NoRow
         /\ reply.kind = kind /\ page.busy = busy
         /\ session.capture \in Captures /\ session.capture # NoRow
         /\ \A d \in Captures : KeepsOn(d)
  BY PageFacts, BusyFollows, CaptureStays, NoRowAssumption
     DEF Answered, PageInv, LineOrdered

(* The tab rests with the capture it follows. *)
LEMMA Rested ==
  ASSUME FullInv, CaptureInv', UNCHANGED <<capture, made, used>>,
         session' \in Session, page' \in Page, page'.busy = "none",
         session'.capture = session.capture, session'.mode = session.mode,
         session.capture \in Captures,
         page'.view # NoRow => Agrees(page'.view),
         page'.view # NoRow \/ (page'.unsure # "none" /\ ~(page'.retry /\ session'.pending # NoRow)),
         reply' = NoRow, line' = <<>>
  PROVE  FullInv'
<1>1. PageInv /\ session.capture # NoRow
  BY PageFacts, NoRowAssumption
<1>2. line' \in Seq(Request) /\ Len(line') = 0
  BY EmptySeq
<1>3. PageTypeOK' /\ RefusedNothing' /\ Settled'
  BY <1>1, <1>2 DEF PageTypeOK, RefusedNothing, Settled
<1>4. LineOrdered'
  BY <1>2 DEF LineOrdered
<1>5. ViewsAgree'
  BY DEF ViewsAgree, Agrees
<1>6. Followed'
  BY <1>1 DEF PageInv, Followed
<1>7. QED
  BY <1>3, <1>4, <1>5, <1>6 DEF FullInv, PageInv

LEMMA RunShownKeeps ==
  ASSUME FullInv, RunShown
  PROVE  FullInv'
<1>1. PICK busy \in {"starting", "checking", "applying", "cancelling"} : Answered(busy, "run")
  BY DEF RunShown
<1>2. /\ UNCHANGED <<capture, made, used>> /\ CaptureInv'
      /\ line' = <<>> /\ reply' = NoRow /\ reply # NoRow /\ reply.kind = "run"
      /\ session.capture \in Captures
  BY <1>1, AnswerTaken
<1>3. reply \in RunView /\ Agrees(reply) /\ reply # NoRow
  BY <1>2, PageFacts, ReplyKinds DEF PageInv, ViewsAgree
<1>4. /\ session' \in Session /\ session'.capture = session.capture
      /\ session'.mode = session.mode
  <2>1. session' = [session EXCEPT
                !.pending = IF Terminal(reply.status) THEN NoRow ELSE session.pending,
                !.request = session.request /\ reply.status # "details_deleted"]
    BY DEF RunShown, AcceptedSession
  <2>2. (session.request /\ reply.status # "details_deleted") \in BOOLEAN
    OBVIOUS
  <2>3. (IF Terminal(reply.status) THEN NoRow ELSE session.pending) \in Pending \cup {NoRow}
    BY PageFacts
  <2>4. QED
    BY <2>1, <2>2, <2>3, PageFacts DEF Session
<1>5. page' \in Page /\ page'.busy = "none" /\ page'.view = reply
  <2> DEFINE waits == session'.pending # NoRow /\ reply.status = "ready"
             doubt == IF waits /\ page.busy \in {"checking", "applying"} THEN "apply" ELSE "none"
             again == waits /\ page.busy = "checking"
  <2>1. page' = [Accepted(reply) EXCEPT
                   !.unsure = IF waits /\ page.busy \in {"checking", "applying"}
                              THEN "apply" ELSE @,
                   !.retry = again]
    BY DEF RunShown
  <2>2. /\ Accepted(reply) \in Page /\ Accepted(reply).busy = "none"
        /\ Accepted(reply).view = reply /\ Accepted(reply).unsure = "none"
    BY <1>3, PageFacts DEF Accepted, Page, Busy
  <2>3. page' = [Accepted(reply) EXCEPT !.unsure = doubt, !.retry = again]
    BY <2>1, <2>2
  <2>4. doubt \in {"none", "apply"} /\ again \in BOOLEAN
    OBVIOUS
  <2> HIDE DEF doubt, again
  <2>5. QED
    BY <2>2, <2>3, <2>4 DEF Page
<1>6. QED
  BY <1>2, <1>3, <1>4, <1>5, Rested

LEMMA StartRefusedKeeps ==
  ASSUME FullInv, StartRefused
  PROVE  FullInv'
<1>1. /\ Answered("starting", "refused")
      /\ session' = [session EXCEPT !.request = FALSE, !.capture = NoRow]
      /\ page' = [page EXCEPT !.busy = "none", !.unsure = "none"]
  BY DEF StartRefused
<1>2. /\ UNCHANGED <<capture, made, used>> /\ CaptureInv'
      /\ line' = <<>> /\ reply' = NoRow /\ reply # NoRow /\ reply.kind = "refused"
      /\ session.capture \in Captures /\ page.busy = "starting"
  BY <1>1, AnswerTaken
<1>3. capture[session.capture] = NoRow /\ session.pending = NoRow
  BY <1>2, PageFacts DEF PageInv, RefusedNothing, Settled
<1>4. page.view = NoRow
  BY <1>3, PageFacts DEF PageInv, ViewsAgree, Agrees
<1>5. /\ session' \in Session /\ session'.capture = NoRow /\ session'.pending = NoRow
      /\ ~session'.request
  BY <1>1, <1>3, PageFacts DEF Session
<1>6. page' \in Page /\ page'.busy = "none" /\ page'.view = NoRow
  BY <1>1, <1>4, PageFacts DEF Page, Busy
<1>7. \A c \in Captures : capture[c] # NoRow => c \in used /\ capture[c].status # "running"
  BY <1>3, PageFacts DEF PageInv, Followed
<1>8. QED
  BY <1>2, <1>5, <1>6, <1>7, BlankTab

LEMMA ApplyRefusedKeeps ==
  ASSUME FullInv, ApplyRefused
  PROVE  FullInv'
<1>1. /\ Answered("applying", "refused") \/ Answered("applying", "missing")
      /\ session' = [session EXCEPT !.pending = NoRow]
      /\ page' = [page EXCEPT !.busy = "none", !.unsure = "none"]
  BY DEF ApplyRefused
<1>2. /\ UNCHANGED <<capture, made, used>> /\ CaptureInv'
      /\ line' = <<>> /\ reply' = NoRow
      /\ session.capture \in Captures /\ page.busy = "applying"
  BY <1>1, AnswerTaken
<1>3. page.view # NoRow /\ Agrees(page.view)
  BY <1>2, PageFacts DEF PageInv, Settled, ViewsAgree
<1>4. /\ session' \in Session /\ session'.capture = session.capture
      /\ session'.mode = session.mode
  BY <1>1, PageFacts DEF Session
<1>5. page' \in Page /\ page'.busy = "none" /\ page'.view = page.view
  BY <1>1, PageFacts DEF Page, Busy
<1>6. QED
  BY <1>2, <1>3, <1>4, <1>5, Rested

LEMMA DoubtIsPage ==
  ASSUME NEW p \in Page, NEW u \in {"none", "start", "apply"}, NEW b \in BOOLEAN
  PROVE  /\ [p EXCEPT !.busy = "none", !.unsure = u, !.retry = b] \in Page
         /\ [p EXCEPT !.busy = "none", !.unsure = u, !.retry = b].busy = "none"
         /\ [p EXCEPT !.busy = "none", !.unsure = u, !.retry = b].unsure = u
         /\ [p EXCEPT !.busy = "none", !.unsure = u, !.retry = b].retry = b
         /\ [p EXCEPT !.busy = "none", !.unsure = u, !.retry = b].view = p.view
  BY DEF Page, Busy

LEMMA NotFoundKeeps ==
  ASSUME FullInv, NotFound
  PROVE  FullInv'
<1> DEFINE again == page.busy = "checking" /\ session.request /\ session.pending = NoRow
           doubt == UnsureOf(page.busy)
<1>1. /\ Answered("checking", "missing") \/ Answered("cancelling", "missing")
      /\ page' = [page EXCEPT !.busy = "none", !.unsure = doubt, !.retry = again]
      /\ UNCHANGED session
  BY DEF NotFound
<1>2. again \in BOOLEAN /\ (again => session.pending = NoRow)
  OBVIOUS
<1>3. doubt \in {"none", "start", "apply"} /\ doubt # "none"
  BY DEF UnsureOf
<1> HIDE DEF again, doubt
<1>4. /\ UNCHANGED <<capture, made, used>> /\ CaptureInv'
      /\ line' = <<>> /\ reply' = NoRow /\ session.capture \in Captures
  BY <1>1, AnswerTaken
<1>5. /\ page' \in Page /\ page'.busy = "none" /\ page'.view = page.view
      /\ page'.unsure = doubt /\ page'.retry = again
  <2> DEFINE p == [page EXCEPT !.busy = "none", !.unsure = doubt, !.retry = again]
  <2>1. page \in Page /\ again \in BOOLEAN /\ doubt \in {"none", "start", "apply"}
    BY <1>2, <1>3, PageFacts
  <2>2. /\ p \in Page /\ p.busy = "none" /\ p.view = page.view
        /\ p.unsure = doubt /\ p.retry = again
    BY <2>1 DEF Page, Busy
  <2>3. page' = p
    BY <1>1
  <2> HIDE DEF p
  <2>4. QED
    BY <2>2, <2>3
<1>6. page.view # NoRow => Agrees(page.view)
  BY PageFacts DEF PageInv, ViewsAgree
<1>7. page'.unsure # "none" /\ ~(page'.retry /\ session'.pending # NoRow)
  BY <1>1, <1>2, <1>3, <1>5
<1>8. QED
  BY <1>1, <1>4, <1>5, <1>6, <1>7, PageFacts, Rested

LEMMA NoAnswerKeeps ==
  ASSUME FullInv, NoAnswer
  PROVE  FullInv'
<1> DEFINE doubt == UnsureOf(page.busy)
<1>1. /\ page.busy # "none" /\ line' = Abandoned /\ reply' = NoRow
      /\ page' = [page EXCEPT !.busy = "none", !.unsure = doubt, !.retry = FALSE]
      /\ UNCHANGED <<captureVars, session, used>>
  BY DEF NoAnswer
<1>2. doubt \in {"none", "start", "apply"} /\ doubt # "none" /\ FALSE \in BOOLEAN
  BY DEF UnsureOf
<1> HIDE DEF doubt
<1>3. CaptureInv' /\ PageInv /\ UNCHANGED <<capture, made>>
  BY <1>1, PageFacts, CaptureStays
<1>4. session.capture \in Captures /\ session.capture # NoRow
  BY <1>1, <1>3, BusyFollows, NoRowAssumption
<1>5. /\ page' \in Page /\ page'.busy = "none" /\ page'.view = page.view
      /\ page'.unsure = doubt /\ page'.retry = FALSE
  <2>1. page \in Page
    BY PageFacts
  <2>2. ASSUME NEW p \in Page, NEW u \in {"none", "start", "apply"}
        PROVE  LET next == [p EXCEPT !.busy = "none", !.unsure = u, !.retry = FALSE]
               IN  /\ next \in Page /\ next.busy = "none" /\ next.view = p.view
                   /\ next.unsure = u /\ next.retry = FALSE
    BY DEF Page, Busy
  <2>3. page' = [page EXCEPT !.busy = "none", !.unsure = doubt, !.retry = FALSE]
    BY <1>1
  <2>4. doubt \in {"none", "start", "apply"}
    BY <1>2
  <2>5. QED
    BY <2>1, <2>2, <2>3, <2>4
<1>6. /\ line \in Seq(Request) /\ line' \in Seq(Request) /\ Len(line') = Len(line)
      /\ \A i \in 1..Len(line) :
           /\ line'[i].id = line[i].id /\ line'[i].mode = line[i].mode
           /\ line'[i].kind = line[i].kind /\ line'[i].pending = line[i].pending
           /\ line'[i].awaited = FALSE
  BY <1>1, <1>3, AbandonedLine DEF PageInv, PageTypeOK
<1>7. PageTypeOK' /\ RefusedNothing' /\ Followed'
  BY <1>1, <1>3, <1>5, <1>6 DEF PageInv, PageTypeOK, RefusedNothing, Followed
<1>8. ViewsAgree'
  BY <1>1, <1>3, <1>5 DEF PageInv, ViewsAgree, Agrees
<1>9. Settled'
  BY <1>1, <1>2, <1>4, <1>5 DEF Settled
<1>10. LineOrdered'
  BY <1>1, <1>3, <1>6 DEF PageInv, LineOrdered
<1>11. QED
  BY <1>3, <1>7, <1>8, <1>9, <1>10 DEF FullInv, PageInv

LEMMA LoseKeeps ==
  ASSUME FullInv, Lose
  PROVE  FullInv'
<1>1. line # <<>> /\ line' = Tail(line) /\ UNCHANGED <<captureVars, session, page, reply, used>>
  BY DEF Lose
<1>2. CaptureInv' /\ PageInv /\ UNCHANGED <<capture, made>>
  BY <1>1, PageFacts, CaptureStays
<1>3. /\ line' \in Seq(Request) /\ Len(line) \in Nat /\ Len(line') = Len(line) - 1
      /\ \A i \in 1..Len(line') : line'[i] = line[i + 1] /\ i + 1 \in 1..Len(line)
  BY <1>1, <1>2, LineTail, LenProperties DEF PageInv, PageTypeOK
<1>4. reply = NoRow
  BY <1>1, <1>2 DEF PageInv, LineOrdered
<1>5. PageTypeOK' /\ RefusedNothing' /\ Followed'
  BY <1>1, <1>2, <1>3 DEF PageInv, PageTypeOK, RefusedNothing, Followed
<1>6. ViewsAgree'
  BY <1>1, <1>2 DEF PageInv, ViewsAgree, Agrees
<1>7. Settled'
  BY <1>1, <1>2 DEF PageInv, Settled
<1>8. LineOrdered'
  <2> SUFFICES ASSUME NEW i \in 1..Len(line')
               PROVE  /\ line'[i].id = session'.capture /\ line'[i].mode = session'.mode
                      /\ line'[i].kind = "apply" => line'[i].pending # NoRow
                      /\ line'[i].awaited => /\ i = Len(line') /\ page'.busy # "none"
                                             /\ line'[i].kind = KindOf(page'.busy)
    BY <1>1, <1>4 DEF LineOrdered, KindOf
  <2>1. line'[i] = line[i + 1] /\ i + 1 \in 1..Len(line)
    BY <1>3
  <2>2. i + 1 = Len(line) <=> i = Len(line')
    BY <1>3
  <2>3. /\ line[i + 1].id = session.capture /\ line[i + 1].mode = session.mode
        /\ line[i + 1].kind = "apply" => line[i + 1].pending # NoRow
        /\ line[i + 1].awaited => /\ i + 1 = Len(line) /\ page.busy # "none"
                                  /\ line[i + 1].kind = KindOf(page.busy)
    BY <1>2, <2>1 DEF PageInv, LineOrdered
  <2>4. page' = page /\ session' = session /\ KindOf(page'.busy) = KindOf(page.busy)
    BY <1>1
  <2>5. QED
    BY <2>1, <2>2, <2>3, <2>4
<1>9. QED
  BY <1>2, <1>5, <1>6, <1>7, <1>8 DEF FullInv, PageInv

----------------------------------------------------------------------------
(* The service works on a request. *)

(* The tab after the service worked on its first request.  An answer it    *)
(* waits for is the answer to the only request. *)
LEMMA Served ==
  ASSUME FullInv, CaptureInv', line # <<>>, line' = Tail(line),
         UNCHANGED <<session, page, used>>, \A d \in Captures : KeepsOn(d),
         Only(session.capture),
         capture[session.capture] = NoRow /\ capture'[session.capture] # NoRow =>
           capture'[session.capture].mode = session.mode,
         NEW a, a \in {Refused, Missing} \/ (TrueOf(a, session.capture))',
         Head(line).kind = "create" /\ a = Refused => capture'[session.capture] = NoRow,
         reply' = IF Head(line).awaited THEN a ELSE reply
  PROVE  FullInv'
<1>1. PageInv /\ session.capture \in Captures /\ session.capture # NoRow
  BY PageFacts, BusyFollows, NoRowAssumption
<1>2. /\ line \in Seq(Request) /\ Len(line) \in Nat /\ 1 \in 1..Len(line)
      /\ Head(line) = line[1]
      /\ line' \in Seq(Request) /\ Len(line') = Len(line) - 1
      /\ \A i \in 1..Len(line') : line'[i] = line[i + 1] /\ i + 1 \in 1..Len(line)
      /\ Len(line) = 1 => line' = <<>>
  BY <1>1, LineTail, LenProperties DEF PageInv, PageTypeOK
<1>3. reply = NoRow
  BY <1>1 DEF PageInv, LineOrdered
<1>4. reply' # NoRow => /\ reply' = a /\ line' = <<>> /\ page.busy # "none"
                        /\ Head(line).kind = KindOf(page.busy)
  <2>1. line[1].awaited => /\ Len(line) = 1 /\ page.busy # "none"
                           /\ line[1].kind = KindOf(page.busy)
    BY <1>1, <1>2 DEF PageInv, LineOrdered
  <2>2. QED
    BY <1>2, <1>3, <2>1
<1>5. a \in {Refused, Missing} \/ (a \in RunView /\ Agrees(a)')
  <2>1. CASE (TrueOf(a, session.capture))'
    BY <1>1, <2>1 DEF TrueOf, Agrees
  <2>2. QED
    BY <2>1
<1>6. reply' \in Answers \cup {NoRow}
  BY <1>4, <1>5 DEF Answers
<1>7. PageTypeOK'
  BY <1>1, <1>2, <1>6 DEF PageInv, PageTypeOK
<1>8. ViewsAgree'
  <2>1. page'.view # NoRow => Agrees(page.view)'
    BY <1>1, ViewStays
  <2>2. reply' # NoRow /\ reply'.kind = "run" => Agrees(a)'
    BY <1>4, <1>5 DEF Refused, Missing
  <2>3. QED
    BY <1>4, <2>1, <2>2 DEF ViewsAgree, Agrees
<1>9. LineOrdered'
  <2>1. ASSUME NEW i \in 1..Len(line')
        PROVE  /\ line'[i].id = session'.capture /\ line'[i].mode = session'.mode
               /\ line'[i].kind = "apply" => line'[i].pending # NoRow
               /\ line'[i].awaited => /\ i = Len(line') /\ page'.busy # "none"
                                      /\ line'[i].kind = KindOf(page'.busy)
    <3>1. line'[i] = line[i + 1] /\ i + 1 \in 1..Len(line)
      BY <1>2
    <3>2. i + 1 = Len(line) <=> i = Len(line')
      BY <1>2
    <3>3. /\ line[i + 1].id = session.capture /\ line[i + 1].mode = session.mode
          /\ line[i + 1].kind = "apply" => line[i + 1].pending # NoRow
          /\ line[i + 1].awaited => /\ i + 1 = Len(line) /\ page.busy # "none"
                                    /\ line[i + 1].kind = KindOf(page.busy)
      BY <1>1, <3>1 DEF PageInv, LineOrdered
    <3>4. KindOf(page'.busy) = KindOf(page.busy)
      OBVIOUS
    <3>5. QED
      BY <3>1, <3>2, <3>3, <3>4
  <2>2. reply' # NoRow => line' = <<>> /\ page'.busy # "none"
    BY <1>4
  <2>3. QED
    BY <2>1, <2>2 DEF LineOrdered, KindOf
<1>10. Settled'
  BY <1>1 DEF PageInv, Settled
<1>11. Followed'
  <2>1. ASSUME NEW c \in Captures, capture'[c] # NoRow
        PROVE  /\ c \in used
               /\ c = session.capture => capture'[c].mode = session.mode
               /\ c # session.capture => capture'[c].status # "running"
    <3>1. CASE c = session.capture
      BY <1>1, <2>1, <3>1 DEF PageInv, Followed, KeepsOn
    <3>2. CASE c # session.capture
      <4>1. capture'[c] = capture[c]
        BY <3>2 DEF Only
      <4>2. QED
        BY <1>1, <2>1, <3>2, <4>1 DEF PageInv, Followed
    <3>3. QED
      BY <3>1, <3>2
  <2>2. QED
    BY <1>1, <2>1 DEF PageInv, Followed
<1>12. RefusedNothing'
  <2> SUFFICES ASSUME page.busy = "starting", reply' # NoRow, reply'.kind = "refused"
               PROVE  capture'[session.capture] = NoRow
    BY DEF RefusedNothing
  <2>1. Head(line).kind = "create" /\ reply' = a
    BY <1>4 DEF KindOf
  <2>2. a = Refused
    BY <1>5, <2>1 DEF RunView, Missing
  <2>3. QED
    BY <2>1, <2>2
<1>13. QED
  BY <1>7, <1>8, <1>9, <1>10, <1>11, <1>12 DEF FullInv, PageInv

LEMMA ServeStep ==
  ASSUME FullInv, Serve
  PROVE  FullInv' /\ Only(session.capture)
<1> DEFINE req == Head(line)
<1>1. line # <<>> /\ line' = Tail(line) /\ UNCHANGED <<session, page, used>>
  BY DEF Serve
<1>2. PageInv /\ CaptureInv /\ session.capture \in Captures
  BY <1>1, PageFacts, BusyFollows
<1>3. /\ req.id = session.capture /\ req.mode = session.mode /\ req.mode \in Mode
      /\ req.kind = "apply" =>
           req.pending \in Pending /\ req.pending.op \in Ops /\ req.pending.tasks \in SUBSET Drafts
  <2>1. line \in Seq(Request)
    BY <1>2 DEF PageInv, PageTypeOK
  <2>2. req \in Request /\ req = line[1] /\ 1 \in 1..Len(line)
    BY <1>1, <2>1, LineTail
  <2>3. /\ line[1].id = session.capture /\ line[1].mode = session.mode
        /\ line[1].kind = "apply" => line[1].pending # NoRow
    BY <1>2, <2>2 DEF PageInv, LineOrdered
  <2>4. QED
    BY <2>2, <2>3 DEF Request, Pending
<1>4. capture[session.capture] # NoRow => capture[session.capture].mode = session.mode
  BY <1>2 DEF PageInv, Followed
<1> HIDE DEF req
<1>5. ASSUME NEW a, Create(req.id, req.mode, a), req.kind = "create",
             reply' = IF req.awaited THEN a ELSE reply
      PROVE  FullInv' /\ Only(session.capture)
  <2>1. Create(session.capture, session.mode, a) /\ session.mode \in Mode
    BY <1>3, <1>5
  <2>2. /\ CaptureInv' /\ (\A d \in Captures : KeepsOn(d)) /\ Only(session.capture)
        /\ a = Refused \/ (TrueOf(a, session.capture))'
        /\ a = Refused => capture'[session.capture] = NoRow
        /\ capture[session.capture] = NoRow /\ capture'[session.capture] # NoRow =>
             capture'[session.capture].mode = session.mode
    BY <1>1, <1>2, <1>4, <2>1, CreateStep
  <2>3. QED
    BY <1>1, <1>5, <2>2, Served DEF req
<1>6. ASSUME NEW a, Get(req.id, a), req.kind = "get",
             reply' = IF req.awaited THEN a ELSE reply
      PROVE  FullInv' /\ Only(session.capture)
  <2>1. Get(session.capture, a)
    BY <1>3, <1>6
  <2>2. /\ CaptureInv' /\ (\A d \in Captures : KeepsOn(d)) /\ Only(session.capture)
        /\ capture' = capture
        /\ a = Missing \/ (TrueOf(a, session.capture))'
    BY <1>1, <1>2, <2>1, GetStep
  <2>3. QED
    BY <1>1, <1>6, <2>2, Served DEF req
<1>7. ASSUME NEW a, Apply(req.id, req.pending.op, req.pending.tasks, a), req.kind = "apply",
             reply' = IF req.awaited THEN a ELSE reply
      PROVE  FullInv' /\ Only(session.capture)
  <2>1. Apply(session.capture, req.pending.op, req.pending.tasks, a)
    BY <1>3, <1>7
  <2>2. /\ CaptureInv' /\ (\A d \in Captures : KeepsOn(d)) /\ Only(session.capture)
        /\ capture[session.capture] = NoRow => capture'[session.capture] = NoRow
        /\ a \in {Missing, Refused} \/ (TrueOf(a, session.capture))'
    BY <1>1, <1>2, <1>3, <1>7, <2>1, ApplyStep
  <2>3. QED
    BY <1>1, <1>7, <2>2, Served DEF req
<1>8. ASSUME NEW a, Cancel(req.id, a), req.kind = "cancel",
             reply' = IF req.awaited THEN a ELSE reply
      PROVE  FullInv' /\ Only(session.capture)
  <2>1. Cancel(session.capture, a)
    BY <1>3, <1>8
  <2>2. /\ CaptureInv' /\ (\A d \in Captures : KeepsOn(d)) /\ Only(session.capture)
        /\ capture[session.capture] = NoRow => capture'[session.capture] = NoRow
        /\ a = Missing \/ (TrueOf(a, session.capture))'
    BY <1>1, <1>2, <2>1, CancelStep
  <2>3. QED
    BY <1>1, <1>8, <2>2, Served DEF req
<1>9. QED
  BY <1>5, <1>6, <1>7, <1>8 DEF Serve, req

----------------------------------------------------------------------------
(* Every step keeps the invariant, and tasks appear only from the capture  *)
(* the tab follows. *)

LEMMA Start_FullInv == Init => FullInv
<1> SUFFICES ASSUME CaptureInit, PageInit PROVE FullInv
  BY DEF Init
<1>1. CaptureInv
  BY CaptureStart
<1>2. /\ session = EmptySession /\ page = FreshPage /\ line = <<>> /\ reply = NoRow
      /\ Len(line) = 0 /\ line \in Seq(Request)
  BY EmptySeq DEF PageInit
<1>3. PageTypeOK /\ ViewsAgree /\ Settled /\ RefusedNothing
  BY <1>2, FreshIsPage DEF PageTypeOK, ViewsAgree, Settled, RefusedNothing
<1>4. LineOrdered
  BY <1>2 DEF LineOrdered
<1>5. Followed
  BY <1>2, FreshIsPage DEF CaptureInit, Followed
<1>6. QED
  BY <1>1, <1>3, <1>4, <1>5 DEF FullInv, PageInv

LEMMA PageStepKeeps ==
  ASSUME FullInv, PageStep
  PROVE  FullInv' /\ UNCHANGED made
<1>1. FullInv'
  BY StartCaptureKeeps, ApplyDraftsKeeps, ConfirmKeeps, RetryKeeps, CancelKeeps, NewCaptureKeeps,
     ReloadKeeps, RunShownKeeps, StartRefusedKeeps, ApplyRefusedKeeps, NotFoundKeeps,
     NoAnswerKeeps, LoseKeeps DEF PageStep
<1>2. UNCHANGED captureVars
  BY DEF PageStep, StartCapture, ApplyDrafts, Confirm, RetryOriginal, CancelCapture, NewCapture,
         Reload, RunShown, StartRefused, ApplyRefused, NotFound, NoAnswer, Lose, Idle, Answered
<1>3. QED
  BY <1>1, <1>2 DEF captureVars

LEMMA StepKeeps ==
  ASSUME FullInv, [Next]_vars
  PROVE  /\ FullInv'
         /\ \A c \in Captures : made'[c] # made[c] => c = session.capture
<1>1. CASE PageStep
  BY <1>1, PageStepKeeps
<1>2. CASE Serve
  <2>1. FullInv' /\ Only(session.capture)
    BY <1>2, ServeStep
  <2>2. QED
    BY <2>1 DEF Only
<1>3. CASE Background /\ UNCHANGED pageVars
  <2>1. BehindRequests
    BY <1>3, BackgroundStep, PageFacts
  <2>2. FullInv'
    BY <1>3, <2>1, BackgroundKeeps
  <2>3. ASSUME NEW c \in Captures, made'[c] # made[c] PROVE c = session.capture
    <3>1. c \in Running
      BY <2>1, <2>3 DEF BehindRequests
    <3>2. QED
      BY <3>1, PageFacts DEF Running, PageInv, Followed
  <2>4. QED
    BY <2>2, <2>3
<1>4. CASE UNCHANGED vars
  <2>1. /\ UNCHANGED <<epoch, today, tasks, capture, operation, job, made>>
        /\ UNCHANGED pageVars
    BY <1>4 DEF vars, captureVars
  <2>2. WorldTyped'
    BY <2>1, PageFacts DEF CaptureInv, CaptureTypeOK, WorldTyped
  <2>3. BehindRequests
    BY <2>1, <2>2, PageFacts, JobMoves
  <2>4. QED
    BY <2>1, <2>3, BackgroundKeeps
<1>5. QED
  BY <1>1, <1>2, <1>3, <1>4 DEF Next

(* Every reachable state of the service and the tab satisfies the          *)
(* inductive invariant.                                                    *)
THEOREM FullInvariant == Spec => []FullInv
<1>1. FullInv /\ [Next]_vars => FullInv'
  BY StepKeeps
<1>2. QED
  BY Start_FullInv, <1>1, PTL DEF Spec

(* The rows of the service and the state of the tab have their shapes.     *)
THEOREM CaptureTyped == Spec => [](CaptureTypeOK /\ PageTypeOK)
<1>1. FullInv => CaptureTypeOK /\ PageTypeOK
  BY DEF FullInv, CaptureInv, PageInv
<1>2. QED
  BY FullInvariant, <1>1, PTL

(* A capture creates its tasks at most once, for any number of captures,   *)
(* operations, retries, reloads, restarts and cleared histories: whoever   *)
(* created tasks says so in a status nothing creates tasks from.           *)
THEOREM CreatesOnce == Spec => []CapturedOnce
<1>1. FullInv => CapturedOnce
  BY DEF FullInv, CaptureInv, CaptureTypeOK, CapturedOnce
<1>2. QED
  BY FullInvariant, <1>1, PTL

(* A tab that shows a capture as failed or stopped shows one that created  *)
(* nothing, however late the answer is.                                    *)
THEOREM StoppedIsEmpty == Spec => []StoppedMeansNothing
<1>1. FullInv => StoppedMeansNothing
  BY DEF FullInv, PageInv, ViewsAgree, Agrees, StoppedMeansNothing
<1>2. QED
  BY FullInvariant, <1>1, PTL

(* Only the capture the tab follows creates tasks: what it let go of has   *)
(* ended, or was never stored and is not on its way any more.              *)
THEOREM OnlyFollowed == Spec => LetGoIsOver
<1>1. FullInv /\ [Next]_vars =>
        [\A c \in Captures : made'[c] # made[c] => c = session.capture]_vars
  BY StepKeeps
<1>2. QED
  BY FullInvariant, <1>1, PTL DEF Spec, LetGoIsOver
=============================================================================
