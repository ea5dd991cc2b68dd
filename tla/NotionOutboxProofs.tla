--------------------------- MODULE NotionOutboxProofs ---------------------------
(***************************************************************************)
(* What the store promises alone, for every number of tasks, processes,    *)
(* pages, operations and replacements, and whoever calls its transactions  *)
(* in whatever order: the types of its rows, that live intents belong to   *)
(* the current dataset, that a task has one open write at most, and that   *)
(* no local change is dropped.                                             *)
(***************************************************************************)
EXTENDS NotionOutbox, TLAPS

----------------------------------------------------------------------------
(* Facts about rows. *)

(* A row with any status but "absent" is an operation. *)
LEMMA RowIsOperation ==
  ASSUME NEW row \in Operation \cup {Absent}, row.status \in OpStatus
  PROVE  row \in Operation
  BY DEF Absent, OpStatus

(* Changing the status of some operations keeps the types of all rows.     *)
LEMMA SetStatusType ==
  ASSUME outbox \in [OpId -> Operation \cup {Absent}],
         NEW ops \in SUBSET OpId, NEW status \in OpStatus,
         \A o \in ops : outbox[o].status \in OpStatus
  PROVE  SetStatus(ops, status) \in [OpId -> Operation \cup {Absent}]
<1>1. SUFFICES ASSUME NEW o \in OpId
               PROVE  SetStatus(ops, status)[o] \in Operation \cup {Absent}
  BY DEF SetStatus
<1>2. CASE o \in ops
  <2>1. outbox[o] \in Operation
    BY <1>2, RowIsOperation
  <2>2. [outbox[o] EXCEPT !.status = status] \in Operation
    BY <2>1 DEF Operation
  <2>3. QED
    BY <1>2, <2>2 DEF SetStatus
<1>3. CASE o \notin ops
  BY <1>3 DEF SetStatus
<1>4. QED
  BY <1>2, <1>3

(* A merge of three sides has a value in every field. *)
LEMMA MergedFields ==
  ASSUME NEW b, NEW l \in TaskFields, NEW r \in TaskFields
  PROVE  Merged(b, l, r) \in TaskFields
  BY DEF Merged, TaskFields

(* Keeping the records of one quarantine and adding those of another keeps *)
(* the types.                                                              *)
LEMMA KeptType ==
  ASSUME NEW prior \in [OpId -> Operation \cup {Absent}],
         NEW added \in [OpId -> Operation \cup {Absent}]
  PROVE  Kept(prior, added) \in [OpId -> Operation \cup {Absent}]
  BY DEF Kept

LEMMA WithStatusType ==
  ASSUME NEW ops \in [OpId -> Operation \cup {Absent}], NEW statuses
  PROVE  WithStatus(ops, statuses) \in [OpId -> Operation \cup {Absent}]
  BY DEF WithStatus

(* Enqueueing an intent adds an operation of the current dataset and       *)
(* supersedes the waiting ones of its task.                                *)
LEMMA EnqueuedType ==
  ASSUME StoreTypeOK, NEW t \in Task, NEW desired \in TaskFields,
         NEW baseline \in TaskFields \cup {NoFields}
  PROVE  Enqueued(t, desired, baseline) \in [OpId -> Operation \cup {Absent}]
<1> DEFINE row == [status |-> "pending", task |-> t, epoch |-> epoch,
                   desired |-> desired, baseline |-> baseline, owner |-> NoSender]
<1>1. row \in Operation
  BY DEF StoreTypeOK, Operation, OpStatus
<1>2. SUFFICES ASSUME NEW o \in OpId
               PROVE  Enqueued(t, desired, baseline)[o] \in Operation \cup {Absent}
  BY DEF Enqueued
<1>3. CASE o = nextOp + 1
  BY <1>1, <1>3 DEF Enqueued
<1>4. CASE o # nextOp + 1 /\ o \in OpsOf(t, {"pending"})
  <2>1. outbox[o] \in Operation
    BY <1>4, RowIsOperation DEF OpsOf, StoreTypeOK, OpStatus
  <2>2. [outbox[o] EXCEPT !.status = "superseded"] \in Operation
    BY <2>1 DEF Operation, OpStatus
  <2>3. QED
    BY <1>4, <2>2 DEF Enqueued
<1>5. CASE o # nextOp + 1 /\ o \notin OpsOf(t, {"pending"})
  BY <1>5 DEF Enqueued, StoreTypeOK
<1>6. QED
  BY <1>3, <1>4, <1>5

(* The rows left by a confirmation have their types. *)
LEMMA SettledType ==
  ASSUME StoreTypeOK, NEW o \in OpId, outbox[o] \in Operation,
         NEW readBack \in TaskFields
  PROVE  Settled(o, readBack) \in [OpId -> Operation \cup {Absent}]
<1>1. SUFFICES ASSUME NEW p \in OpId
               PROVE  Settled(o, readBack)[p] \in Operation \cup {Absent}
  BY DEF Settled
<1>2. CASE p = o
  BY <1>2 DEF Settled, Operation, OpStatus
<1>3. CASE p # o /\ p \in OpsOf(outbox[o].task, {"pending"})
  <2>1. outbox[p] \in Operation
    BY <1>3, RowIsOperation DEF OpsOf, StoreTypeOK, OpStatus
  <2>2. \A status \in OpStatus :
          [outbox[p] EXCEPT !.baseline = readBack, !.status = status] \in Operation
    BY <2>1 DEF Operation
  <2>3. QED
    BY <1>3, <2>2 DEF Settled, OpStatus
<1>4. CASE p # o /\ p \notin OpsOf(outbox[o].task, {"pending"})
  BY <1>4 DEF Settled, StoreTypeOK
<1>5. QED
  BY <1>2, <1>3, <1>4

----------------------------------------------------------------------------
(* Type correctness, one lemma per group of transactions.                  *)

LEMMA InitTyped == StoreInit => StoreTypeOK
<1> SUFFICES ASSUME StoreInit
             PROVE  StoreTypeOK
  OBVIOUS
<1>1. Unlinked \in Mapping
  BY DEF Unlinked, Mapping
<1>2. /\ task \in [Task -> TaskFields \cup {NoFields}]
      /\ mapping \in [Task -> Mapping]
      /\ outbox \in [OpId -> Operation \cup {Absent}]
      /\ quarantine \in [OpId -> Operation \cup {Absent}]
  BY <1>1 DEF StoreInit
<1>3. backup \in Archive
  BY <1>2 DEF StoreInit, Archive
<1>4. nextOp \in 0 .. MaxOps /\ epoch \in Nat
  BY BoundsAssumption DEF StoreInit
<1>5. conn \in ConnStatus /\ backoff \in BOOLEAN
  BY DEF StoreInit, ConnStatus
<1>6. live \in SUBSET Sender /\ started \in SUBSET Sender
  BY DEF StoreInit
<1>7. QED
  BY <1>2, <1>3, <1>4, <1>5, <1>6 DEF StoreTypeOK

LEMMA LocalWriteTyped ==
  ASSUME StoreTypeOK, NEW t \in Task, NEW new \in TaskFields, LocalWrite(t, new)
  PROVE  StoreTypeOK'
<1>1. CASE WriteLinkedTask(t, new)
  <2>1. Enqueued(t, new, mapping[t].baseline) \in [OpId -> Operation \cup {Absent}]
    BY EnqueuedType DEF StoreTypeOK, Mapping
  <2>2. nextOp + 1 \in 0 .. MaxOps
    BY <1>1, BoundsAssumption DEF WriteLinkedTask, StoreTypeOK
  <2>3. QED
    BY <1>1, <2>1, <2>2 DEF WriteLinkedTask, StoreTypeOK
<1>2. CASE CreateLinkedTask(t, new)
  <2>1. Enqueued(t, new, NoFields) \in [OpId -> Operation \cup {Absent}]
    BY EnqueuedType
  <2>2. nextOp + 1 \in 0 .. MaxOps
    BY <1>2, BoundsAssumption DEF CreateLinkedTask, StoreTypeOK
  <2>3. [Unlinked EXCEPT !.state = "pending_create"] \in Mapping
    BY DEF Unlinked, Mapping
  <2>4. QED
    BY <1>2, <2>1, <2>2, <2>3 DEF CreateLinkedTask, StoreTypeOK
<1>3. CASE WriteLocalTask(t, new)
  BY <1>3 DEF WriteLocalTask, StoreTypeOK
<1>4. QED
  BY <1>1, <1>2, <1>3 DEF LocalWrite

(* Recovery of the sends of some instances. *)
LEMMA RecoveryTyped ==
  ASSUME StoreTypeOK, NEW ops \in SUBSET OpId, ops \subseteq InStatus({"sending"})
  PROVE  SetStatus(ops, "unknown") \in [OpId -> Operation \cup {Absent}]
<1>1. \A o \in ops : outbox[o].status \in OpStatus
  BY DEF InStatus, OpStatus
<1>2. QED
  BY <1>1, SetStatusType DEF StoreTypeOK, OpStatus

LEMMA RecoverTyped ==
  ASSUME StoreTypeOK, RecoverOrphans
  PROVE  StoreTypeOK'
<1>1. SetStatus(Orphans, "unknown") \in [OpId -> Operation \cup {Absent}]
  BY RecoveryTyped DEF Orphans, InStatus
<1>2. QED
  BY <1>1 DEF RecoverOrphans, Recovered, RecoveredConn, StoreTypeOK, ConnStatus

(* A row that is returned or superseded keeps its type. *)
LEMMA ReturnTyped ==
  ASSUME StoreTypeOK, NEW o \in OpId, outbox[o].status = "sending", ReturnUnsent(o)
  PROVE  outbox' \in [OpId -> Operation \cup {Absent}]
<1>1. outbox[o] \in Operation
  BY RowIsOperation DEF StoreTypeOK, OpStatus
<1>2. [outbox[o] EXCEPT !.status = "superseded"] \in Operation
  BY <1>1 DEF Operation, OpStatus
<1>3. [outbox[o] EXCEPT !.status = "pending", !.owner = NoSender] \in Operation
  BY <1>1 DEF Operation, OpStatus
<1>4. QED
  BY <1>2, <1>3 DEF ReturnUnsent, StoreTypeOK

LEMMA AttemptTyped ==
  ASSUME StoreTypeOK, NEW o \in OpId, Attempt(o)
  PROVE  StoreTypeOK'
<1>1. ASSUME NEW s \in Sender, MarkSending(o, s)
      PROVE  StoreTypeOK'
  <2>1. outbox[o] \in Operation
    BY <1>1, RowIsOperation DEF MarkSending, Claimable, StoreTypeOK, OpStatus
  <2>2. [outbox[o] EXCEPT !.status = "sending", !.owner = s] \in Operation
    BY <2>1 DEF Operation, OpStatus
  <2>3. QED
    BY <1>1, <2>2 DEF MarkSending, StoreTypeOK
<1>2. CASE SupersedeUnsent(o)
  <2>1. outbox' \in [OpId -> Operation \cup {Absent}]
    BY <1>2, ReturnTyped DEF SupersedeUnsent, ReturnUnsent
  <2>2. QED
    BY <1>2, <2>1 DEF SupersedeUnsent, StoreTypeOK
<1>3. ASSUME NEW retryAfter \in BOOLEAN, PauseUnsent(o, retryAfter)
      PROVE  StoreTypeOK'
  <2>1. outbox' \in [OpId -> Operation \cup {Absent}]
    BY <1>3, ReturnTyped DEF PauseUnsent, MayPauseUnsent
  <2>2. backoff' \in BOOLEAN
    BY <1>3 DEF PauseUnsent, StoreTypeOK
  <2>3. QED
    BY <1>3, <2>1, <2>2 DEF PauseUnsent, StoreTypeOK, ConnStatus
<1>4. CASE DeferUnsent(o)
  <2>1. outbox' \in [OpId -> Operation \cup {Absent}]
    BY <1>4, ReturnTyped DEF DeferUnsent, MayDefer
  <2>2. QED
    BY <1>4, <2>1 DEF DeferUnsent, StoreTypeOK
<1>5. ASSUME NEW remote \in TaskFields, MergePreflight(o, remote)
      PROVE  StoreTypeOK'
  <2> DEFINE t == outbox[o].task
             merged == Merged(outbox[o].baseline, outbox[o].desired, remote)
  <2>1. outbox[o] \in Operation
    BY <1>5, RowIsOperation
    DEF MergePreflight, Rebasable, CanDispatch, StoreTypeOK, OpStatus
  <2>2. t \in Task /\ merged \in TaskFields
    BY <2>1, MergedFields DEF Operation
  <2>3. [outbox[o] EXCEPT !.baseline = remote, !.desired = merged] \in Operation
    BY <2>1, <2>2 DEF Operation
  <2>4. [mapping[t] EXCEPT !.baseline = remote] \in Mapping
    BY <2>2 DEF StoreTypeOK, Mapping
  <2>5. QED
    BY <1>5, <2>2, <2>3, <2>4 DEF MergePreflight, StoreTypeOK
<1>6. CASE MarkUnknown(o)
  <2>1. outbox[o] \in Operation
    BY <1>6, RowIsOperation DEF MarkUnknown, StoreTypeOK, OpStatus
  <2>2. [outbox[o] EXCEPT !.status = "unknown"] \in Operation
    BY <2>1 DEF Operation, OpStatus
  <2>3. QED
    BY <1>6, <2>2 DEF MarkUnknown, StoreTypeOK, ConnStatus
<1>7. ASSUME NEW copy \in Copy, NEW readBack \in TaskFields, Confirm(o, copy, readBack)
      PROVE  StoreTypeOK'
  <2>1. outbox[o] \in Operation
    BY <1>7, RowIsOperation DEF Confirm, Confirmable, StoreTypeOK, OpStatus
  <2>2. Settled(o, readBack) \in [OpId -> Operation \cup {Absent}]
    BY <2>1, SettledType
  <2>3. [state |-> "active", copy |-> copy, baseline |-> readBack] \in Mapping
    BY DEF Mapping
  <2>4. outbox[o].task \in Task
    BY <2>1 DEF Operation
  <2>5. QED
    BY <1>7, <2>2, <2>3, <2>4 DEF Confirm, StoreTypeOK
<1>8. ASSUME NEW readBack \in TaskFields, ConfirmDiffers(o, readBack)
      PROVE  StoreTypeOK'
  <2>1. outbox[o] \in Operation
    BY <1>8, RowIsOperation DEF ConfirmDiffers, StoreTypeOK, OpStatus
  <2>2. \A status \in OpStatus : [outbox[o] EXCEPT !.status = status] \in Operation
    BY <2>1 DEF Operation
  <2>3. QED
    BY <1>8, <2>2 DEF ConfirmDiffers, StoreTypeOK, ConnStatus, OpStatus
<1>9. QED
  BY <1>1, <1>2, <1>3, <1>4, <1>5, <1>6, <1>7, <1>8 DEF Attempt

(* A replacement imports rows of the backup, or records them.              *)
LEMMA ReplaceTyped ==
  ASSUME StoreTypeOK, ReplaceAllData
  PROVE  StoreTypeOK'
<1> DEFINE Rows == [OpId -> Operation \cup {Absent}]
<1>1. /\ backup.task \in [Task -> TaskFields \cup {NoFields}]
      /\ backup.mapping \in [Task -> Mapping]
      /\ backup.outbox \in Rows /\ backup.quarantine \in Rows
  BY DEF StoreTypeOK, Archive
<1>2. ImportedIntents \in Rows /\ LocalSends \in Rows
  BY <1>1, WithStatusType DEF ImportedIntents, LocalSends, StoreTypeOK
<1>3. Kept(quarantine, LocalSends) \in Rows
  BY <1>2, KeptType DEF StoreTypeOK
<1>4. Recorded \in Rows
  BY <1>1, <1>3, KeptType DEF Recorded
<1>5. quarantine' \in Rows
  BY <1>2, <1>4, KeptType DEF ReplaceAllData
<1>6. outbox' \in Rows
  <2> DEFINE row(o) == [ImportedIntents[o] EXCEPT !.status = "quarantined"]
  <2>1. ASSUME NEW o \in OpId, ImportedIntents[o] # Absent
        PROVE  row(o) \in Operation
    <3>1. ImportedIntents[o] \in Operation
      BY <1>2, <2>1
    <3>2. QED
      BY <3>1 DEF Operation, OpStatus
  <2>2. outbox' = [o \in OpId |-> IF ImportedIntents[o] # Absent THEN row(o)
                                                              ELSE backup.outbox[o]]
    BY DEF ReplaceAllData
  <2> HIDE DEF row
  <2>3. QED
    BY <1>1, <2>1, <2>2
<1>7. conn' \in ConnStatus /\ backoff' \in BOOLEAN /\ epoch' \in Nat
  BY DEF ReplaceAllData, ConnStatus, StoreTypeOK
<1>8. QED
  BY <1>1, <1>5, <1>6, <1>7 DEF ReplaceAllData, StoreTypeOK

LEMMA FenceTyped ==
  ASSUME StoreTypeOK, Fence
  PROVE  StoreTypeOK'
<1>1. CASE Pause \/ Resume \/ Disconnect \/ CredentialChanged \/ Reconnect
             \/ PauseForRestore
  BY <1>1 DEF Pause, Resume, Disconnect, CredentialChanged, Reconnect,
              PauseForRestore, SetConn, StoreTypeOK, ConnStatus
<1>2. CASE DeadlinePasses
  BY <1>2 DEF DeadlinePasses, StoreTypeOK
<1>3. CASE ReplaceAllData
  BY <1>3, ReplaceTyped
<1>4. CASE Export
  <2>1. backup' \in Archive
    BY <1>4 DEF Export, StoreTypeOK, Archive
  <2>2. QED
    BY <1>4, <2>1 DEF Export, StoreTypeOK
<1>5. QED
  BY <1>1, <1>2, <1>3, <1>4 DEF Fence

LEMMA InstanceTyped ==
  ASSUME StoreTypeOK, NEW s \in Sender, Instance(s)
  PROVE  StoreTypeOK'
<1>1. CASE OpenStore(s)
  <2>1. SetStatus(Orphans, "unknown") \in [OpId -> Operation \cup {Absent}]
    BY RecoveryTyped DEF Orphans, InStatus
  <2>2. QED
    BY <1>1, <2>1 DEF OpenStore, Recovered, RecoveredConn, StoreTypeOK, ConnStatus
<1>2. CASE CloseStore(s)
  <2> DEFINE left == {o \in InStatus({"sending"}) : outbox[o].owner \notin live \ {s}}
  <2>1. SetStatus(left, "unknown") \in [OpId -> Operation \cup {Absent}]
    BY RecoveryTyped DEF InStatus
  <2>2. QED
    BY <1>2, <2>1 DEF CloseStore, StoreTypeOK, ConnStatus
<1>3. CASE CrashStore(s)
  BY <1>3 DEF CrashStore, StoreTypeOK
<1>4. QED
  BY <1>1, <1>2, <1>3 DEF Instance

(* Whatever transactions are called in whatever order, the rows of the     *)
(* store keep their types (the transactions of SQLitePlannerStore).        *)
THEOREM StoreTyped == StoreSpec => []StoreTypeOK
<1>1. StoreTypeOK /\ [StoreNext]_storeVars => StoreTypeOK'
  <2> SUFFICES ASSUME StoreTypeOK, [StoreNext]_storeVars
               PROVE  StoreTypeOK'
    OBVIOUS
  <2>1. CASE UNCHANGED storeVars
    BY <2>1 DEF storeVars, StoreTypeOK
  <2>2. QED
    BY <2>1, LocalWriteTyped, RecoverTyped, AttemptTyped, FenceTyped, InstanceTyped
    DEF StoreNext
<1>2. QED
  BY InitTyped, <1>1, PTL DEF StoreSpec

----------------------------------------------------------------------------
(* Live intents and open writes.  Types are the only strengthening that    *)
(* either invariant needs: they make every row with a status an operation, *)
(* so that a change of status leaves its task and dataset alone.           *)

LiveStatus == {"pending", "sending", "unknown"}
OpenWrite  == {"sending", "unknown"}

(* Rows that come to live belong to the current dataset. *)
StaysCurrent(rows) ==
  \A o \in OpId :
    rows[o].status \in LiveStatus =>
      \/ rows[o].epoch = epoch
      \/ outbox[o].status \in LiveStatus /\ rows[o].epoch = outbox[o].epoch

(* No row becomes an open write. *)
OpensNone(rows) ==
  \A o \in OpId :
    rows[o].status \in OpenWrite =>
      outbox[o].status \in OpenWrite /\ rows[o].task = outbox[o].task

LEMMA CurrentKept ==
  ASSUME LiveOpsCurrentEpoch, StaysCurrent(outbox'), epoch' = epoch
  PROVE  LiveOpsCurrentEpoch'
  BY DEF LiveOpsCurrentEpoch, InStatus, StaysCurrent, LiveStatus

LEMMA SingleKept ==
  ASSUME SingleInFlight, OpensNone(outbox')
  PROVE  SingleInFlight'
  BY DEF SingleInFlight, InStatus, OpensNone, OpenWrite

(* Rows that nothing changes. *)
LEMMA SameRows ==
  ASSUME outbox' = outbox
  PROVE  StaysCurrent(outbox') /\ OpensNone(outbox')
  BY DEF StaysCurrent, OpensNone

(* One row of an open write changes, but neither its task nor its dataset. *)
LEMMA OneRow ==
  ASSUME NEW o \in OpId, outbox[o].status \in OpenWrite,
         \A p \in OpId \ {o} : outbox'[p] = outbox[p],
         outbox'[o].task = outbox[o].task, outbox'[o].epoch = outbox[o].epoch
  PROVE  StaysCurrent(outbox') /\ OpensNone(outbox')
  BY DEF StaysCurrent, OpensNone, LiveStatus, OpenWrite

(* Recovery turns open writes into open writes. *)
LEMMA RecoveredRows ==
  ASSUME StoreTypeOK, NEW ops \in SUBSET OpId, ops \subseteq InStatus({"sending"}),
         outbox' = SetStatus(ops, "unknown")
  PROVE  StaysCurrent(outbox') /\ OpensNone(outbox')
<1>1. ASSUME NEW o \in ops
      PROVE  /\ outbox[o].status \in OpenWrite
             /\ outbox'[o].task = outbox[o].task /\ outbox'[o].epoch = outbox[o].epoch
  <2>1. outbox[o].status = "sending"
    BY <1>1 DEF InStatus
  <2>2. outbox[o] \in Operation
    BY <2>1, RowIsOperation DEF StoreTypeOK, OpStatus
  <2>3. outbox'[o] = [outbox[o] EXCEPT !.status = "unknown"]
    BY <1>1 DEF SetStatus
  <2>4. QED
    BY <2>1, <2>2, <2>3 DEF Operation, OpenWrite
<1>2. \A o \in OpId \ ops : outbox'[o] = outbox[o]
  BY DEF SetStatus
<1>3. QED
  BY <1>1, <1>2 DEF StaysCurrent, OpensNone, LiveStatus, OpenWrite

(* Enqueueing adds a waiting row of the current dataset. *)
LEMMA EnqueuedRows ==
  ASSUME StoreTypeOK, NEW t \in Task, NEW desired, NEW baseline,
         outbox' = Enqueued(t, desired, baseline)
  PROVE  StaysCurrent(outbox') /\ OpensNone(outbox')
<1>1. ASSUME NEW o \in OpId
      PROVE  \/ outbox'[o].status = "pending" /\ outbox'[o].epoch = epoch
             \/ outbox'[o].status = "superseded"
             \/ outbox'[o] = outbox[o]
  <2>1. CASE o = nextOp + 1
    BY <2>1 DEF Enqueued
  <2>2. CASE o # nextOp + 1 /\ o \in OpsOf(t, {"pending"})
    <3>1. outbox[o] \in Operation
      BY <2>2, RowIsOperation DEF OpsOf, StoreTypeOK, OpStatus
    <3>2. outbox'[o] = [outbox[o] EXCEPT !.status = "superseded"]
      BY <2>2 DEF Enqueued
    <3>3. QED
      BY <3>1, <3>2 DEF Operation
  <2>3. CASE o # nextOp + 1 /\ o \notin OpsOf(t, {"pending"})
    BY <2>3 DEF Enqueued
  <2>4. QED
    BY <2>1, <2>2, <2>3
<1>2. QED
  BY <1>1 DEF StaysCurrent, OpensNone, LiveStatus, OpenWrite

(* A confirmation closes one write and leaves the waiting rows waiting or  *)
(* settled.                                                                *)
LEMMA SettledRows ==
  ASSUME StoreTypeOK, NEW o \in OpId, outbox[o] \in Operation, NEW readBack,
         outbox' = Settled(o, readBack)
  PROVE  StaysCurrent(outbox') /\ OpensNone(outbox')
<1>1. ASSUME NEW p \in OpId
      PROVE  \/ outbox'[p].status = "confirmed"
             \/ /\ outbox[p].status = "pending" /\ outbox'[p].status = "pending"
                /\ outbox'[p].epoch = outbox[p].epoch
             \/ outbox'[p] = outbox[p]
  <2>1. CASE p = o
    BY <2>1 DEF Settled, Operation
  <2>2. CASE p # o /\ p \in OpsOf(outbox[o].task, {"pending"})
    <3>1. outbox[p].status = "pending" /\ outbox[p] \in Operation
      BY <2>2, RowIsOperation DEF OpsOf, StoreTypeOK, OpStatus
    <3>2. outbox'[p] = [outbox[p] EXCEPT !.baseline = readBack,
                          !.status = IF outbox[p].desired = readBack
                                       THEN "confirmed" ELSE "pending"]
      BY <2>2 DEF Settled
    <3>3. QED
      BY <3>1, <3>2 DEF Operation
  <2>3. CASE p # o /\ p \notin OpsOf(outbox[o].task, {"pending"})
    BY <2>3 DEF Settled
  <2>4. QED
    BY <2>1, <2>2, <2>3
<1>2. QED
  BY <1>1 DEF StaysCurrent, OpensNone, LiveStatus, OpenWrite

(* Nothing in an imported outbox is live. *)
LEMMA ReplacedRows ==
  ASSUME StoreTypeOK, ReplaceAllData
  PROVE  \A o \in OpId : outbox'[o].status \notin LiveStatus
<1> SUFFICES ASSUME NEW o \in OpId
             PROVE  outbox'[o].status \notin LiveStatus
  OBVIOUS
<1>1. backup.outbox[o] \in Operation \cup {Absent}
  BY DEF StoreTypeOK, Archive
<1>2. CASE backup.outbox[o].status \in Unresolved
  <2>1. backup.outbox[o] \in Operation /\ backup.outbox[o] # Absent
    BY <1>1, <1>2, RowIsOperation DEF Unresolved, OpStatus, Absent
  <2>2. ImportedIntents[o] = backup.outbox[o]
    BY <1>2 DEF ImportedIntents, WithStatus
  <2>3. outbox'[o] = [backup.outbox[o] EXCEPT !.status = "quarantined"]
    BY <2>1, <2>2 DEF ReplaceAllData
  <2>4. QED
    BY <2>1, <2>3 DEF Operation, LiveStatus
<1>3. CASE backup.outbox[o].status \notin Unresolved
  <2>1. outbox'[o] = backup.outbox[o]
    BY <1>3 DEF ReplaceAllData, ImportedIntents, WithStatus
  <2>2. QED
    BY <1>3, <2>1 DEF Unresolved, LiveStatus
<1>4. QED
  BY <1>2, <1>3

(* A claim opens the only write of a task that has none. *)
LEMMA ClaimSafe ==
  ASSUME StoreTypeOK, LiveOpsCurrentEpoch, SingleInFlight,
         NEW o \in OpId, NEW s \in Sender, MarkSending(o, s)
  PROVE  LiveOpsCurrentEpoch' /\ SingleInFlight'
<1>1. outbox[o] \in Operation
  BY RowIsOperation DEF MarkSending, Claimable, StoreTypeOK, OpStatus
<1>2. outbox' = [outbox EXCEPT ![o] =
                   [outbox[o] EXCEPT !.status = "sending", !.owner = s]]
  BY DEF MarkSending
<1>3. /\ outbox'[o].task = outbox[o].task /\ outbox'[o].epoch = outbox[o].epoch
      /\ outbox'[o].status = "sending"
  BY <1>1, <1>2 DEF StoreTypeOK, Operation
<1>4. \A p \in OpId \ {o} : outbox'[p] = outbox[p]
  BY <1>2 DEF StoreTypeOK
<1>5. \A p \in OpId : outbox[p].status \in OpenWrite => outbox[p].task # outbox[o].task
  BY DEF MarkSending, Claimable, OpsOf, OpenWrite
<1>6. LiveOpsCurrentEpoch'
  <2>1. outbox[o].epoch = epoch /\ epoch' = epoch
    BY DEF MarkSending, Claimable
  <2>2. QED
    BY <1>3, <1>4, <2>1 DEF LiveOpsCurrentEpoch, InStatus
<1>7. SingleInFlight'
  BY <1>3, <1>4, <1>5 DEF SingleInFlight, InStatus, OpenWrite
<1>8. QED
  BY <1>6, <1>7

(* Every other transaction of an attempt brings no row to life and opens   *)
(* no write.                                                               *)
LEMMA AttemptRows ==
  ASSUME StoreTypeOK, NEW o \in OpId, Attempt(o),
         ~ \E s \in Sender : MarkSending(o, s)
  PROVE  StaysCurrent(outbox') /\ OpensNone(outbox') /\ epoch' = epoch
<1> DEFINE Goal == StaysCurrent(outbox') /\ OpensNone(outbox') /\ epoch' = epoch
<1>1. ASSUME outbox[o].status = "sending", ReturnUnsent(o)
      PROVE  StaysCurrent(outbox') /\ OpensNone(outbox')
  <2>1. outbox[o] \in Operation
    BY <1>1, RowIsOperation DEF StoreTypeOK, OpStatus
  <2>2. \A p \in OpId \ {o} : outbox'[p] = outbox[p]
    BY <1>1 DEF ReturnUnsent, StoreTypeOK
  <2>3. outbox'[o].task = outbox[o].task /\ outbox'[o].epoch = outbox[o].epoch
    <3>1. \/ outbox'[o] = [outbox[o] EXCEPT !.status = "superseded"]
          \/ outbox'[o] = [outbox[o] EXCEPT !.status = "pending", !.owner = NoSender]
      BY <1>1 DEF ReturnUnsent, StoreTypeOK
    <3>2. QED
      BY <2>1, <3>1 DEF Operation
  <2>4. QED
    BY <1>1, <2>2, <2>3, OneRow DEF OpenWrite
<1>2. CASE SupersedeUnsent(o)
  BY <1>1, <1>2 DEF SupersedeUnsent, ReturnUnsent
<1>3. ASSUME NEW retryAfter \in BOOLEAN, PauseUnsent(o, retryAfter)
      PROVE  Goal
  BY <1>1, <1>3 DEF PauseUnsent, MayPauseUnsent
<1>4. CASE DeferUnsent(o)
  BY <1>1, <1>4 DEF DeferUnsent, MayDefer
<1>5. ASSUME NEW remote \in TaskFields, MergePreflight(o, remote)
      PROVE  Goal
  <2> DEFINE merged == Merged(outbox[o].baseline, outbox[o].desired, remote)
             row == [outbox[o] EXCEPT !.baseline = remote, !.desired = merged]
  <2>1. outbox[o].status = "sending"
    BY <1>5 DEF MergePreflight, Rebasable, CanDispatch
  <2>2. outbox[o] \in Operation
    BY <2>1, RowIsOperation DEF StoreTypeOK, OpStatus
  <2>3. /\ outbox'[o] = row /\ \A p \in OpId \ {o} : outbox'[p] = outbox[p]
        /\ epoch' = epoch
    BY <1>5 DEF MergePreflight, StoreTypeOK
  <2>4. row.task = outbox[o].task /\ row.epoch = outbox[o].epoch
    BY <2>2 DEF Operation
  <2> HIDE DEF row
  <2>5. QED
    BY <2>1, <2>3, <2>4, OneRow DEF OpenWrite
<1>6. CASE MarkUnknown(o)
  <2> DEFINE row == [outbox[o] EXCEPT !.status = "unknown"]
  <2>1. outbox[o].status = "sending"
    BY <1>6 DEF MarkUnknown
  <2>2. outbox[o] \in Operation
    BY <2>1, RowIsOperation DEF StoreTypeOK, OpStatus
  <2>3. /\ outbox'[o] = row /\ \A p \in OpId \ {o} : outbox'[p] = outbox[p]
        /\ epoch' = epoch
    BY <1>6 DEF MarkUnknown, StoreTypeOK
  <2>4. row.task = outbox[o].task /\ row.epoch = outbox[o].epoch
    BY <2>2 DEF Operation
  <2> HIDE DEF row
  <2>5. QED
    BY <2>1, <2>3, <2>4, OneRow DEF OpenWrite
<1>7. ASSUME NEW copy \in Copy, NEW readBack \in TaskFields, Confirm(o, copy, readBack)
      PROVE  Goal
  <2>1. outbox[o] \in Operation
    BY <1>7, RowIsOperation DEF Confirm, Confirmable, StoreTypeOK, OpStatus
  <2>2. QED
    BY <1>7, <2>1, SettledRows DEF Confirm
<1>8. ASSUME NEW readBack \in TaskFields, ConfirmDiffers(o, readBack)
      PROVE  Goal
  <2> DEFINE status == IF outbox[o].epoch # epoch THEN "quarantined" ELSE "unknown"
             row == [outbox[o] EXCEPT !.status = status]
  <2>1. outbox[o].status \in OpenWrite
    BY <1>8 DEF ConfirmDiffers, OpenWrite
  <2>2. outbox[o] \in Operation
    BY <2>1, RowIsOperation DEF StoreTypeOK, OpStatus, OpenWrite
  <2>3. /\ outbox'[o] = row /\ \A p \in OpId \ {o} : outbox'[p] = outbox[p]
        /\ epoch' = epoch
    BY <1>8 DEF ConfirmDiffers, StoreTypeOK
  <2>4. row.task = outbox[o].task /\ row.epoch = outbox[o].epoch
    BY <2>2 DEF Operation
  <2> HIDE DEF row
  <2>5. QED
    BY <2>1, <2>3, <2>4, OneRow
<1>9. QED
  BY <1>2, <1>3, <1>4, <1>5, <1>6, <1>7, <1>8 DEF Attempt

(* So do local writes, recoveries, openings, closings and fences.          *)
LEMMA OtherRows ==
  ASSUME StoreTypeOK,
         \/ \E t \in Task, new \in TaskFields : LocalWrite(t, new)
         \/ RecoverOrphans
         \/ Fence /\ ~ReplaceAllData
         \/ \E s \in Sender : Instance(s)
  PROVE  StaysCurrent(outbox') /\ OpensNone(outbox') /\ epoch' = epoch
<1> DEFINE Goal == StaysCurrent(outbox') /\ OpensNone(outbox') /\ epoch' = epoch
<1>1. ASSUME NEW t \in Task, NEW new \in TaskFields, LocalWrite(t, new)
      PROVE  Goal
  <2>1. CASE WriteLinkedTask(t, new)
    BY <2>1, EnqueuedRows DEF WriteLinkedTask
  <2>2. CASE CreateLinkedTask(t, new)
    BY <2>2, EnqueuedRows DEF CreateLinkedTask
  <2>3. CASE WriteLocalTask(t, new)
    BY <2>3, SameRows DEF WriteLocalTask
  <2>4. QED
    BY <1>1, <2>1, <2>2, <2>3 DEF LocalWrite
<1>2. CASE RecoverOrphans
  BY <1>2, RecoveredRows DEF RecoverOrphans, Recovered, Orphans, InStatus
<1>3. CASE Fence /\ ~ReplaceAllData
  BY <1>3, SameRows DEF Fence, Pause, Resume, Disconnect, CredentialChanged, Reconnect,
                        DeadlinePasses, PauseForRestore, Export, SetConn
<1>4. ASSUME NEW s \in Sender, Instance(s)
      PROVE  Goal
  <2>1. CASE OpenStore(s)
    BY <2>1, RecoveredRows DEF OpenStore, Recovered, Orphans, InStatus
  <2>2. CASE CloseStore(s)
    BY <2>2, RecoveredRows DEF CloseStore, InStatus
  <2>3. CASE CrashStore(s)
    BY <2>3, SameRows DEF CrashStore
  <2>4. QED
    BY <1>4, <2>1, <2>2, <2>3 DEF Instance
<1>5. QED
  BY <1>1, <1>2, <1>3, <1>4

StoreSafe == StoreTypeOK /\ LiveOpsCurrentEpoch /\ SingleInFlight

(* One transaction keeps the types and both properties. *)
LEMMA StoreStep ==
  ASSUME StoreSafe, [StoreNext]_storeVars
  PROVE  StoreSafe'
<1>1. StoreTypeOK'
  BY LocalWriteTyped, RecoverTyped, AttemptTyped, FenceTyped, InstanceTyped
  DEF StoreSafe, StoreNext, storeVars, StoreTypeOK
<1>2. LiveOpsCurrentEpoch' /\ SingleInFlight'
  <2> USE DEF StoreSafe
  <2>1. CASE \E o \in OpId, s \in Sender : MarkSending(o, s)
    BY <2>1, ClaimSafe
  <2>2. CASE ReplaceAllData
    <3>1. \A o \in OpId : outbox'[o].status \notin LiveStatus
      BY <2>2, ReplacedRows
    <3>2. QED
      BY <3>1 DEF LiveOpsCurrentEpoch, SingleInFlight, InStatus, LiveStatus
  <2>3. CASE UNCHANGED storeVars
    BY <2>3, SameRows, CurrentKept, SingleKept DEF storeVars
  <2>4. CASE StoreNext /\ ~ReplaceAllData
             /\ ~ \E o \in OpId, s \in Sender : MarkSending(o, s)
    <3>1. StaysCurrent(outbox') /\ OpensNone(outbox') /\ epoch' = epoch
      BY <2>4, AttemptRows, OtherRows DEF StoreNext
    <3>2. QED
      BY <3>1, CurrentKept, SingleKept
  <2>5. QED
    BY <2>1, <2>2, <2>3, <2>4
<1>3. QED
  BY <1>1, <1>2 DEF StoreSafe

LEMMA InitSafe == StoreInit => StoreSafe
<1>1. StoreInit => \A o \in OpId : outbox[o].status = "absent"
  BY DEF StoreInit, Absent
<1>2. QED
  BY <1>1, InitTyped DEF StoreSafe, LiveOpsCurrentEpoch, SingleInFlight, InStatus

(* The inductive invariant: types and both properties together. *)
LEMMA StoreInductive == StoreSpec => []StoreSafe
<1>1. StoreInit => StoreSafe
  BY InitSafe
<1>2. StoreSafe /\ [StoreNext]_storeVars => StoreSafe'
  BY StoreStep
<1>3. QED
  BY <1>1, <1>2, PTL DEF StoreSpec

(* An intent that is waiting, or whose write may be in flight, belongs to  *)
(* the current dataset, however often the dataset is replaced and whatever *)
(* backup replaces it (replaceAllData).                                    *)
THEOREM IntentsCurrent == StoreSpec => []LiveOpsCurrentEpoch
  BY StoreInductive, PTL DEF StoreSafe

(* A task never has two writes whose outcome is open, however many         *)
(* processes claim, stop, recover and restore (markNotionOutboxSending,    *)
(* recoverOrphanedNotionSends, replaceAllData).                            *)
THEOREM OneOpenWrite == StoreSpec => []SingleInFlight
  BY StoreInductive, PTL DEF StoreSafe

----------------------------------------------------------------------------
(* What a dataset owes its linked tasks.  The backup is a dataset too: a   *)
(* replacement installs it, so each part is stated of both.                *)

(* A linked task has fields, and a link without a page has no baseline.    *)
LinksTyped(tasks, links) ==
  \A t \in Task :
    links[t].state # "none" =>
      tasks[t] \in TaskFields /\ (links[t].copy = NoCopy => links[t].baseline = NoFields)

(* A row stands for the values of a task; a quarantined one is for a person *)
(* to look at, whatever it wants.                                          *)
Owes(row, t, fields) ==
  /\ row.status \in Unresolved /\ row.task = t
  /\ row.status = "quarantined" \/ row.desired = fields

(* A linked task has such a row, or is as its page was last seen and has    *)
(* no open write that could still change the page.                         *)
Owed(tasks, links, rows) ==
  \A t \in Task :
    links[t].state # "none" =>
      \/ \E o \in OpId : Owes(rows[o], t, tasks[t])
      \/ /\ tasks[t] = links[t].baseline
         /\ \A o \in OpId : rows[o].status \in OpenWrite => rows[o].task # t

(* While a claim stands, nothing is in quarantine and the link exists.     *)
SendsAlone ==
  \A o \in InStatus({"sending"}) :
    /\ NoQuarantine
    /\ OpsOf(outbox[o].task, {"quarantined"}) = {}
    /\ mapping[outbox[o].task].state # "none"

(* No row, here or in the backup, has an identifier that is yet to come.   *)
RowsEnqueued ==
  \A o \in OpId :
    o > nextOp => /\ outbox[o] = Absent /\ quarantine[o] = Absent
                  /\ backup.outbox[o] = Absent /\ backup.quarantine[o] = Absent

StoreKept ==
  /\ LinksTyped(task, mapping) /\ LinksTyped(backup.task, backup.mapping)
  /\ Owed(task, mapping, outbox) /\ Owed(backup.task, backup.mapping, backup.outbox)
  /\ SendsAlone /\ RowsEnqueued

(* Every row that stood for the values of a task has a successor.          *)
Succeeded(rows) ==
  \A t \in Task : \A o \in OpId :
    Owes(outbox[o], t, task[t]) => \E p \in OpId : Owes(rows[p], t, task[t])

(* Tasks and links stay, and so does what is owed.                         *)
LEMMA OwedKept ==
  ASSUME Owed(task, mapping, outbox), UNCHANGED <<task, mapping>>,
         Succeeded(outbox'), OpensNone(outbox')
  PROVE  Owed(task, mapping, outbox)'
<1> SUFFICES ASSUME NEW t \in Task, mapping[t].state # "none",
                    ~ \E o \in OpId : Owes(outbox'[o], t, task[t])
             PROVE  /\ task[t] = mapping[t].baseline
                    /\ \A o \in OpId : outbox'[o].status \in OpenWrite
                                          => outbox'[o].task # t
  BY DEF Owed, Owes
<1>1. ~ \E o \in OpId : Owes(outbox[o], t, task[t])
  BY DEF Succeeded
<1>2. QED
  BY <1>1 DEF Owed, OpensNone

(* A change of the status of one row that stays unresolved. *)
LEMMA RowsSucceed ==
  ASSUME \A o \in OpId : \/ outbox'[o] = outbox[o]
                         \/ /\ outbox'[o].task = outbox[o].task
                            /\ outbox'[o].desired = outbox[o].desired
                            /\ outbox'[o].status \in Unresolved \ {"quarantined"}
                            /\ outbox[o].status # "quarantined"
  PROVE  Succeeded(outbox')
  BY DEF Succeeded, Owes

LEMMA RecoveredSucceed ==
  ASSUME StoreTypeOK, NEW ops, ops \subseteq InStatus({"sending"}),
         outbox' = SetStatus(ops, "unknown")
  PROVE  Succeeded(outbox')
<1>1. ASSUME NEW o \in OpId, o \in ops
      PROVE  /\ outbox'[o].task = outbox[o].task
             /\ outbox'[o].desired = outbox[o].desired
             /\ outbox'[o].status = "unknown" /\ outbox[o].status = "sending"
  <2>1. outbox[o].status = "sending"
    BY <1>1 DEF InStatus
  <2>2. outbox[o] \in Operation
    BY <2>1, RowIsOperation DEF StoreTypeOK, OpStatus
  <2>3. outbox'[o] = [outbox[o] EXCEPT !.status = "unknown"]
    BY <1>1 DEF SetStatus
  <2>4. QED
    BY <2>1, <2>2, <2>3 DEF Operation
<1>2. \A o \in OpId : o \notin ops => outbox'[o] = outbox[o]
  BY DEF SetStatus
<1>3. QED
  BY <1>1, <1>2, RowsSucceed DEF Unresolved

(* An attempt that gives way leaves the newer intent, which says what the  *)
(* task says; one that waits again still stands for it.                    *)
LEMMA ReturnSucceed ==
  ASSUME StoreTypeOK, NEW o \in OpId, outbox[o].status = "sending", ReturnUnsent(o)
  PROVE  Succeeded(outbox')
<1>1. outbox[o] \in Operation
  BY RowIsOperation DEF StoreTypeOK, OpStatus
<1>2. \A p \in OpId \ {o} : outbox'[p] = outbox[p]
  BY DEF ReturnUnsent, StoreTypeOK
<1>3. CASE NewerReplaces(o)
  <2>1. PICK n \in Newer(o) : MatchesTask(outbox[n])
    BY <1>3 DEF NewerReplaces
  <2>2. /\ n \in OpId /\ n # o /\ outbox[n].status = "pending"
        /\ outbox[n].task = outbox[o].task /\ outbox[n].desired = task[outbox[o].task]
    BY <2>1 DEF Newer, OpsOf, MatchesTask
  <2>3. Owes(outbox'[n], outbox[o].task, task[outbox[o].task])
    BY <1>2, <2>2 DEF Owes, Unresolved
  <2>4. \A t \in Task, p \in OpId :
          Owes(outbox[p], t, task[t]) => p # o \/ t = outbox[o].task
    BY DEF Owes
  <2>5. ASSUME NEW t \in Task, NEW p \in OpId, Owes(outbox[p], t, task[t])
        PROVE  \E q \in OpId : Owes(outbox'[q], t, task[t])
    <3>1. CASE p # o
      BY <1>2, <2>5, <3>1
    <3>2. CASE p = o
      BY <2>2, <2>3, <2>4, <2>5, <3>2
    <3>3. QED
      BY <3>1, <3>2
  <2>6. QED
    BY <2>5 DEF Succeeded
<1>4. CASE ~NewerReplaces(o)
  <2>1. outbox'[o] = [outbox[o] EXCEPT !.status = "pending", !.owner = NoSender]
    BY <1>4 DEF ReturnUnsent, StoreTypeOK
  <2>2. /\ outbox'[o].task = outbox[o].task /\ outbox'[o].desired = outbox[o].desired
        /\ outbox'[o].status = "pending"
    BY <1>1, <2>1 DEF Operation
  <2>3. QED
    BY <1>2, <2>2, RowsSucceed DEF Unresolved
<1>5. QED
  BY <1>3, <1>4

(* Local writes: the newest intent says what the task says.                *)
LEMMA EnqueuedOwed ==
  ASSUME StoreTypeOK, NEW t \in Task, NEW new \in TaskFields,
         NEW baseline, Owed(task, mapping, outbox), RowsEnqueued, nextOp < MaxOps,
         task' = [task EXCEPT ![t] = new],
         \A u \in Task \ {t} : mapping'[u] = mapping[u],
         outbox' = Enqueued(t, new, baseline)
  PROVE  Owed(task, mapping, outbox)'
<1> DEFINE n == nextOp + 1
<1>1. n \in OpId
  BY BoundsAssumption DEF StoreTypeOK, OpId
<1>2. outbox[n] = Absent
  BY <1>1 DEF RowsEnqueued, StoreTypeOK
<1>3. outbox'[n].status = "pending" /\ outbox'[n].task = t /\ outbox'[n].desired = new
  BY <1>1 DEF Enqueued
<1>4. Owes(outbox'[n], t, task'[t])
  BY <1>3 DEF Owes, Unresolved, StoreTypeOK
<1> HIDE DEF n
<1>5. ASSUME NEW u \in Task, u # t, NEW o \in OpId,
             outbox[o].status \in Unresolved, outbox[o].task = u
      PROVE  outbox'[o] = outbox[o]
  <2>1. o # n
    BY <1>2, <1>5 DEF Absent, Unresolved
  <2>2. QED
    BY <1>5, <2>1 DEF Enqueued, OpsOf, n
<1>6. ASSUME NEW o \in OpId
      PROVE  outbox'[o].status \in OpenWrite
               => outbox[o].status \in OpenWrite /\ outbox'[o].task = outbox[o].task
  BY EnqueuedRows DEF OpensNone
<1>7. ASSUME NEW u \in Task, u # t, mapping'[u].state # "none"
      PROVE  \/ \E o \in OpId : Owes(outbox'[o], u, task'[u])
             \/ /\ task'[u] = mapping'[u].baseline
                /\ \A o \in OpId : outbox'[o].status \in OpenWrite
                                      => outbox'[o].task # u
  <2>1. task'[u] = task[u] /\ mapping'[u] = mapping[u]
    BY <1>7 DEF StoreTypeOK
  <2>2. QED
    BY <1>5, <1>6, <1>7, <2>1 DEF Owed, Owes
<1>8. QED
  BY <1>1, <1>4, <1>7 DEF Owed

(* What a transaction other than a claim or a replacement does to rows: a  *)
(* live row changes within its task, or the next identifier is enqueued.   *)
Moved(rows) ==
  \A o \in OpId :
    \/ rows[o] = outbox[o]
    \/ /\ outbox[o].status \in LiveStatus
       /\ rows[o].status \in OpStatus \ {"quarantined"}
       /\ rows[o].status = "sending" => outbox[o].status = "sending"
       /\ rows[o].task = outbox[o].task
    \/ o = nextOp + 1 /\ nextOp' = nextOp + 1 /\ rows[o].status = "pending"

LEMMA SendsKept ==
  ASSUME StoreTypeOK, SendsAlone, Moved(outbox'), quarantine' = quarantine,
         \A t \in Task : mapping[t].state # "none" => mapping'[t].state # "none"
  PROVE  SendsAlone'
<1> SUFFICES ASSUME NEW o \in OpId, outbox'[o].status = "sending"
             PROVE  /\ NoQuarantine'
                    /\ \A p \in OpId : outbox'[p].status = "quarantined"
                                          => outbox'[p].task # outbox'[o].task
                    /\ mapping'[outbox'[o].task].state # "none"
  BY DEF SendsAlone, InStatus, OpsOf
<1>1. outbox[o].status = "sending" /\ outbox'[o].task = outbox[o].task
  BY DEF Moved
<1>2. outbox[o] \in Operation
  BY <1>1, RowIsOperation DEF StoreTypeOK, OpStatus
<1>3. outbox[o].task \in Task
  BY <1>2 DEF Operation
<1>4. \A p \in OpId : outbox'[p].status = "quarantined" => outbox'[p] = outbox[p]
  BY DEF Moved
<1>5. /\ NoQuarantine /\ mapping[outbox[o].task].state # "none"
      /\ \A p \in OpId : outbox[p].status = "quarantined" => outbox[p].task # outbox[o].task
  BY <1>1 DEF SendsAlone, InStatus, OpsOf
<1>6. QED
  BY <1>1, <1>3, <1>4, <1>5 DEF NoQuarantine

LEMMA NextRowsAbsent ==
  ASSUME StoreTypeOK, RowsEnqueued, Moved(outbox'), quarantine' = quarantine,
         nextOp' \in {nextOp, nextOp + 1}, backup' = backup
  PROVE  RowsEnqueued'
<1> SUFFICES ASSUME NEW o \in OpId, o > nextOp'
             PROVE  outbox'[o] = outbox[o] /\ o > nextOp
  BY DEF RowsEnqueued
<1>1. o \in Int /\ nextOp \in Int
  BY BoundsAssumption DEF StoreTypeOK, OpId
<1>2. o > nextOp
  BY <1>1
<1>3. outbox[o].status \notin LiveStatus
  BY <1>2 DEF RowsEnqueued, Absent, LiveStatus
<1>4. QED
  BY <1>1, <1>2, <1>3 DEF Moved

LEMMA KeptIf ==
  ASSUME StoreTypeOK, StoreKept, Moved(outbox'), quarantine' = quarantine,
         nextOp' \in {nextOp, nextOp + 1}, backup' = backup,
         \A t \in Task : mapping[t].state # "none" => mapping'[t].state # "none",
         LinksTyped(task, mapping)', Owed(task, mapping, outbox)'
  PROVE  StoreKept'
  BY SendsKept, NextRowsAbsent DEF StoreKept, LinksTyped, Owed

(* Only rows change, and what they stand for is not lost. *)
LEMMA RowsOnly ==
  ASSUME StoreTypeOK, StoreKept, Moved(outbox'), Succeeded(outbox'), OpensNone(outbox'),
         UNCHANGED <<task, mapping, nextOp, quarantine, backup>>
  PROVE  StoreKept'
  BY KeptIf, OwedKept DEF StoreKept, LinksTyped

LEMMA RecoveredMoved ==
  ASSUME StoreTypeOK, NEW ops, ops \subseteq InStatus({"sending"}),
         outbox' = SetStatus(ops, "unknown")
  PROVE  Moved(outbox')
<1>1. ASSUME NEW o \in OpId, o \in ops
      PROVE  /\ outbox'[o].task = outbox[o].task /\ outbox'[o].status = "unknown"
             /\ outbox[o].status = "sending"
  <2>1. outbox[o].status = "sending"
    BY <1>1 DEF InStatus
  <2>2. outbox[o] \in Operation
    BY <2>1, RowIsOperation DEF StoreTypeOK, OpStatus
  <2>3. outbox'[o] = [outbox[o] EXCEPT !.status = "unknown"]
    BY <1>1 DEF SetStatus
  <2>4. QED
    BY <2>1, <2>2, <2>3 DEF Operation
<1>2. \A o \in OpId : o \notin ops => outbox'[o] = outbox[o]
  BY DEF SetStatus
<1>3. QED
  BY <1>1, <1>2 DEF Moved, LiveStatus, OpStatus

LEMMA EnqueuedMoved ==
  ASSUME StoreTypeOK, NEW t \in Task, NEW desired, NEW baseline,
         outbox' = Enqueued(t, desired, baseline), nextOp' = nextOp + 1
  PROVE  Moved(outbox')
<1> SUFFICES ASSUME NEW o \in OpId
             PROVE  \/ outbox'[o] = outbox[o]
                    \/ /\ outbox[o].status = "pending" /\ outbox'[o].status = "superseded"
                       /\ outbox'[o].task = outbox[o].task
                    \/ o = nextOp + 1 /\ outbox'[o].status = "pending"
  BY DEF Moved, LiveStatus, OpStatus
<1>1. CASE o = nextOp + 1
  BY <1>1 DEF Enqueued
<1>2. CASE o # nextOp + 1 /\ o \in OpsOf(t, {"pending"})
  <2>1. outbox[o] \in Operation /\ outbox[o].status = "pending"
    BY <1>2, RowIsOperation DEF OpsOf, StoreTypeOK, OpStatus
  <2>2. outbox'[o] = [outbox[o] EXCEPT !.status = "superseded"]
    BY <1>2 DEF Enqueued
  <2>3. QED
    BY <2>1, <2>2 DEF Operation
<1>3. CASE o # nextOp + 1 /\ o \notin OpsOf(t, {"pending"})
  BY <1>3 DEF Enqueued
<1>4. QED
  BY <1>1, <1>2, <1>3

LEMMA SettledMoved ==
  ASSUME StoreTypeOK, NEW o \in OpId, outbox[o] \in Operation,
         outbox[o].status \in OpenWrite, NEW readBack, outbox' = Settled(o, readBack)
  PROVE  Moved(outbox')
<1> SUFFICES ASSUME NEW p \in OpId
             PROVE  \/ outbox'[p] = outbox[p]
                    \/ /\ outbox[p].status \in LiveStatus
                       /\ outbox'[p].status \in {"pending", "confirmed"}
                       /\ outbox'[p].task = outbox[p].task
  BY DEF Moved, OpStatus
<1>1. CASE p = o
  BY <1>1 DEF Settled, Operation, OpenWrite, LiveStatus
<1>2. CASE p # o /\ p \in OpsOf(outbox[o].task, {"pending"})
  <2>1. outbox[p].status = "pending" /\ outbox[p] \in Operation
    BY <1>2, RowIsOperation DEF OpsOf, StoreTypeOK, OpStatus
  <2>2. outbox'[p] = [outbox[p] EXCEPT !.baseline = readBack,
                        !.status = IF outbox[p].desired = readBack
                                     THEN "confirmed" ELSE "pending"]
    BY <1>2 DEF Settled
  <2>3. QED
    BY <2>1, <2>2 DEF Operation, LiveStatus
<1>3. CASE p # o /\ p \notin OpsOf(outbox[o].task, {"pending"})
  BY <1>3 DEF Settled
<1>4. QED
  BY <1>1, <1>2, <1>3

LEMMA LocalWriteKept ==
  ASSUME StoreTypeOK, StoreKept, NEW t \in Task, NEW new \in TaskFields,
         LocalWrite(t, new)
  PROVE  StoreKept'
<1>1. CASE WriteLinkedTask(t, new)
  <2>1. LinksTyped(task, mapping)'
    BY <1>1 DEF WriteLinkedTask, StoreKept, LinksTyped, StoreTypeOK
  <2>2. Owed(task, mapping, outbox)'
    BY <1>1, EnqueuedOwed DEF WriteLinkedTask, StoreKept
  <2>3. Moved(outbox')
    BY <1>1, EnqueuedMoved DEF WriteLinkedTask
  <2>4. QED
    BY <1>1, <2>1, <2>2, <2>3, KeptIf DEF WriteLinkedTask
<1>2. CASE CreateLinkedTask(t, new)
  <2>1. mapping'[t].state = "pending_create" /\ mapping'[t].baseline = NoFields
    BY <1>2 DEF CreateLinkedTask, StoreTypeOK, Unlinked
  <2>2. \A u \in Task \ {t} : mapping'[u] = mapping[u] /\ task'[u] = task[u]
    BY <1>2 DEF CreateLinkedTask, StoreTypeOK
  <2>3. task'[t] = new
    BY <1>2 DEF CreateLinkedTask, StoreTypeOK
  <2>4. LinksTyped(task, mapping)'
    BY <2>1, <2>2, <2>3 DEF StoreKept, LinksTyped
  <2>5. Owed(task, mapping, outbox)'
    BY <1>2, <2>2, EnqueuedOwed DEF CreateLinkedTask, StoreKept
  <2>6. Moved(outbox')
    BY <1>2, EnqueuedMoved DEF CreateLinkedTask
  <2>7. \A u \in Task : mapping[u].state # "none" => mapping'[u].state # "none"
    BY <2>1, <2>2
  <2>8. QED
    BY <1>2, <2>4, <2>5, <2>6, <2>7, KeptIf DEF CreateLinkedTask
<1>3. CASE WriteLocalTask(t, new)
  <2>1. mapping' = mapping /\ outbox' = outbox /\ \A u \in Task \ {t} : task'[u] = task[u]
    BY <1>3 DEF WriteLocalTask, StoreTypeOK
  <2>2. LinksTyped(task, mapping)' /\ Owed(task, mapping, outbox)'
    BY <1>3, <2>1 DEF WriteLocalTask, StoreKept, LinksTyped, Owed
  <2>3. QED
    BY <1>3, <2>1, <2>2, KeptIf DEF WriteLocalTask, Moved
<1>4. QED
  BY <1>1, <1>2, <1>3 DEF LocalWrite

(* A claim needs an intent that says what the task says: from here on it   *)
(* is the attempt that the link owes its values to.                        *)
LEMMA ClaimKept ==
  ASSUME StoreTypeOK, StoreKept, NEW o \in OpId, NEW s \in Sender, MarkSending(o, s)
  PROVE  StoreKept'
<1>1. outbox[o] \in Operation /\ outbox[o].status = "pending"
  BY RowIsOperation DEF MarkSending, Claimable, StoreTypeOK, OpStatus
<1>2. \A p \in OpId \ {o} : outbox'[p] = outbox[p]
  BY DEF MarkSending, StoreTypeOK
<1>3. outbox'[o] = [outbox[o] EXCEPT !.status = "sending", !.owner = s]
  BY DEF MarkSending, StoreTypeOK
<1>4. /\ outbox'[o].status = "sending" /\ outbox'[o].task = outbox[o].task
      /\ outbox'[o].desired = outbox[o].desired
  BY <1>1, <1>3 DEF Operation
<1>5. UNCHANGED <<task, mapping, nextOp, quarantine, backup>>
  BY DEF MarkSending
<1>6. Owed(task, mapping, outbox)'
  <2> SUFFICES ASSUME NEW t \in Task, mapping[t].state # "none"
               PROVE  \/ \E p \in OpId : Owes(outbox'[p], t, task[t])
                      \/ /\ task[t] = mapping[t].baseline
                         /\ \A p \in OpId : outbox'[p].status \in OpenWrite
                                               => outbox'[p].task # t
    BY <1>5 DEF Owed, Owes
  <2>1. CASE outbox[o].task = t
    <3>1. outbox[o].desired = task[t]
      BY <2>1 DEF MarkSending, Claimable, MatchesTask
    <3>2. Owes(outbox'[o], t, task[t])
      BY <1>4, <2>1, <3>1 DEF Owes, Unresolved
    <3>3. QED
      BY <3>2
  <2>2. CASE outbox[o].task # t
    BY <1>2, <1>4, <2>2 DEF StoreKept, Owed, Owes
  <2>3. QED
    BY <2>1, <2>2
<1>7. SendsAlone'
  <2>1. ASSUME NEW p \in OpId, outbox'[p].status = "sending"
        PROVE  /\ NoQuarantine /\ mapping[outbox'[p].task].state # "none"
               /\ \A q \in OpId : outbox[q].status = "quarantined"
                                     => outbox[q].task # outbox'[p].task
    <3>1. CASE p = o
      BY <1>4, <3>1 DEF MarkSending, Claimable, OpsOf
    <3>2. CASE p # o
      BY <1>2, <2>1, <3>2 DEF StoreKept, SendsAlone, InStatus, OpsOf
    <3>3. QED
      BY <3>1, <3>2
  <2>2. \A q \in OpId : outbox'[q].status = "quarantined" => outbox'[q] = outbox[q]
    BY <1>2, <1>4
  <2>3. QED
    BY <1>5, <2>1, <2>2 DEF SendsAlone, InStatus, OpsOf, NoQuarantine
<1>8. RowsEnqueued'
  <2>1. ~ (o > nextOp)
    BY <1>1 DEF StoreKept, RowsEnqueued, Absent
  <2>2. QED
    BY <1>2, <1>5, <2>1 DEF StoreKept, RowsEnqueued
<1>9. QED
  BY <1>5, <1>6, <1>7, <1>8 DEF StoreKept, LinksTyped, Owed

(* The merge changes the task and the attempt together. *)
LEMMA MergeKept ==
  ASSUME StoreTypeOK, StoreKept, NEW o \in OpId, NEW remote \in TaskFields,
         MergePreflight(o, remote)
  PROVE  StoreKept'
<1> DEFINE t == outbox[o].task
           merged == Merged(outbox[o].baseline, outbox[o].desired, remote)
<1>1. outbox[o].status = "sending" /\ mapping[t].copy # NoCopy
  BY DEF MergePreflight, Rebasable, CanDispatch
<1>2. outbox[o] \in Operation
  BY <1>1, RowIsOperation DEF StoreTypeOK, OpStatus
<1>3. t \in Task /\ merged \in TaskFields
  BY <1>2, MergedFields DEF Operation
<1>4. outbox'[o] = [outbox[o] EXCEPT !.baseline = remote, !.desired = merged]
  BY DEF MergePreflight, StoreTypeOK
<1>5. /\ outbox'[o].status = "sending" /\ outbox'[o].task = t
      /\ outbox'[o].desired = merged
  BY <1>1, <1>2, <1>4 DEF Operation
<1>6. \A p \in OpId \ {o} : outbox'[p] = outbox[p]
  BY DEF MergePreflight, StoreTypeOK
<1>7. task' = [task EXCEPT ![t] = merged] /\ mapping' = [mapping EXCEPT ![t].baseline = remote]
  BY DEF MergePreflight
<1>8. UNCHANGED <<nextOp, quarantine, backup>>
  BY DEF MergePreflight
<1> HIDE DEF t, merged
<1>9. /\ task'[t] = merged /\ \A u \in Task \ {t} : task'[u] = task[u]
      /\ \A u \in Task \ {t} : mapping'[u] = mapping[u]
  BY <1>3, <1>7 DEF StoreTypeOK
<1>10. mapping'[t].state = mapping[t].state /\ mapping'[t].copy = mapping[t].copy
  <2>1. mapping[t] \in Mapping /\ mapping'[t] = [mapping[t] EXCEPT !.baseline = remote]
    BY <1>3, <1>7 DEF StoreTypeOK
  <2>2. QED
    BY <2>1 DEF Mapping
<1>11. LinksTyped(task, mapping)'
  BY <1>1, <1>3, <1>9, <1>10 DEF t, StoreKept, LinksTyped
<1>12. Owed(task, mapping, outbox)'
  <2>1. Owes(outbox'[o], t, task'[t])
    BY <1>5, <1>9 DEF Owes, Unresolved
  <2>2. ASSUME NEW u \in Task \ {t}, mapping'[u].state # "none"
        PROVE  \/ \E p \in OpId : Owes(outbox'[p], u, task'[u])
               \/ /\ task'[u] = mapping'[u].baseline
                  /\ \A p \in OpId : outbox'[p].status \in OpenWrite
                                        => outbox'[p].task # u
    <3>1. outbox[o].task # u
      BY DEF t
    <3>2. QED
      BY <1>5, <1>6, <1>9, <2>2, <3>1 DEF StoreKept, Owed, Owes
  <2>3. QED
    BY <2>1, <2>2 DEF Owed
<1>13. Moved(outbox')
  BY <1>1, <1>5, <1>6 DEF t, Moved, LiveStatus, OpStatus
<1>14. \A u \in Task : mapping[u].state # "none" => mapping'[u].state # "none"
  BY <1>9, <1>10
<1>15. QED
  BY <1>8, <1>11, <1>12, <1>13, <1>14, KeptIf

(* A confirmation closes the only open write of the task.  What the task   *)
(* says is then what was read back, or an intent that still waits says it. *)
LEMMA ConfirmKept ==
  ASSUME StoreTypeOK, SingleInFlight, StoreKept, NEW o \in OpId,
         NEW copy \in Copy, NEW readBack \in TaskFields, Confirm(o, copy, readBack)
  PROVE  StoreKept'
<1> DEFINE t == outbox[o].task
           link == [state |-> "active", copy |-> copy, baseline |-> readBack]
<1>1. outbox[o].status \in OpenWrite /\ mapping[t].state # "none"
  BY DEF Confirm, Confirmable, OpenWrite
<1>2. outbox[o] \in Operation
  BY <1>1, RowIsOperation DEF StoreTypeOK, OpStatus, OpenWrite
<1>3. t \in Task /\ readBack = outbox[o].desired
  BY <1>2 DEF Operation, Confirm
<1>4. mapping' = [mapping EXCEPT ![t] = link] /\ outbox' = Settled(o, readBack)
  BY DEF Confirm
<1>5. UNCHANGED <<task, nextOp, quarantine, backup>>
  BY DEF Confirm
<1>6. /\ mapping'[t].state = "active" /\ mapping'[t].copy = copy
      /\ mapping'[t].baseline = readBack
      /\ \A u \in Task \ {t} : mapping'[u] = mapping[u]
  BY <1>3, <1>4 DEF StoreTypeOK
<1>7. Moved(outbox') /\ OpensNone(outbox')
  BY <1>1, <1>2, <1>4, SettledMoved, SettledRows
<1>8. LinksTyped(task, mapping)'
  BY <1>1, <1>3, <1>5, <1>6, NoCopyAssumption DEF StoreKept, LinksTyped
<1>9. outbox'[o].status = "confirmed"
  BY <1>2, <1>4 DEF Settled, Operation
<1>10. ASSUME NEW p \in OpId, p # o, outbox[p].task = t, outbox[p].status \in Unresolved
       PROVE  \/ outbox'[p] = outbox[p]
              \/ outbox[p].status = "pending" /\ outbox[p].desired = readBack
              \/ /\ outbox'[p].status = "pending" /\ outbox'[p].task = t
                 /\ outbox'[p].desired = outbox[p].desired
                 /\ outbox[p].status # "quarantined"
  <2>1. outbox[p] \in Operation
    BY <1>10, RowIsOperation DEF StoreTypeOK, OpStatus, Unresolved
  <2>2. CASE outbox[p].status = "pending" /\ outbox[p].desired # readBack
    <3>1. outbox'[p] = [outbox[p] EXCEPT !.baseline = readBack, !.status = "pending"]
      BY <1>4, <1>10, <2>2 DEF Settled, OpsOf
    <3>2. QED
      BY <1>10, <2>1, <2>2, <3>1 DEF Operation
  <2>3. CASE outbox[p].status # "pending"
    BY <1>4, <1>10, <2>3 DEF Settled, OpsOf
  <2>4. QED
    BY <2>2, <2>3
<1>11. \A p \in OpId : outbox'[p].status \in OpenWrite => outbox'[p].task # t
  <2> SUFFICES ASSUME NEW p \in OpId, outbox'[p].status \in OpenWrite,
                      outbox'[p].task = t
               PROVE  FALSE
    OBVIOUS
  <2>1. outbox[p].status \in OpenWrite /\ outbox[p].task = t
    BY <1>7 DEF OpensNone
  <2>2. p = o
    BY <1>1, <2>1 DEF SingleInFlight, InStatus, OpenWrite
  <2>3. QED
    BY <1>9, <2>2 DEF OpenWrite
<1> HIDE DEF t, link
<1>12. Owed(task, mapping, outbox)'
  <2>1. \/ \E p \in OpId : Owes(outbox'[p], t, task[t])
        \/ task[t] = mapping'[t].baseline
    <3>1. PICK p \in OpId : Owes(outbox[p], t, task[t])
      BY <1>1, <1>3 DEF t, StoreKept, Owed
    <3>2. CASE p = o
      BY <1>1, <1>3, <1>6, <3>1, <3>2 DEF Owes, OpenWrite
    <3>3. CASE p # o
      <4>1. outbox[p].status \in Unresolved /\ outbox[p].task = t
        BY <3>1 DEF Owes
      <4>2. CASE outbox'[p] = outbox[p]
        BY <3>1, <4>2
      <4>3. CASE outbox[p].status = "pending" /\ outbox[p].desired = readBack
        BY <1>6, <3>1, <4>3 DEF Owes
      <4>4. CASE /\ outbox'[p].status = "pending" /\ outbox'[p].task = t
                 /\ outbox'[p].desired = outbox[p].desired
                 /\ outbox[p].status # "quarantined"
        BY <3>1, <4>4 DEF Owes, Unresolved
      <4>5. QED
        BY <1>10, <3>3, <4>1, <4>2, <4>3, <4>4
    <3>4. QED
      BY <3>2, <3>3
  <2>2. ASSUME NEW u \in Task \ {t}, mapping'[u].state # "none"
        PROVE  \/ \E p \in OpId : Owes(outbox'[p], u, task[u])
               \/ /\ task[u] = mapping'[u].baseline
                  /\ \A p \in OpId : outbox'[p].status \in OpenWrite
                                        => outbox'[p].task # u
    <3>1. \A p \in OpId : outbox[p].task = u => outbox'[p] = outbox[p]
      BY <1>4 DEF t, Settled, OpsOf
    <3>2. QED
      BY <1>6, <1>7, <2>2, <3>1 DEF StoreKept, Owed, Owes, OpensNone
  <2>3. QED
    BY <1>5, <1>11, <2>1, <2>2 DEF Owed
<1>13. \A u \in Task : mapping[u].state # "none" => mapping'[u].state # "none"
  BY <1>6
<1>14. QED
  BY <1>5, <1>7, <1>8, <1>12, <1>13, KeptIf

(* Every other transaction of an attempt changes the status of its row.    *)
LEMMA AttemptKept ==
  ASSUME StoreSafe, StoreKept, NEW o \in OpId, Attempt(o)
  PROVE  StoreKept'
<1> USE DEF StoreSafe
<1>1. ASSUME NEW s \in Sender, MarkSending(o, s)
      PROVE  StoreKept'
  BY <1>1, ClaimKept
<1>2. ASSUME outbox[o].status = "sending", ReturnUnsent(o),
             UNCHANGED <<task, mapping, nextOp, quarantine, backup>>
      PROVE  StoreKept'
  <2>1. outbox[o] \in Operation
    BY <1>2, RowIsOperation DEF StoreTypeOK, OpStatus
  <2>2. \A p \in OpId \ {o} : outbox'[p] = outbox[p]
    BY <1>2 DEF ReturnUnsent, StoreTypeOK
  <2>3. /\ outbox'[o].status \in {"pending", "superseded"}
        /\ outbox'[o].task = outbox[o].task
    <3>1. \/ outbox'[o] = [outbox[o] EXCEPT !.status = "superseded"]
          \/ outbox'[o] = [outbox[o] EXCEPT !.status = "pending", !.owner = NoSender]
      BY <1>2 DEF ReturnUnsent, StoreTypeOK
    <3>2. QED
      BY <2>1, <3>1 DEF Operation
  <2>4. Moved(outbox')
    BY <1>2, <2>2, <2>3 DEF Moved, LiveStatus, OpStatus
  <2>5. OpensNone(outbox')
    BY <2>2, <2>3 DEF OpensNone, OpenWrite
  <2>6. QED
    BY <1>2, <2>4, <2>5, ReturnSucceed, RowsOnly
<1>3. CASE SupersedeUnsent(o)
  BY <1>2, <1>3 DEF SupersedeUnsent, ReturnUnsent
<1>4. ASSUME NEW retryAfter \in BOOLEAN, PauseUnsent(o, retryAfter)
      PROVE  StoreKept'
  BY <1>2, <1>4 DEF PauseUnsent, MayPauseUnsent
<1>5. CASE DeferUnsent(o)
  BY <1>2, <1>5 DEF DeferUnsent, MayDefer
<1>6. ASSUME NEW remote \in TaskFields, MergePreflight(o, remote)
      PROVE  StoreKept'
  BY <1>6, MergeKept
<1>7. ASSUME outbox[o].status \in OpenWrite,
             outbox' = [outbox EXCEPT ![o].status = "unknown"],
             UNCHANGED <<task, mapping, nextOp, quarantine, backup>>
      PROVE  StoreKept'
  <2>1. outbox[o] \in Operation
    BY <1>7, RowIsOperation DEF StoreTypeOK, OpStatus, OpenWrite
  <2>2. /\ outbox'[o] = [outbox[o] EXCEPT !.status = "unknown"]
        /\ \A p \in OpId \ {o} : outbox'[p] = outbox[p]
    BY <1>7 DEF StoreTypeOK
  <2>3. /\ outbox'[o].status = "unknown" /\ outbox'[o].task = outbox[o].task
        /\ outbox'[o].desired = outbox[o].desired
    BY <2>1, <2>2 DEF Operation
  <2>4. Moved(outbox')
    BY <1>7, <2>2, <2>3 DEF Moved, LiveStatus, OpenWrite, OpStatus
  <2>5. Succeeded(outbox')
    BY <1>7, <2>2, <2>3, RowsSucceed DEF OpenWrite, Unresolved
  <2>6. OpensNone(outbox')
    BY <1>7, <2>2, <2>3 DEF OpensNone
  <2>7. QED
    BY <1>7, <2>4, <2>5, <2>6, RowsOnly
<1>8. CASE MarkUnknown(o)
  BY <1>7, <1>8 DEF MarkUnknown, OpenWrite
<1>9. ASSUME NEW copy \in Copy, NEW readBack \in TaskFields, Confirm(o, copy, readBack)
      PROVE  StoreKept'
  BY <1>9, ConfirmKept
<1>10. ASSUME NEW readBack \in TaskFields, ConfirmDiffers(o, readBack)
       PROVE  StoreKept'
  <2>1. outbox[o].epoch = epoch
    BY <1>10 DEF ConfirmDiffers, LiveOpsCurrentEpoch, InStatus
  <2>2. outbox' = [outbox EXCEPT ![o].status = "unknown"]
    BY <1>10, <2>1 DEF ConfirmDiffers
  <2>3. QED
    BY <1>7, <1>10, <2>2 DEF ConfirmDiffers, OpenWrite
<1>11. QED
  BY <1>1, <1>3, <1>4, <1>5, <1>6, <1>8, <1>9, <1>10 DEF Attempt

(* A replacement installs what the backup owes, with every unresolved row  *)
(* of it in quarantine.                                                    *)
LEMMA ReplaceKept ==
  ASSUME StoreTypeOK, StoreKept, ReplaceAllData
  PROVE  StoreKept'
<1>1. /\ task' = backup.task /\ mapping' = backup.mapping
      /\ nextOp' = nextOp /\ backup' = backup
  BY DEF ReplaceAllData
<1>2. \A o \in OpId : outbox'[o].status \notin LiveStatus
  BY ReplacedRows
<1>3. SendsAlone'
  BY <1>2 DEF SendsAlone, InStatus, LiveStatus
<1>4. ASSUME NEW o \in OpId, NEW t \in Task, NEW fields, Owes(backup.outbox[o], t, fields)
      PROVE  Owes(outbox'[o], t, fields)
  <2>1. backup.outbox[o] \in Operation
    <3>1. backup.outbox[o] \in Operation \cup {Absent}
      BY DEF StoreTypeOK, Archive
    <3>2. QED
      BY <1>4, <3>1, RowIsOperation DEF Owes, Unresolved, OpStatus
  <2>2. ImportedIntents[o] = backup.outbox[o] /\ backup.outbox[o] # Absent
    BY <1>4 DEF ImportedIntents, WithStatus, Owes, Unresolved, Absent
  <2>3. outbox'[o] = [backup.outbox[o] EXCEPT !.status = "quarantined"]
    BY <2>2 DEF ReplaceAllData
  <2>4. outbox'[o].status = "quarantined" /\ outbox'[o].task = backup.outbox[o].task
    BY <2>1, <2>3 DEF Operation
  <2>5. QED
    BY <1>4, <2>4 DEF Owes, Unresolved
<1>5. Owed(task, mapping, outbox)'
  <2> SUFFICES ASSUME NEW t \in Task, mapping'[t].state # "none"
               PROVE  \/ \E o \in OpId : Owes(outbox'[o], t, task'[t])
                      \/ /\ task'[t] = mapping'[t].baseline
                         /\ \A o \in OpId : outbox'[o].status \in OpenWrite
                                               => outbox'[o].task # t
    BY DEF Owed
  <2>1. \/ \E o \in OpId : Owes(backup.outbox[o], t, backup.task[t])
        \/ backup.task[t] = backup.mapping[t].baseline
    BY <1>1 DEF StoreKept, Owed
  <2>2. QED
    BY <1>1, <1>2, <1>4, <2>1 DEF LiveStatus, OpenWrite
<1>6. RowsEnqueued'
  <2> SUFFICES ASSUME NEW o \in OpId, o > nextOp
               PROVE  outbox'[o] = Absent /\ quarantine'[o] = Absent
    BY <1>1 DEF StoreKept, RowsEnqueued
  <2>1. /\ backup.outbox[o] = Absent /\ backup.quarantine[o] = Absent
        /\ outbox[o] = Absent /\ quarantine[o] = Absent
    BY DEF StoreKept, RowsEnqueued
  <2>2. ImportedIntents[o] = Absent /\ LocalSends[o] = Absent
    BY <2>1 DEF ImportedIntents, LocalSends, WithStatus
  <2>3. outbox'[o] = Absent
    BY <2>1, <2>2 DEF ReplaceAllData
  <2>4. quarantine'[o] = Absent
    BY <2>1, <2>2 DEF ReplaceAllData, Kept, Recorded
  <2>5. QED
    BY <2>3, <2>4
<1>7. QED
  BY <1>1, <1>3, <1>5, <1>6 DEF StoreKept, LinksTyped, Owed

LEMMA FenceKept ==
  ASSUME StoreTypeOK, StoreKept, Fence
  PROVE  StoreKept'
<1>1. CASE ReplaceAllData
  BY <1>1, ReplaceKept
<1>2. CASE Export
  <2>1. /\ backup'.task = task /\ backup'.mapping = mapping
        /\ backup'.outbox = outbox /\ backup'.quarantine = quarantine
        /\ UNCHANGED <<task, mapping, outbox, nextOp, quarantine>>
    BY <1>2 DEF Export
  <2>2. SendsAlone'
    BY <2>1 DEF StoreKept, SendsAlone, InStatus, OpsOf, NoQuarantine
  <2>3. RowsEnqueued'
    BY <2>1 DEF StoreKept, RowsEnqueued
  <2>4. QED
    BY <2>1, <2>2, <2>3 DEF StoreKept, LinksTyped, Owed
<1>3. CASE ~ReplaceAllData /\ ~Export
  <2>1. UNCHANGED <<task, mapping, outbox, nextOp, quarantine, backup>>
    BY <1>3 DEF Fence, Pause, Resume, Disconnect, CredentialChanged, Reconnect,
                DeadlinePasses, PauseForRestore, SetConn
  <2>2. Moved(outbox') /\ Succeeded(outbox') /\ OpensNone(outbox')
    BY <2>1, SameRows DEF Moved, Succeeded
  <2>3. QED
    BY <2>1, <2>2, RowsOnly
<1>4. QED
  BY <1>1, <1>2, <1>3

(* Recoveries, openings and closings make sends unknown. *)
LEMMA RecoveryKept ==
  ASSUME StoreTypeOK, StoreKept, RecoverOrphans \/ \E s \in Sender : Instance(s)
  PROVE  StoreKept'
<1>1. UNCHANGED <<task, mapping, nextOp, quarantine, backup>>
  BY DEF RecoverOrphans, Instance, OpenStore, CloseStore, CrashStore
<1>2. ASSUME NEW ops, ops \subseteq InStatus({"sending"}),
             outbox' = SetStatus(ops, "unknown")
      PROVE  StoreKept'
  <2>1. ops \in SUBSET OpId
    BY <1>2 DEF InStatus
  <2>2. QED
    BY <1>1, <1>2, <2>1, RecoveredMoved, RecoveredSucceed, RecoveredRows, RowsOnly
<1>3. Orphans \subseteq InStatus({"sending"})
  BY DEF Orphans
<1>4. CASE outbox' = Recovered
  BY <1>2, <1>3, <1>4 DEF Recovered
<1>5. ASSUME NEW s \in Sender, CloseStore(s)
      PROVE  StoreKept'
  <2> DEFINE left == {o \in InStatus({"sending"}) : outbox[o].owner \notin live \ {s}}
  <2>1. outbox' = SetStatus(left, "unknown")
    BY <1>5 DEF CloseStore
  <2>2. left \subseteq InStatus({"sending"})
    OBVIOUS
  <2> HIDE DEF left
  <2>3. QED
    BY <1>2, <2>1, <2>2
<1>6. CASE outbox' = outbox
  BY <1>1, <1>6, SameRows, RowsOnly DEF Moved, Succeeded
<1>7. QED
  BY <1>4, <1>5, <1>6 DEF RecoverOrphans, Instance, OpenStore, CrashStore

LEMMA KeptStep ==
  ASSUME StoreSafe, StoreKept, [StoreNext]_storeVars
  PROVE  StoreKept'
<1>1. CASE UNCHANGED storeVars
  <2>1. UNCHANGED <<task, mapping, outbox, nextOp, quarantine, backup>>
    BY <1>1 DEF storeVars
  <2>2. Moved(outbox') /\ Succeeded(outbox') /\ OpensNone(outbox')
    BY <2>1, SameRows DEF Moved, Succeeded
  <2>3. QED
    BY <2>1, <2>2, RowsOnly DEF StoreSafe
<1>2. QED
  BY <1>1, LocalWriteKept, RecoveryKept, AttemptKept, FenceKept DEF StoreNext, StoreSafe

LEMMA InitKept == StoreInit => StoreKept
<1> SUFFICES ASSUME StoreInit
             PROVE  StoreKept
  OBVIOUS
<1>1. \A t \in Task : mapping[t].state = "none" /\ backup.mapping[t].state = "none"
  BY DEF StoreInit, Unlinked
<1>2. \A o \in OpId : /\ outbox[o] = Absent /\ quarantine[o] = Absent
                      /\ backup.outbox[o] = Absent /\ backup.quarantine[o] = Absent
  BY DEF StoreInit
<1>3. SendsAlone
  BY <1>2 DEF SendsAlone, InStatus, Absent
<1>4. QED
  BY <1>1, <1>2, <1>3 DEF StoreKept, LinksTyped, Owed, RowsEnqueued

(* The second inductive invariant of the store, on top of the first. *)
LEMMA StoreKeeps == StoreSpec => [](StoreSafe /\ StoreKept)
<1>1. StoreInit => StoreKept
  BY InitKept
<1>2. StoreSafe /\ StoreKept /\ [StoreNext]_storeVars => StoreKept'
  BY KeptStep
<1>3. QED
  BY <1>1, <1>2, StoreInductive, PTL DEF StoreSpec

(* Whoever runs the transactions, a linked task says what its page was last *)
(* known to say, or an intent of it is still on record: neither a merge, a *)
(* confirmation, a newer intent nor a replacement drops a local change     *)
(* (enqueueLinkedIntent, confirmNotionOutbox, replaceAllData).             *)
THEOREM NothingDropped == StoreSpec => []Owed(task, mapping, outbox)
  BY StoreKeeps, PTL DEF StoreKept

=============================================================================
