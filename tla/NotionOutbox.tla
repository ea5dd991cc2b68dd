------------------------------ MODULE NotionOutbox ------------------------------
(***************************************************************************)
(* The durable half of the Notion write path: the linked tasks, their      *)
(* mappings to remote pages, the outbox of write intents, the connection   *)
(* status that fences a workspace and the restore quarantine, as kept by   *)
(* apps/api/src/storage/sqlite-planner-store.ts.  Each action is one       *)
(* committed SQLite transaction; the callers (planner commands, the        *)
(* dispatcher, the sync and structure services, several API processes) are *)
(* composed in NotionDispatcher and NotionSync.  The specification at the  *)
(* end lets any caller run any transaction at any time: what holds of it   *)
(* is promised by the store alone.                                         *)
(*                                                                         *)
(* One Notion workspace is modelled: every row carries its workspace and   *)
(* no transaction relates two of them.                                     *)
(***************************************************************************)
EXTENDS NotionReconcile, Integers, FiniteSets

CONSTANTS
  Task,       \* local task identifiers
  Sender,     \* instances of the store (one per opened API process)
  Copy,       \* remote pages that may carry the key of one task
  NoFields,   \* no task row, or no common baseline yet
  NoCopy,     \* a mapping that has no remote page yet
  NoSender,   \* an operation no process is sending
  MaxOps,     \* bound: operations ever enqueued
  MaxEpoch    \* bound: dataset replacements

ASSUME NoFieldsAssumption == NoFields \notin TaskFields
ASSUME NoCopyAssumption == NoCopy \notin Copy
ASSUME NoSenderAssumption == NoSender \notin Sender
ASSUME BoundsAssumption == MaxOps \in Nat /\ MaxEpoch \in Nat

VARIABLES
  task,        \* shared fields of each task row, or NoFields
  mapping,     \* link of each task to its remote page
  outbox,      \* write intents, by operation
  nextOp,      \* operations enqueued so far: identifiers grow with created_at
  conn,        \* connection status, with the reason of a plain pause
  backoff,     \* a Retry-After deadline is stored and still ahead
  epoch,       \* dataset epoch, rotated by every replacement
  quarantine,  \* sends of a replaced dataset, kept across replacements
  backup,      \* the exported backup file, outside the database
  live,        \* store instances of running processes
  started      \* store instances ever opened (identifiers are not reused)

storeVars == <<task, mapping, outbox, nextOp, conn, backoff, epoch,
               quarantine, backup, live, started>>

OpId == 1 .. MaxOps

(* "preflight_read" and "manual" are the two reasons of status "paused"; no *)
(* code reads the reason under another status.                             *)
ConnStatus == {"active", "preflight_read", "manual", "paused_unknown",
               "paused_after_restore", "disconnected"}

OpStatus == {"pending", "sending", "unknown", "confirmed", "superseded",
             "quarantined"}

Mapping == [state    : {"none", "pending_create", "active"},
            copy     : Copy \cup {NoCopy},
            baseline : TaskFields \cup {NoFields}]

Operation == [status   : OpStatus,
              task     : Task,
              epoch    : Nat,
              desired  : TaskFields,
              baseline : TaskFields \cup {NoFields},
              owner    : Sender \cup {NoSender}]

Absent == [status |-> "absent"]

(* What a backup carries of this state.  The status of the connection in a *)
(* backup is never used.                                                   *)
Archive == [task       : [Task -> TaskFields \cup {NoFields}],
            mapping    : [Task -> Mapping],
            outbox     : [OpId -> Operation \cup {Absent}],
            quarantine : [OpId -> Operation \cup {Absent}]]

Unlinked == [state |-> "none", copy |-> NoCopy, baseline |-> NoFields]

----------------------------------------------------------------------------
(* Reading the outbox.                                                     *)

OpsOf(t, statuses) ==
  {o \in OpId : outbox[o].status \in statuses /\ outbox[o].task = t}

InStatus(statuses) == {o \in OpId : outbox[o].status \in statuses}

(* Any of these stands for a local intent Notion may not have yet. *)
Unresolved == {"pending", "sending", "unknown", "quarantined"}

MatchesTask(op) == task[op.task] = op.desired

(* A send whose process or store instance is gone. *)
Orphans == {o \in InStatus({"sending"}) : outbox[o].owner \notin live}

SetStatus(ops, status) ==
  [o \in OpId |-> IF o \in ops THEN [outbox[o] EXCEPT !.status = status]
                               ELSE outbox[o]]

----------------------------------------------------------------------------
(* Local writes: the task and its intent commit together.                  *)

Enqueued(t, desired, baseline) ==
  [o \in OpId |->
     IF o = nextOp + 1
       THEN [status |-> "pending", task |-> t, epoch |-> epoch,
             desired |-> desired, baseline |-> baseline, owner |-> NoSender]
     ELSE IF o \in OpsOf(t, {"pending"})
       THEN [outbox[o] EXCEPT !.status = "superseded"]
     ELSE outbox[o]]

AcceptsLinkedLocalChanges == conn \in {"active", "preflight_read"}

(* A change of the shared fields of a linked task, from a command or from  *)
(* an undo.                                                                *)
WriteLinkedTask(t, new) ==
  /\ mapping[t].state # "none"
  /\ new # task[t]
  /\ nextOp < MaxOps
  /\ task' = [task EXCEPT ![t] = new]
  /\ outbox' = Enqueued(t, new, mapping[t].baseline)
  /\ nextOp' = nextOp + 1
  /\ UNCHANGED <<mapping, conn, backoff, epoch, quarantine, backup, live, started>>

(* A new task saved into Notion: row, mapping and create intent together.  *)
CreateLinkedTask(t, new) ==
  /\ task[t] = NoFields
  /\ mapping[t].state = "none"
  /\ AcceptsLinkedLocalChanges
  /\ nextOp < MaxOps
  /\ task' = [task EXCEPT ![t] = new]
  /\ mapping' = [mapping EXCEPT ![t] = [Unlinked EXCEPT !.state = "pending_create"]]
  /\ outbox' = Enqueued(t, new, NoFields)
  /\ nextOp' = nextOp + 1
  /\ UNCHANGED <<conn, backoff, epoch, quarantine, backup, live, started>>

(* A task row without a mapping changes without an intent. *)
WriteLocalTask(t, new) ==
  /\ mapping[t].state = "none"
  /\ task' = [task EXCEPT ![t] = new]
  /\ UNCHANGED <<mapping, outbox, nextOp, conn, backoff, epoch, quarantine,
                 backup, live, started>>

----------------------------------------------------------------------------
(* Claiming a send.                                                        *)

RecoveredConn ==
  IF Orphans # {} /\ conn \in {"active", "preflight_read", "manual"}
    THEN "paused_unknown" ELSE conn

(* Mutant of Recovered: a lost attempt is simply tried again. *)
RecoveredRetries == SetStatus(Orphans, "pending")

Recovered == SetStatus(Orphans, "unknown")

RecoverOrphans ==
  /\ outbox' = Recovered
  /\ conn' = RecoveredConn
  /\ UNCHANGED <<task, mapping, nextOp, backoff, epoch, quarantine, backup, live, started>>

NoQuarantine == \A o \in OpId : quarantine[o] = Absent

(* Mutant of Claimable: only attempts still under way block the next one.  *)
ClaimablePastUnknown(o) ==
  /\ outbox[o].status = "pending"
  /\ Orphans = {}
  /\ conn = "active"
  /\ outbox[o].epoch = epoch
  /\ mapping[outbox[o].task].state # "none"
  /\ mapping[outbox[o].task].baseline = outbox[o].baseline
  /\ MatchesTask(outbox[o])
  /\ OpsOf(outbox[o].task, {"sending"}) = {}
  /\ NoQuarantine

Claimable(o) ==
  /\ outbox[o].status = "pending"
  /\ Orphans = {}
  /\ conn = "active"
  /\ outbox[o].epoch = epoch
  /\ mapping[outbox[o].task].state # "none"
  /\ mapping[outbox[o].task].baseline = outbox[o].baseline
  /\ MatchesTask(outbox[o])
  /\ OpsOf(outbox[o].task, {"sending", "unknown", "quarantined"}) = {}
  /\ NoQuarantine

MarkSending(o, s) ==
  /\ Claimable(o)
  /\ outbox' = [outbox EXCEPT ![o].status = "sending", ![o].owner = s]
  /\ UNCHANGED <<task, mapping, nextOp, conn, backoff, epoch, quarantine,
                 backup, live, started>>

----------------------------------------------------------------------------
(* Between the claim and the remote write.                                 *)

(* Mutant of CanDispatch: the connection is not read again. *)
CanDispatchUnfenced(o) ==
  /\ outbox[o].status = "sending"
  /\ outbox[o].epoch = epoch

CanDispatch(o) ==
  /\ outbox[o].status = "sending"
  /\ outbox[o].epoch = epoch
  /\ conn = "active"

(* supersedeNotionUnsentIfNewer looks at one other pending intent of the    *)
(* task.  It replaces the attempt when that intent has the current epoch   *)
(* and baseline, fails when the intent does not match the task, and        *)
(* otherwise leaves the attempt alone.                                     *)
Newer(o) == OpsOf(outbox[o].task, {"pending"}) \ {o}

Comparable(n, o) ==
  /\ outbox[n].epoch = outbox[o].epoch
  /\ mapping[outbox[o].task].state # "none"
  /\ mapping[outbox[o].task].baseline = outbox[n].baseline

NewerReplaces(o) == \E n \in Newer(o) : Comparable(n, o) /\ MatchesTask(outbox[n])
NewerFails(o)    == \E n \in Newer(o) : Comparable(n, o) /\ ~MatchesTask(outbox[n])
(* Mutant of NewerIgnored: the check for a newer intent is left out. *)
NewerNeverRead(o) == TRUE

NewerIgnored(o)  == Newer(o) = {} \/ \E n \in Newer(o) : ~Comparable(n, o)

SupersedeUnsent(o) ==
  /\ outbox[o].status = "sending"
  /\ NewerReplaces(o)
  /\ outbox' = [outbox EXCEPT ![o].status = "superseded"]
  /\ UNCHANGED <<task, mapping, nextOp, conn, backoff, epoch, quarantine,
                 backup, live, started>>

(* Mutant of ReturnUnsent: an unsent attempt is given up. *)
ReturnUnsentDropped(o) ==
  outbox' = [outbox EXCEPT ![o].status = "superseded"]

(* The attempt has sent nothing: give way to a newer intent or wait again. *)
ReturnUnsent(o) ==
  \/ /\ NewerReplaces(o)
     /\ outbox' = [outbox EXCEPT ![o].status = "superseded"]
  \/ /\ NewerIgnored(o)
     /\ outbox' = [outbox EXCEPT ![o].status = "pending", ![o].owner = NoSender]

(* Mutant of MayPauseUnsent: a manual pause during the read is forgotten.  *)
MayPauseActiveOnly(o) ==
  /\ outbox[o].status = "sending"
  /\ conn = "active"
  /\ outbox[o].epoch = epoch

MayPauseUnsent(o) ==
  /\ outbox[o].status = "sending"
  /\ conn \in {"active", "manual"}
  /\ outbox[o].epoch = epoch

PauseUnsent(o, retryAfter) ==
  /\ MayPauseUnsent(o)
  /\ ReturnUnsent(o)
  /\ conn' = IF conn = "active" THEN "preflight_read" ELSE conn
  /\ backoff' = IF conn = "active" THEN retryAfter ELSE (backoff \/ retryAfter)
  /\ UNCHANGED <<task, mapping, nextOp, epoch, quarantine, backup, live, started>>

MayDefer(o) ==
  /\ outbox[o].status = "sending"
  /\ conn = "manual"
  /\ outbox[o].epoch = epoch

DeferUnsent(o) ==
  /\ MayDefer(o)
  /\ ReturnUnsent(o)
  /\ UNCHANGED <<task, mapping, nextOp, conn, backoff, epoch, quarantine,
                 backup, live, started>>

(* The merge transaction of the preflight: the task takes the merged       *)
(* values, the mapping and the attempt take the remote values as baseline. *)
Rebasable(o) ==
  /\ CanDispatch(o)
  /\ MatchesTask(outbox[o])
  /\ mapping[outbox[o].task].copy # NoCopy
  /\ mapping[outbox[o].task].baseline = outbox[o].baseline

MergePreflight(o, remote) ==
  LET t == outbox[o].task
      merged == Merged(outbox[o].baseline, outbox[o].desired, remote)
  IN /\ Rebasable(o)
     /\ outbox[o].baseline # NoFields
     /\ task' = [task EXCEPT ![t] = merged]
     /\ mapping' = [mapping EXCEPT ![t].baseline = remote]
     /\ outbox' = [outbox EXCEPT ![o].baseline = remote, ![o].desired = merged]
     /\ UNCHANGED <<nextOp, conn, backoff, epoch, quarantine, backup, live, started>>

----------------------------------------------------------------------------
(* After the remote write.                                                 *)

(* Mutant of MarkUnknown: an attempt without read-back is tried again. *)
MarkUnknownRetries(o) ==
  /\ outbox[o].status = "sending"
  /\ outbox' = [outbox EXCEPT ![o].status = "pending"]
  /\ UNCHANGED <<task, mapping, nextOp, conn, backoff, epoch, quarantine,
                 backup, live, started>>

MarkUnknown(o) ==
  /\ outbox[o].status = "sending"
  /\ outbox' = [outbox EXCEPT ![o].status = "unknown"]
  /\ conn' = "paused_unknown"
  /\ UNCHANGED <<task, mapping, nextOp, backoff, epoch, quarantine, backup, live, started>>

(* Confirmation needs an attempt of this dataset and the page its mapping  *)
(* already has, if any.                                                    *)
Confirmable(o, copy) ==
  LET m == mapping[outbox[o].task]
  IN /\ outbox[o].status \in {"sending", "unknown"}
     /\ outbox[o].epoch = epoch
     /\ m.state # "none"
     /\ m.copy \in {NoCopy, copy}

(* The intents still waiting for the task take the fields read back as     *)
(* their baseline, and are settled when they want nothing else.            *)
(* Mutant of Settled: the waiting intents are left alone.                  *)
SettledAlone(o, readBack) == SetStatus({o}, "confirmed")

Settled(o, readBack) ==
  [p \in OpId |->
     IF p = o THEN [outbox[p] EXCEPT !.status = "confirmed"]
     ELSE IF p \in OpsOf(outbox[o].task, {"pending"})
       THEN [outbox[p] EXCEPT !.baseline = readBack,
               !.status = IF outbox[p].desired = readBack
                            THEN "confirmed" ELSE "pending"]
     ELSE outbox[p]]

(* The fields read back are the desired ones. *)
Confirm(o, copy, readBack) ==
  /\ Confirmable(o, copy)
  /\ readBack = outbox[o].desired
  /\ mapping' = [mapping EXCEPT ![outbox[o].task] =
                   [state |-> "active", copy |-> copy, baseline |-> readBack]]
  /\ outbox' = Settled(o, readBack)
  /\ UNCHANGED <<task, nextOp, conn, backoff, epoch, quarantine, backup, live, started>>

(* Confirmation of an attempt of an older dataset quarantines it, and one  *)
(* whose fields differ leaves the outcome unknown.                         *)
ConfirmDiffers(o, readBack) ==
  /\ outbox[o].status \in {"sending", "unknown"}
  /\ outbox[o].epoch # epoch \/ readBack # outbox[o].desired
  /\ outbox' = [outbox EXCEPT ![o].status =
                  IF outbox[o].epoch # epoch THEN "quarantined" ELSE "unknown"]
  /\ conn' = "paused_unknown"
  /\ UNCHANGED <<task, mapping, nextOp, backoff, epoch, quarantine, backup,
                 live, started>>

----------------------------------------------------------------------------
(* The connection: user fences, credentials and restore.                   *)

SetConn(status) ==
  /\ conn' = status
  /\ UNCHANGED <<task, mapping, outbox, nextOp, epoch, quarantine, backup, live, started>>

Pause ==
  /\ conn = "active"
  /\ SetConn("manual")
  /\ backoff' = FALSE

Resume ==
  /\ conn \in {"preflight_read", "manual", "paused_unknown"}
  /\ ~backoff
  /\ InStatus({"sending", "unknown", "quarantined"}) = {}
  /\ NoQuarantine
  /\ SetConn("active")
  /\ UNCHANGED backoff

Disconnect ==
  /\ conn # "disconnected"
  /\ SetConn("disconnected")
  /\ UNCHANGED backoff

(* A changed credential revision fences the connections it authorised.  The *)
(* status is read before the write is queued; when it has changed since,   *)
(* the write does what Disconnect does.                                    *)
CredentialChanged ==
  /\ conn \in {"active", "preflight_read", "manual"}
  /\ SetConn("disconnected")
  /\ UNCHANGED backoff

(* The recorded structure was read back and every step matched. *)
Reconnect ==
  /\ conn = "disconnected"
  /\ SetConn("active")
  /\ backoff' = FALSE

DeadlinePasses ==
  /\ backoff
  /\ backoff' = FALSE
  /\ UNCHANGED <<task, mapping, outbox, nextOp, conn, epoch, quarantine, backup,
                 live, started>>

PauseForRestore ==
  /\ conn # "paused_after_restore"
  /\ SetConn("paused_after_restore")
  /\ UNCHANGED backoff

(* A record already in quarantine must describe the same attempt.  Attempt  *)
(* counts and times are not modelled: two attempts of one operation by one *)
(* process count as the same, and the code refuses more.                   *)
SameIntent(prior, op) ==
  /\ op.status \in {prior.status, "quarantined"}
  /\ op.desired = prior.desired
  /\ op.baseline = prior.baseline
  /\ op.owner = prior.owner

(* Quarantine records are identified by epoch and operation and never      *)
(* overwritten.                                                            *)
Kept(prior, added) ==
  [o \in OpId |-> IF prior[o] # Absent THEN prior[o] ELSE added[o]]

Agree(prior, added) ==
  \A o \in OpId : (prior[o] # Absent /\ added[o] # Absent)
                     => SameIntent(prior[o], added[o])

WithStatus(ops, statuses) ==
  [o \in OpId |-> IF ops[o].status \in statuses THEN ops[o] ELSE Absent]

(* Mutant of LocalSends: only attempts still under way are kept. *)
LocalSendsUnderWay == WithStatus(outbox, {"sending"})

(* Mutant of LocalSends: a send under way is expected to settle by itself. *)
LocalSendsSettled == WithStatus(outbox, {"unknown", "quarantined"})

LocalSends == WithStatus(outbox, {"sending", "unknown", "quarantined"})

(* The quarantine keeps the sends of the dataset being replaced, then the   *)
(* records of the backup, then its unfinished intents.                     *)
Recorded == Kept(Kept(quarantine, LocalSends), backup.quarantine)

(* Mutant of ImportedIntents: waiting intents go on after the import. *)
ImportedAttempts == WithStatus(backup.outbox, {"sending", "unknown", "quarantined"})

ImportedIntents == WithStatus(backup.outbox, Unresolved)

Importable ==
  /\ Agree(quarantine, LocalSends)
  /\ \A o \in OpId : backup.quarantine[o] \in {Absent, Recorded[o]}
  /\ Agree(Recorded, ImportedIntents)

ReplaceAllData ==
  /\ epoch < MaxEpoch
  /\ Importable
  /\ quarantine' = Kept(Recorded, ImportedIntents)
  /\ epoch' = epoch + 1
  /\ task' = backup.task
  /\ mapping' = backup.mapping
  /\ outbox' = [o \in OpId |->
       IF ImportedIntents[o] # Absent
         THEN [ImportedIntents[o] EXCEPT !.status = "quarantined"]
         ELSE backup.outbox[o]]
  /\ conn' = "paused_after_restore"
  /\ backoff' \in BOOLEAN  \* the deadline of the connection in the backup
  /\ UNCHANGED <<nextOp, backup, live, started>>

Export ==
  /\ backup' = [task |-> task, mapping |-> mapping, outbox |-> outbox,
                quarantine |-> quarantine]
  /\ UNCHANGED <<task, mapping, outbox, nextOp, conn, backoff, epoch,
                 quarantine, live, started>>

----------------------------------------------------------------------------
(* Store instances.                                                        *)

(* Opening a store recovers the sends of instances that are gone. *)
OpenStore(s) ==
  /\ s \notin started
  /\ started' = started \cup {s}
  /\ live' = live \cup {s}
  /\ outbox' = Recovered
  /\ conn' = RecoveredConn
  /\ UNCHANGED <<task, mapping, nextOp, backoff, epoch, quarantine, backup>>

(* Closing persists the ambiguous outcome of its own sends first. *)
CloseStore(s) ==
  LET left == {o \in InStatus({"sending"}) : outbox[o].owner \notin live \ {s}}
  IN /\ s \in live
     /\ live' = live \ {s}
     /\ outbox' = SetStatus(left, "unknown")
     /\ conn' = IF left # {} /\ conn \in {"active", "preflight_read", "manual"}
                  THEN "paused_unknown" ELSE conn
     /\ UNCHANGED <<task, mapping, nextOp, backoff, epoch, quarantine, backup, started>>

(* A killed process leaves its sends behind. *)
CrashStore(s) ==
  /\ s \in live
  /\ live' = live \ {s}
  /\ UNCHANGED <<task, mapping, outbox, nextOp, conn, backoff, epoch,
                 quarantine, backup, started>>

----------------------------------------------------------------------------
(* A prepared workspace without linked tasks, and the first API process.   *)
StoreInit ==
  /\ task = [t \in Task |-> NoFields]
  /\ mapping = [t \in Task |-> Unlinked]
  /\ outbox = [o \in OpId |-> Absent]
  /\ nextOp = 0
  /\ conn = "active"
  /\ backoff = FALSE
  /\ epoch = 0
  /\ quarantine = [o \in OpId |-> Absent]
  /\ backup = [task |-> task, mapping |-> mapping, outbox |-> outbox,
               quarantine |-> quarantine]
  /\ live = {}
  /\ started = {}

LocalWrite(t, new) ==
  \/ WriteLinkedTask(t, new)
  \/ CreateLinkedTask(t, new)
  \/ WriteLocalTask(t, new)

Attempt(o) ==
  \/ \E s \in Sender : MarkSending(o, s)
  \/ SupersedeUnsent(o)
  \/ \E retryAfter \in BOOLEAN : PauseUnsent(o, retryAfter)
  \/ DeferUnsent(o)
  \/ \E remote \in TaskFields : MergePreflight(o, remote)
  \/ MarkUnknown(o)
  \/ \E copy \in Copy, readBack \in TaskFields : Confirm(o, copy, readBack)
  \/ \E readBack \in TaskFields : ConfirmDiffers(o, readBack)

Fence ==
  \/ Pause \/ Resume \/ Disconnect \/ CredentialChanged \/ Reconnect
  \/ DeadlinePasses \/ PauseForRestore
  \/ ReplaceAllData \/ Export

Instance(s) == OpenStore(s) \/ CloseStore(s) \/ CrashStore(s)

StoreNext ==
  \/ \E t \in Task, new \in TaskFields : LocalWrite(t, new)
  \/ RecoverOrphans
  \/ \E o \in OpId : Attempt(o)
  \/ Fence
  \/ \E s \in Sender : Instance(s)

StoreSpec == StoreInit /\ [][StoreNext]_storeVars

----------------------------------------------------------------------------
(* Types of the store's state. *)
StoreTypeOK ==
  /\ task \in [Task -> TaskFields \cup {NoFields}]
  /\ mapping \in [Task -> Mapping]
  /\ outbox \in [OpId -> Operation \cup {Absent}]
  /\ nextOp \in 0 .. MaxOps
  /\ conn \in ConnStatus
  /\ backoff \in BOOLEAN
  /\ epoch \in Nat
  /\ quarantine \in [OpId -> Operation \cup {Absent}]
  /\ backup \in Archive
  /\ live \in SUBSET Sender
  /\ started \in SUBSET Sender

(* An intent that may still be sent, or whose write may still be in        *)
(* flight, belongs to the current dataset: whatever was imported or left   *)
(* behind by a replacement is final or quarantined (replaceAllData).       *)
LiveOpsCurrentEpoch ==
  \A o \in InStatus({"pending", "sending", "unknown"}) : outbox[o].epoch = epoch

(* No task ever has two writes whose outcome is open: a claim is refused   *)
(* while another operation of the task is sending or unknown, and only     *)
(* claims and recoveries create such operations (markNotionOutboxSending,  *)
(* recoverOrphanedNotionSends).                                            *)
SingleInFlight ==
  \A o1, o2 \in InStatus({"sending", "unknown"}) :
    outbox[o1].task = outbox[o2].task => o1 = o2

=============================================================================
