------------------------------- MODULE NotionSync -------------------------------
(***************************************************************************)
(* The whole write path to Notion: planner commands and undo, dispatchers, *)
(* connection fences, backup and restore, crashes and restarts of several  *)
(* API processes sharing one database, and Notion itself.                  *)
(***************************************************************************)
EXTENDS NotionDispatcher

VARIABLES
  undo,        \* by process: what its last command replaced, if it can be undone
  restoring,   \* processes inside a restore request
  minted       \* task identifiers ever used (clients draw them at random)

plannerVars == <<undo, restoring, minted>>
vars == <<dispatchVars, plannerVars>>

----------------------------------------------------------------------------
(* Planner commands, one per transaction.  A receipt of undo also keeps what *)
(* the command wrote, for a property below.  A process runs its commands   *)
(* one after the other, and a restore occupies the same queue.  A command  *)
(* reaches the database queue only when the previous one has committed,    *)
(* while the merge of a dispatch is queued as soon as the check before it  *)
(* commits: one command of the same process, but not two, can come between. *)

PlannerTurn(s) ==
  /\ Free(s) /\ s \notin restoring
  /\ IF job[s].pc = "merge"
       THEN ~job[s].passed /\ job' = [job EXCEPT ![s].passed = TRUE]
       ELSE UNCHANGED job

EditTask(s, t, new) ==
  /\ PlannerTurn(s)
  /\ conn \in {"active", "preflight_read", "paused_unknown"}
  /\ WriteLinkedTask(t, new)
  /\ undo' = [undo EXCEPT ![s] = {[task |-> t, fields |-> task[t], wrote |-> new]}]
  /\ UNCHANGED <<restoring, minted, notionVars>>

(* The new page cannot be undone: the receipt of the process is dropped. *)
CreateTask(s, t, new) ==
  /\ PlannerTurn(s)
  /\ t \notin minted
  /\ CreateLinkedTask(t, new)
  /\ undo' = [undo EXCEPT ![s] = {}]
  /\ minted' = minted \cup {t}
  /\ UNCHANGED <<restoring, notionVars>>

(* Undo puts the old task back whatever happened to it since, and whatever *)
(* the state of the connection.                                            *)
UndoEdit(s) ==
  /\ PlannerTurn(s)
  /\ \E old \in undo[s] :
       \/ WriteLinkedTask(old.task, old.fields)
       \/ WriteLocalTask(old.task, old.fields)
       \/ mapping[old.task].state # "none" /\ task[old.task] = old.fields
            /\ UNCHANGED storeVars
  /\ undo' = [undo EXCEPT ![s] = {}]
  /\ UNCHANGED <<restoring, minted, notionVars>>

ExportBackup(s) ==
  /\ PlannerTurn(s)
  /\ Export
  /\ UNCHANGED <<plannerVars, notionVars>>

----------------------------------------------------------------------------
(* Mutant of DispatchStep: the receipt survives the merge. *)
DispatchStepKeepsUndo(s) ==
  /\ Dispatch(s)
  /\ UNCHANGED plannerVars

(* The merge changes the task behind the user's back, so the process drops *)
(* its undo receipt; other dispatch steps leave the planner alone.         *)
DispatchStep(s) ==
  /\ Dispatch(s)
  /\ undo' = IF task' # task THEN [undo EXCEPT ![s] = {}] ELSE undo
  /\ UNCHANGED <<restoring, minted>>

ReconcileStep(s) ==
  /\ \E o \in OpId : Reconcile(s, o)
  /\ UNCHANGED plannerVars

NotionStep == ProviderStep /\ UNCHANGED plannerVars

----------------------------------------------------------------------------
(* Requests on the connection.  Resuming waits for the drain of the process *)
(* that serves it; pausing and disconnecting do not.                       *)
FenceStep ==
  /\ \E s \in live : Free(s)
  /\ \/ Pause
     \/ Resume /\ \E s \in live : job[s].pc = "idle"
     \/ Disconnect
     \/ CredentialChanged
     \/ Reconnect
     \/ DeadlinePasses
  /\ UNCHANGED <<job, plannerVars, notionVars>>

(* A restore commits the fence, waits a while for sends to settle and then *)
(* replaces the dataset.  An import may fail, because it is refused or for  *)
(* a reason outside this model, and then leaves the fence in place.        *)
StartRestore(s) ==
  /\ PlannerTurn(s)
  /\ epoch < MaxEpoch
  /\ IF conn = "paused_after_restore" THEN UNCHANGED storeVars ELSE PauseForRestore
  /\ restoring' = restoring \cup {s}
  /\ UNCHANGED <<undo, minted, notionVars>>

FinishRestore(s) ==
  /\ Free(s) /\ s \in restoring
  /\ ReplaceAllData
  /\ restoring' = restoring \ {s}
  /\ undo' = [undo EXCEPT ![s] = {}]
  /\ UNCHANGED <<job, minted, notionVars>>

RestoreFails(s) ==
  /\ Free(s) /\ s \in restoring
  /\ restoring' = restoring \ {s}
  /\ UNCHANGED <<storeVars, job, undo, minted, notionVars>>

----------------------------------------------------------------------------
(* Processes.  What a process held in memory is gone when it stops.        *)
Open(s) ==
  /\ OpenStore(s)
  /\ UNCHANGED <<job, plannerVars, notionVars>>

(* A supervisor starts the API again when none is running. *)
Restart(s) == live = {} /\ Open(s)

Stop(s) ==
  /\ (Free(s) /\ CloseStore(s)) \/ CrashStore(s)
  /\ job' = [job EXCEPT ![s] = Idle]
  /\ undo' = [undo EXCEPT ![s] = {}]
  /\ restoring' = restoring \ {s}
  /\ UNCHANGED <<minted, notionVars>>

----------------------------------------------------------------------------
Init ==
  /\ StoreInit
  /\ Provider!ProviderInit
  /\ job = [s \in Sender |-> Idle]
  /\ undo = [s \in Sender |-> {}]
  /\ restoring = {}
  /\ minted = {}

PlannerStep(s) ==
  \/ \E t \in Task, new \in TaskFields : EditTask(s, t, new) \/ CreateTask(s, t, new)
  \/ UndoEdit(s)

RestoreStep(s) ==
  ExportBackup(s) \/ StartRestore(s) \/ FinishRestore(s) \/ RestoreFails(s)

Next ==
  \/ \E s \in Sender :
       \/ PlannerStep(s) \/ DispatchStep(s) \/ ReconcileStep(s)
       \/ RestoreStep(s) \/ Open(s) \/ Stop(s)
  \/ FenceStep
  \/ NotionStep

Spec == Init /\ [][Next]_vars

(* One API process at a time, as the deployment runs it: any number of     *)
(* crashes and restarts, restores included.                                *)
SerialSpec == Init /\ [][Next /\ \A s, u \in live' : s = u]_vars

(* A process polls its outbox every 30 seconds and bounds its remote reads, *)
(* so a drain is started and goes on; a stopped API is started again.      *)
Fairness ==
  \A s \in Sender : WF_vars(DispatchStep(s)) /\ WF_vars(Restart(s))

----------------------------------------------------------------------------
(* However a create was answered, interrupted, restored or searched for,   *)
(* at most one page ever carries the client key of a task (findByClientKey, *)
(* readTarget and the claim together).                                     *)
AtMostOneCreate ==
  \A t \in Task :
    Cardinality(Provider!Pages(t))
      + Cardinality({r \in wire : r.task = t /\ r.copy = NoCopy}) <= 1

(* No operation is ever sent to Notion twice: an attempt goes back to      *)
(* pending only while nothing has left the process (pauseNotionUnsent,     *)
(* deferNotionUnsentAfterManualPause, recoverOrphanedNotionSends).         *)
NeverResent == \A o \in OpId : issued[o] <= 1

(* The last values a linked task and its page are known to have shared are *)
(* the task's values, or an intent that says otherwise is still recorded:  *)
(* no local change is ever dropped (enqueueLinkedIntent, confirm, merge).  *)
TaskSyncedOrOwed ==
  \A t \in Task :
    mapping[t].state # "none" =>
      task[t] = mapping[t].baseline \/ OpsOf(t, Unresolved) # {}

(* With one process at a time, every request leaves under an active        *)
(* connection, for the one attempt of its task, of the current dataset,    *)
(* with nothing in quarantine: no fence and no restore slips between the   *)
(* last check and the request (canDispatchNotionOutbox, createPage,        *)
(* updatePage).                                                            *)
WriteFence ==
  [][\A r \in wire' \ wire :
       /\ conn = "active"
       /\ outbox[r.op].status = "sending" /\ outbox[r.op].epoch = epoch
       /\ OpsOf(r.task, {"sending", "unknown", "quarantined"}) = {r.op}
       /\ NoQuarantine]_vars

(* With several processes a fence of another one can slip in between.  A   *)
(* request that leaves late still is the one open attempt of its task, or  *)
(* stands in quarantine, which holds every send of the workspace back: none *)
(* leaves for an operation that was withdrawn, settled, returned to the    *)
(* queue or forgotten by a restore.                                        *)
LateSendsHeld ==
  [][\A r \in wire' \ wire :
       \/ quarantine[r.op] # Absent
       \/ /\ outbox[r.op].status = "sending" /\ outbox[r.op].epoch = epoch
          /\ OpsOf(r.task, {"sending", "unknown", "quarantined"}) = {r.op}]_vars

(* The sync contract says more: a sender of a replaced dataset does not     *)
(* dispatch any more, even when it wakes up after the replacement.  The    *)
(* last check only reads, and with several processes it is not enough      *)
(* (canDispatchNotionOutbox).                                              *)
OldEpochSilent ==
  [][\A r \in wire' \ wire :
       outbox[r.op] # Absent /\ outbox[r.op].epoch = epoch]_vars

(* A waiting intent says what the task says, so that it can be claimed:    *)
(* one process never lets the merge change a task under a newer intent.    *)
PendingMatchesTask == \A o \in InStatus({"pending"}) : MatchesTask(outbox[o])

(* The undo receipt of a process names the last change of the task: nothing *)
(* it did since, merges and restores included, would be undone with it.    *)
UndoCurrent ==
  \A s \in Sender : \A old \in undo[s] : task[old.task] = old.wrote

(* An attempt recorded as sending is being worked on, or its process is    *)
(* gone and the next claim or start recovers it.                           *)
SendingHasWorker ==
  \A o \in InStatus({"sending"}) :
    outbox[o].owner \in live => job[outbox[o].owner].pc \in Place
                                  /\ job[outbox[o].owner].op = o

(* A restored dataset never reaches an active connection: replacing it is   *)
(* the only thing that rotates the epoch, and nothing lifts that fence.    *)
RestoreFenceHolds == epoch > 0 => conn # "active"

(* Until somebody edits in Notion, and with no attempt open, the fields     *)
(* recorded as shared are the fields of the page, and no request is still  *)
(* under way that could change them: a confirmation is never premature     *)
(* (readBackAndConfirm, confirmNotionOutbox).  A backup brings older       *)
(* baselines, so this also ends when one replaces the dataset.             *)
BaselineIsRemote ==
  (epoch = 0 /\ remoteEdits = 0) => \A t \in Task :
    (mapping[t].state = "active" /\ OpsOf(t, {"sending", "unknown"}) = {})
      => /\ remote[t][mapping[t].copy] = mapping[t].baseline
         /\ \A r \in wire : r.task # t

(* The promise of NotionIntent: an attempt counts from the moment a request *)
(* leaves, or from the moment the code gives up knowing that none did.     *)
IntentPhase(o) ==
  CASE quarantine[o] # Absent -> "isolated"
    [] quarantine[o] = Absent /\ outbox[o] = Absent ->
         IF o <= nextOp THEN "forgotten" ELSE "none"
    [] OTHER ->
         CASE outbox[o].status = "confirmed" -> "settled"
           [] outbox[o].status = "superseded" -> "withdrawn"
           [] outbox[o].status = "pending" -> "waiting"
           [] outbox[o].status = "sending" ->
                IF issued[o] = 0 THEN "waiting" ELSE "attempted"
           [] outbox[o].status = "unknown" -> "attempted"
           [] outbox[o].status = "quarantined" -> "isolated"

Intents == INSTANCE NotionIntent WITH
  Intent <- OpId, phase <- [o \in OpId |-> IntentPhase(o)]

ImplementsIntent == Intents!IntentSpec

(* Every claimed attempt ends: whatever the remote reads return, the       *)
(* attempt is confirmed, returned, superseded or made unknown.             *)
AttemptEnds ==
  \A o \in OpId : outbox[o].status = "sending" ~> outbox[o].status # "sending"

(* An active connection does not leave an intent waiting: no refused claim *)
(* blocks the drain for ever.                                              *)
ActiveDrains ==
  \A o \in OpId : (outbox[o].status = "pending" /\ conn = "active")
                    ~> (outbox[o].status # "pending" \/ conn # "active")

=============================================================================
