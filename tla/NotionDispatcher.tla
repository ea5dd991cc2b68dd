---------------------------- MODULE NotionDispatcher ----------------------------
(***************************************************************************)
(* One API process draining the outbox                                     *)
(* (apps/api/src/services/notion-outbox-dispatcher.ts and the drain of      *)
(* notion-sync-service.ts).  Between two awaits of the code anything else   *)
(* may run, so every transaction, every remote read and the moment a write *)
(* request leaves is an action of its own.  The connection and mapping the *)
(* code loads right after the claim are loaded by the claim here: only a   *)
(* dataset replacement can come between, and after one no step of the      *)
(* attempt changes the store any more.                                     *)
(***************************************************************************)
EXTENDS NotionOutbox

CONSTANT MaxRemote   \* bound: edits made by people in Notion

VARIABLES
  remote, wire, issued, remoteEdits,   \* the state of NotionProvider
  job                                  \* what each process is doing

Provider == INSTANCE NotionProvider

notionVars == <<remote, wire, issued, remoteEdits>>
dispatchVars == <<storeVars, notionVars, job>>

(* Where a dispatch waits. *)
Place == {"preflight", "supersede", "merge", "gate", "send", "defer", "pause",
          "giveUp", "readBack", "confirm"}

Idle == [pc |-> "idle"]

(* The loop of drain over the operations that were pending when it began. *)
Loop(queue) == [pc |-> "next", queue |-> queue]

(* One dispatch or reconciliation, with what the code holds in variables.  *)
Job == [pc       : Place,
        queue    : SUBSET OpId,
        op       : OpId,
        task     : Task,
        desired  : TaskFields,
        baseline : TaskFields \cup {NoFields},
        copy     : Copy \cup {NoCopy},          \* the page mapped or found
        seen     : TaskFields \cup {NoFields},  \* the fields last read
        passed   : BOOLEAN]  \* a local command committed just before the merge

Dispatching(pc, queue, o) ==
  [pc |-> pc, queue |-> queue, op |-> o, task |-> outbox[o].task,
   desired |-> outbox[o].desired, baseline |-> outbox[o].baseline,
   copy |-> mapping[outbox[o].task].copy, seen |-> NoFields, passed |-> FALSE]

Goto(s, pc) == job' = [job EXCEPT ![s].pc = pc]

(* The drain ends: a result that breaks its loop, or an error.  A result   *)
(* that does not break it goes on with the rest of the snapshot.           *)
EndDrain(s) == job' = [job EXCEPT ![s] = Idle]

Continue(s) == job' = [job EXCEPT ![s] = Loop(job[s].queue)]

Sending(s) == outbox[job[s].op].status = "sending"

----------------------------------------------------------------------------
(* The drain and the claim.                                                *)

StartDrain(s) ==
  /\ job[s].pc = "idle"
  /\ conn = "active"
  /\ InStatus({"pending"}) # {}
  /\ job' = [job EXCEPT ![s] = Loop(InStatus({"pending"}))]
  /\ UNCHANGED <<storeVars, notionVars>>

Next1(s) == CHOOSE o \in job[s].queue : \A p \in job[s].queue : o <= p

FinishDrain(s) ==
  /\ job[s].pc = "next" /\ job[s].queue = {}
  /\ EndDrain(s)
  /\ UNCHANGED <<storeVars, notionVars>>

Claim(s) ==
  /\ job[s].pc = "next" /\ job[s].queue # {}
  /\ LET o == Next1(s)
     IN /\ MarkSending(o, s)
        /\ job' = [job EXCEPT ![s] = Dispatching("preflight", job[s].queue \ {o}, o)]
  /\ UNCHANGED notionVars

(* The claim is refused.  Orphans are recovered first, and that survives    *)
(* the refusal; it also pauses the workspace, so the claim then fails.     *)
ClaimRefused(s) ==
  /\ job[s].pc = "next" /\ job[s].queue # {}
  /\ ~Claimable(Next1(s))
  /\ RecoverOrphans
  /\ EndDrain(s)
  /\ UNCHANGED notionVars

----------------------------------------------------------------------------
(* Remote reads.  A mapped page is read by its identifier; otherwise the    *)
(* key is searched, and the search may see any of the pages that exist.     *)
(* "uncertain" stands for an incomplete or ambiguous search and for a page  *)
(* whose identity or state does not match.                                 *)

(* Mutant of ReadsPage: the fields of the page are not compared. *)
FindsPage(s, copy, fields) ==
  /\ copy \in Provider!Pages(job[s].task)
  /\ job[s].copy \in {NoCopy, copy}

ReadsPage(s, copy, fields) ==
  /\ copy \in Provider!Pages(job[s].task)
  /\ job[s].copy \in {NoCopy, copy}
  /\ fields = remote[job[s].task][copy]

PreflightFails(s) ==
  /\ job[s].pc = "preflight"
  /\ Goto(s, "pause")
  /\ UNCHANGED <<storeVars, notionVars>>

PreflightUncertain(s) ==
  /\ job[s].pc = "preflight"
  /\ Goto(s, "giveUp")
  /\ UNCHANGED <<storeVars, notionVars>>

(* The search by key found nothing. *)
PreflightAbsent(s) ==
  /\ job[s].pc = "preflight"
  /\ job[s].copy = NoCopy
  /\ Goto(s, "supersede")
  /\ UNCHANGED <<storeVars, notionVars>>

PreflightPage(s) ==
  /\ job[s].pc = "preflight"
  /\ \E copy \in Copy, fields \in TaskFields :
       /\ ReadsPage(s, copy, fields)
       /\ job' = [job EXCEPT
            ![s].seen = fields,
            ![s].copy = IF fields = job[s].desired THEN copy ELSE @,
            ![s].pc = IF fields = job[s].desired THEN "confirm" ELSE "supersede"]
  /\ UNCHANGED <<storeVars, notionVars>>

ReadBackPage(s) ==
  /\ job[s].pc = "readBack"
  /\ \E copy \in Copy :
       /\ ReadsPage(s, copy, job[s].desired)
       /\ job' = [job EXCEPT ![s].pc = "confirm", ![s].copy = copy,
                             ![s].seen = job[s].desired]
  /\ UNCHANGED <<storeVars, notionVars>>

(* The read failed, was uncertain, or did not return the desired fields. *)
ReadBackFails(s) ==
  /\ job[s].pc = "readBack"
  /\ Goto(s, "giveUp")
  /\ UNCHANGED <<storeVars, notionVars>>

----------------------------------------------------------------------------
(* Between the preflight read and the write.                               *)

AfterSupersede(s) ==
  IF job[s].copy = NoCopy
    THEN IF job[s].seen = NoFields THEN "gate" ELSE "giveUp"
    ELSE IF job[s].baseline = NoFields THEN "giveUp"
         ELSE IF job[s].seen # job[s].baseline THEN "merge" ELSE "gate"

Supersede(s) ==
  /\ job[s].pc = "supersede"
  /\ SupersedeUnsent(job[s].op)
  /\ Continue(s)
  /\ UNCHANGED notionVars

SupersedeFails(s) ==
  /\ job[s].pc = "supersede"
  /\ Sending(s) /\ NewerFails(job[s].op)
  /\ Goto(s, "giveUp")
  /\ UNCHANGED <<storeVars, notionVars>>

NotSuperseded(s) ==
  /\ job[s].pc = "supersede"
  /\ Sending(s) => NewerIgnored(job[s].op)
  /\ Goto(s, AfterSupersede(s))
  /\ UNCHANGED <<storeVars, notionVars>>

MayMerge(s) ==
  /\ CanDispatch(job[s].op)
  /\ task[job[s].task] = job[s].desired

Merge(s) ==
  LET merged == Merged(job[s].baseline, job[s].desired, job[s].seen)
  IN /\ job[s].pc = "merge"
     /\ MayMerge(s)
     /\ MergePreflight(job[s].op, job[s].seen)
     /\ job' = [job EXCEPT
          ![s].desired = merged,
          ![s].baseline = job[s].seen,
          ![s].pc = IF job[s].seen = merged THEN "confirm" ELSE "gate"]
     /\ UNCHANGED notionVars

(* A newer local intent committed after the check before the merge. *)
MergeSuperseded(s) ==
  /\ job[s].pc = "merge"
  /\ CanDispatch(job[s].op) /\ ~MayMerge(s)
  /\ SupersedeUnsent(job[s].op)
  /\ Continue(s)
  /\ UNCHANGED notionVars

MergeFails(s) ==
  /\ job[s].pc = "merge"
  /\ IF MayMerge(s) THEN ~Rebasable(job[s].op)
     ELSE CanDispatch(job[s].op) => ~NewerReplaces(job[s].op)
  /\ Goto(s, "defer")
  /\ UNCHANGED <<storeVars, notionVars>>

(* The last check only reads, and the request leaves in the same turn of    *)
(* the process: nothing else of this process can come between, but another *)
(* process may commit there.                                               *)
MaySend(s) ==
  /\ job[s].pc = "gate"
  /\ CanDispatch(job[s].op)
  /\ Goto(s, "send")
  /\ UNCHANGED <<storeVars, notionVars>>

Free(s) == s \in live /\ job[s].pc # "send"

Send(s) ==
  /\ job[s].pc = "send"
  /\ Provider!Issue([op |-> job[s].op, task |-> job[s].task,
                     copy |-> job[s].copy, fields |-> job[s].desired,
                     only |-> {f \in Field : \/ job[s].copy = NoCopy
                                             \/ job[s].desired[f] # job[s].seen[f]}])
  /\ Goto(s, "readBack")
  /\ UNCHANGED storeVars

(* The transport proved that nothing was sent. *)
SendSetupFails(s) ==
  /\ job[s].pc = "send"
  /\ Goto(s, "pause")
  /\ UNCHANGED <<storeVars, notionVars>>

SendFenced(s) ==
  /\ job[s].pc = "gate"
  /\ ~CanDispatch(job[s].op)
  /\ Goto(s, "defer")
  /\ UNCHANGED <<storeVars, notionVars>>

----------------------------------------------------------------------------
(* Ends of an attempt.                                                     *)

Defer(s) ==
  /\ job[s].pc = "defer"
  /\ DeferUnsent(job[s].op)
  /\ EndDrain(s)
  /\ UNCHANGED notionVars

(* The comparison with a newer intent fails and nothing catches the error. *)
DeferFails(s) ==
  /\ job[s].pc = "defer"
  /\ MayDefer(job[s].op) /\ NewerFails(job[s].op)
  /\ EndDrain(s)
  /\ UNCHANGED <<storeVars, notionVars>>

NotDeferred(s) ==
  /\ job[s].pc = "defer"
  /\ ~MayDefer(job[s].op)
  /\ Goto(s, "giveUp")
  /\ UNCHANGED <<storeVars, notionVars>>

PauseBeforeWrite(s) ==
  /\ job[s].pc = "pause"
  /\ \E retryAfter \in BOOLEAN : PauseUnsent(job[s].op, retryAfter)
  /\ EndDrain(s)
  /\ UNCHANGED notionVars

PauseFails(s) ==
  /\ job[s].pc = "pause"
  /\ MayPauseUnsent(job[s].op) /\ NewerFails(job[s].op)
  /\ Goto(s, "giveUp")
  /\ UNCHANGED <<storeVars, notionVars>>

(* The pause is refused: the drain ends with "quarantined" when a restore   *)
(* recorded the send and with an error otherwise.                          *)
PauseRefused(s) ==
  /\ job[s].pc = "pause"
  /\ ~MayPauseUnsent(job[s].op)
  /\ EndDrain(s)
  /\ UNCHANGED <<storeVars, notionVars>>

GiveUp(s) ==
  /\ job[s].pc = "giveUp"
  /\ IF Sending(s) THEN MarkUnknown(job[s].op) ELSE UNCHANGED storeVars
  /\ EndDrain(s)
  /\ UNCHANGED notionVars

ConfirmReadBack(s) ==
  /\ job[s].pc = "confirm"
  /\ Confirm(job[s].op, job[s].copy, job[s].seen)
  /\ Continue(s)
  /\ UNCHANGED notionVars

(* Only a replacement can have taken the attempt away. *)
ConfirmRefused(s) ==
  /\ job[s].pc = "confirm"
  /\ ~Confirmable(job[s].op, job[s].copy)
  /\ EndDrain(s)
  /\ UNCHANGED <<storeVars, notionVars>>

(* Manual reconciliation of an unknown attempt only reads. *)
Reconcile(s, o) ==
  /\ s \in live
  /\ job[s].pc = "idle"
  /\ outbox[o].status = "unknown"
  /\ job' = [job EXCEPT ![s] = Dispatching("readBack", {}, o)]
  /\ UNCHANGED <<storeVars, notionVars>>

----------------------------------------------------------------------------
Drain(s) == s \in live /\ (StartDrain(s) \/ FinishDrain(s) \/ Claim(s) \/ ClaimRefused(s))

Read(s) ==
  \/ PreflightFails(s) \/ PreflightUncertain(s) \/ PreflightAbsent(s)
  \/ PreflightPage(s) \/ ReadBackPage(s) \/ ReadBackFails(s)

Decide(s) ==
  \/ Supersede(s) \/ SupersedeFails(s) \/ NotSuperseded(s)
  \/ Merge(s) \/ MergeSuperseded(s) \/ MergeFails(s)
  \/ MaySend(s) \/ Send(s) \/ SendSetupFails(s) \/ SendFenced(s)

Finish(s) ==
  \/ Defer(s) \/ DeferFails(s) \/ NotDeferred(s)
  \/ PauseBeforeWrite(s) \/ PauseFails(s) \/ PauseRefused(s)
  \/ GiveUp(s) \/ ConfirmReadBack(s) \/ ConfirmRefused(s)

Dispatch(s) == Drain(s) \/ Read(s) \/ Decide(s) \/ Finish(s)

ProviderStep == Provider!ProviderNext /\ UNCHANGED <<storeVars, job>>

=============================================================================
