------------------------------- MODULE NotionMerge -------------------------------
(***************************************************************************)
(* The life of one linked task and its page when every exchange succeeds:  *)
(* a person edits either side, a send rebases the local intent on what it  *)
(* read and then carries the remaining differences over.  It exercises the *)
(* comparison of NotionReconcile on every triple that edits can produce.   *)
(***************************************************************************)
EXTENDS NotionReconcile

VARIABLES baseline, local, remote

mergeVars == <<baseline, local, remote>>

MergeInit ==
  /\ baseline \in TaskFields
  /\ local = baseline
  /\ remote = baseline

EditLocal(f, v) ==
  /\ local' = [local EXCEPT ![f] = v]
  /\ UNCHANGED <<baseline, remote>>

EditRemote(f, v) ==
  /\ remote' = [remote EXCEPT ![f] = v]
  /\ UNCHANGED <<baseline, local>>

(* applyPreflightMerge and rebaseNotionSending. *)
Rebase ==
  /\ remote # baseline
  /\ local' = Merged(baseline, local, remote)
  /\ baseline' = remote
  /\ UNCHANGED remote

(* The PATCH is computed against the values just read; its read-back       *)
(* becomes the baseline.                                                   *)
Push ==
  /\ remote = baseline
  /\ LET patch == RemotePatch(remote, local, remote)
     IN remote' = [f \in Field |-> IF f \in DOMAIN patch THEN patch[f]
                                                         ELSE remote[f]]
  /\ baseline' = remote'
  /\ UNCHANGED local

MergeNext ==
  \/ \E f \in Field, v \in Value : EditLocal(f, v) \/ EditRemote(f, v)
  \/ Rebase
  \/ Push

MergeSpec == MergeInit /\ [][MergeNext]_mergeVars

----------------------------------------------------------------------------
(* Types of the three sides. *)
MergeTypeOK == {baseline, local, remote} \subseteq TaskFields

(* Field by field, the merge keeps the only side that moved, and Notion's  *)
(* value where both did (reconcileNotionTask).                             *)
MergeDecides ==
  LET merged == Merged(baseline, local, remote)
  IN \A f \in Field :
       /\ remote[f] = baseline[f] => merged[f] = local[f]
       /\ local[f] = baseline[f] => merged[f] = remote[f]
       /\ merged[f] # remote[f] => remote[f] = baseline[f]

(* The PATCH recomputed after the merge, with the values read as baseline, *)
(* sends exactly the fields that the first comparison found sendable: the  *)
(* two calls of dispatchOne never disagree on what goes to Notion.         *)
SecondPatchAgrees ==
  RemotePatch(remote, Merged(baseline, local, remote), remote)
    = RemotePatch(baseline, local, remote)

(* A conflict is recorded exactly for the local edits that the merge       *)
(* discards: no edit disappears without a record, and none is recorded     *)
(* that survives.                                                          *)
ConflictsAreLosses ==
  Conflicts(baseline, local, remote)
    = {f \in Field : /\ local[f] # baseline[f]
                     /\ Merged(baseline, local, remote)[f] # local[f]}

=============================================================================
