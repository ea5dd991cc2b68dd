---------------------------- MODULE NotionReconcile ----------------------------
(***************************************************************************)
(* The three-way comparison between a linked task, its Notion page and the *)
(* common baseline, the last values both sides are known to have shared    *)
(* (packages/core/src/application/notion-sync-reconcile.ts).  The shared    *)
(* fields are the title, the plan date (a whole range, compared and        *)
(* assigned as one value) and the completion flag.                         *)
(***************************************************************************)

CONSTANTS
  Field,    \* the shared fields
  Value     \* the values a field may hold

TaskFields == [Field -> Value]

(* One side moved away from the common baseline. *)
Changed(f, side, baseline) == side[f] # baseline[f]

(* Mutant of PatchFields: the last writer wins. *)
PatchFieldsLastWriter(baseline, local, remote) ==
  {f \in Field : Changed(f, local, baseline)}

(* The fields whose local value may be sent: only the local side moved. *)
PatchFields(baseline, local, remote) ==
  {f \in Field : Changed(f, local, baseline) /\ ~Changed(f, remote, baseline)}

(* Start from the remote values and overlay the local intents that may be  *)
(* sent; on a field both sides moved, Notion wins.                         *)
Merged(baseline, local, remote) ==
  [f \in Field |-> IF f \in PatchFields(baseline, local, remote)
                     THEN local[f] ELSE remote[f]]

RemotePatch(baseline, local, remote) ==
  [f \in PatchFields(baseline, local, remote) |-> local[f]]

(* Mutant of Conflicts: an edit that both sides made counts. *)
ConflictsWhenEqual(baseline, local, remote) ==
  {f \in Field : /\ Changed(f, local, baseline)
                 /\ Changed(f, remote, baseline)}

(* Both sides moved, to different values: the decision is recorded. *)
Conflicts(baseline, local, remote) ==
  {f \in Field : /\ Changed(f, local, baseline)
                 /\ Changed(f, remote, baseline)
                 /\ local[f] # remote[f]}

=============================================================================
