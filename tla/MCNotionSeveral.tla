---------------------------- MODULE MCNotionSeveral ----------------------------
(***************************************************************************)
(* NotionSync with several processes: a behaviour is a scene without or    *)
(* with restores.                                                          *)
(***************************************************************************)
EXTENDS MCNotionSync

VARIABLE scene

(* Several API processes share the database, and the dataset stays.        *)
SharedNext ==
  \/ \E s \in Sender :
       PlannerStep(s) \/ DispatchStep(s) \/ ReconcileStep(s) \/ Open(s) \/ Stop(s)
  \/ FenceStep
  \/ NotionStep

(* Several processes with restores, when no process stops and nobody pauses, *)
(* disconnects or reconciles.                                              *)
RestoredNext ==
  \/ \E s \in Sender : PlannerStep(s) \/ DispatchStep(s) \/ RestoreStep(s) \/ Open(s)
  \/ NotionStep

(* There one operation less, and one page of a task, are enough. *)
RestoredBound ==
  /\ nextOp' <= 2
  /\ \A t \in Task : Cardinality({c \in Copy : remote'[t][c] # NoFields}) <= 1

SeveralSpec ==
  /\ Init /\ scene \in {"shared", "restored"}
  /\ [][/\ UNCHANGED scene
        /\ \/ scene = "shared" /\ SharedNext
           \/ scene = "restored" /\ RestoredNext /\ RestoredBound]_<<vars, scene>>

=============================================================================
