------------------------------ MODULE MCNotionSync ------------------------------
(***************************************************************************)
(* NotionSync on small instances.                                          *)
(***************************************************************************)
EXTENDS NotionSync, TLC

Symmetric == Permutations(Copy) \cup Permutations(Sender) \cup Permutations(Task)

(* An undisturbed workspace: people pause, resume and reconcile, processes *)
(* crash and are replaced, but nobody disconnects or restores.             *)
SteadyNext ==
  \/ \E s \in Sender :
       \/ PlannerStep(s) \/ DispatchStep(s) \/ ReconcileStep(s)
       \/ Restart(s)
       \/ started # Sender /\ Stop(s)
  \/ FenceStep /\ (Pause \/ Resume \/ DeadlinePasses)
  \/ NotionStep

SteadySpec == Init /\ [][SteadyNext]_vars /\ Fairness

(* Two processes, an active connection and nothing going wrong. *)
UndisturbedNext ==
  \/ \E s \in Sender : PlannerStep(s) \/ DispatchStep(s) \/ Open(s)
  \/ NotionStep

UndisturbedSpec == Init /\ [][UndisturbedNext]_vars

=============================================================================
