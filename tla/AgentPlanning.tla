--------------------------- MODULE AgentPlanning ---------------------------
(***************************************************************************)
(* Daily planning as a whole: users, one API process with the jobs of its  *)
(* runs, executions, and the crashes and restarts of the process.          *)
(***************************************************************************)
EXTENDS AgentRun, AgentExecution

vars == <<storeVars, runVars>>

Init == StoreInit /\ RunInit

Next ==
    \/ up /\ UserStep /\ UNCHANGED runVars
    \/ up /\ ExecutionStep /\ UNCHANGED runVars
    \/ RequestStep
    \/ \E r \in Runs : JobStep(r)
    \/ Close \/ Crash \/ Start

Spec == Init /\ [][Next]_vars

(***************************************************************************)
(* Properties.                                                             *)
(***************************************************************************)

\* The rows of every table and the jobs have their types; a proposal has the run
\* and the snapshot it was made from.
TypeOK ==
    /\ ver \in Versions /\ gen \in 0..MaxGen /\ clock \in 0..MaxDay
    /\ pref \in [rev : 0..MaxPref, zone : Zones]
    /\ ctx \in [ContextIds -> Context \cup {NoRow}]
    /\ open \subseteq Tasks
    /\ focus \in [Dates -> SUBSET Tasks]
    /\ run \in [Runs -> Run \cup {NoRow}]
    /\ snap \in [Runs -> Snapshot \cup {NoRow}]
    /\ prop \in [ProposalIds -> Proposal \cup {NoRow}]
    /\ request \in [Requests -> Runs \cup {NoRow}]
    /\ ledger \in [OpIds -> Receipt \cup {Cleared, NoRow}]
    /\ job \in [Runs -> Job \cup {NoRow}] /\ launches \subseteq Runs /\ lost \subseteq Runs
    /\ \A p \in ProposalIds : prop[p] # NoRow => run[p[1]] # NoRow /\ snap[p[1]] # NoRow

\* There is one current plan: at most one run is active or one proposal waits for
\* the user, through retries, clarifications, late results and restarts.
OneCurrentPlan ==
    Cardinality({r \in Runs : Active(r)}) + Cardinality(ReadyProposals) <= 1

\* A run asks the model at most three times, its clarification and the repairs of
\* both rounds included.
CallCap == \A r \in Runs : asked[r] <= 3

\* A run that ended keeps its outcome: no late answer, cancellation or restart
\* changes it, until the history is cleared.
EndedRunStays ==
    [][\A r \in Runs : run[r] # NoRow /\ ~Active(r) => run'[r] \in {run[r], NoRow}]_vars

\* A proposal is taken only if no edit, restore, preference, context, import or
\* day came between its snapshot and the user.
AppliedUntouched ==
    [][\A p \in ProposalIds :
        prop[p] # NoRow /\ prop[p].life = "ready" /\ prop'[p] # NoRow /\ prop'[p].life = "applied"
            => p[1] \notin touched]_vars

\* An operation identifier is carried out once, even if its receipt was deleted
\* with the history before the client asked again.
ExecutedOnce == \A o \in OpIds : executed[o] <= 1

\* Taking an operation back restores the focus it replaced, and only while the
\* planner did not change since.
RevertedUntouched ==
    [][\A o \in OpIds : executed'[o] > executed[o] /\ ledger'[o].action = "revert" =>
        \E target \in OpIds \ moved :
            /\ ledger[target].action = "apply"
            /\ focus'[Date] = ledger[target].before]_vars

\* While a process is up, a running run has a job or gets one, unless this
\* process tried to record that the run failed and the database refused: nothing
\* else waits for the next restart, and no run is left over from an earlier one.
RunningHasJob ==
    up => \A r \in Runs : run[r] # NoRow /\ run[r].status = "running"
                            => job[r] # NoRow \/ r \in launches \/ r \in lost

=============================================================================
