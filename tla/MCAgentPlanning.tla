-------------------------- MODULE MCAgentPlanning --------------------------
(***************************************************************************)
(* AgentPlanning for TLC, in parts: what one behaviour combines is chosen  *)
(* at its start.                                                           *)
(***************************************************************************)
EXTENDS AgentPlanning, TLC

VARIABLE part

\* A day with one task at most, against the default limit of three.
OneInput == {[NoLimits EXCEPT !.capacity = 1]}

\* Names are used in one order: the symmetric behaviours are left out.
Before(S) == CHOOSE x \in S : TRUE
InOrder(S, used) == used \subseteq S /\ (used # {} => Before(S) \in used)
NamesInOrder ==
    /\ InOrder(Runs, born')
    /\ InOrder(Requests, {q \in Requests : request'[q] # NoRow})
    /\ InOrder(OpIds, {o \in OpIds : ledger'[o] # NoRow})

\* Runs, retries, clarifications, crashes and clearing; a change of preferences
\* is what makes them stale.
RunsNext ==
    \/ up /\ (UpdatePreferences \/ ClearHistory
                \/ \E p \in ProposalIds : RejectProposal(p)) /\ UNCHANGED runVars
    \/ RequestStep
    \/ \E r \in Runs : JobStep(r)
    \/ Close \/ Crash \/ Start
RunsBound == ver'.rev <= 1 /\ pref'.zone = 0

\* Executions against every change of their inputs; the process stays up,
\* nobody cancels, and but for the daily input nothing changes before a run.
ExecutionsNext ==
    \/ UserStep /\ (born = {} => ctx' # ctx) /\ UNCHANGED runVars
    \/ ExecutionStep /\ UNCHANGED runVars
    \/ \E q \in Requests, r \in Runs : CreateRun(q, r)
    \/ \E r \in Runs : AnswerRun(r) \/ JobStep(r)

\* One run, and a restore, a midnight, or changed preferences and an imported
\* archive, besides the edits of the planner and of the daily input.
ChangesBound ==
    /\ born' \subseteq {Before(Runs)}
    /\ ver'.epoch + clock' + (IF gen' + pref'.rev > 0 THEN 1 ELSE 0) <= 1

\* Two runs, with the history cleared between them and the tasks edited.
ClearedBound ==
    /\ ver'.epoch + gen' + pref'.rev + clock' = 0
    /\ \A k \in ContextIds : ctx'[k] # NoRow => ctx'[k].rev = 0
    /\ ver'.rev <= 2

PartsNext ==
    /\ UNCHANGED part
    /\ \/ part = "runs" /\ RunsNext /\ RunsBound
       \/ part = "changes" /\ ExecutionsNext /\ ChangesBound
       \/ part = "cleared" /\ ExecutionsNext /\ ClearedBound
    /\ NamesInOrder

PartsInit ==
    /\ Init /\ part \in {"runs", "changes", "cleared"}
    /\ part # "changes" => pref.zone = 0

PartsSpec == PartsInit /\ [][PartsNext]_<<vars, part>>
=============================================================================
