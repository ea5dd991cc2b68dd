------------------------------ MODULE AgentRun ------------------------------
(***************************************************************************)
(* The planning runs of one API process: requests of the user, and the     *)
(* background job of each run, which asks a model outside any transaction  *)
(* and commits its answer only to a run that still waits for it.           *)
(***************************************************************************)
EXTENDS AgentStore

VARIABLES
    up,        \* the process is running and accepts requests
    launches,  \* runs whose job starts as soon as the previous one settled
    job,       \* background job of each run, lost with the process
    lost,      \* history variable: runs whose failure this process could not record
    born,      \* history variable: identifiers of runs that were created
    asked      \* history variable: requests to the model per run

runVars == <<up, launches, job, lost, born, asked>>

\* begin: before the first read; next: before the transaction that counts a
\* call; call: the model is asked; answered: its answer or error is known;
\* failing: before the transaction that records the failure.
Place == {"begin", "next", "call", "answered", "failing"}
Answer == {"none", "ready", "no_action", "needs_clarification", "repairable", "error"}
Job == [pc : Place, aborted : BOOLEAN, repaired : BOOLEAN, calls : 0..3,
        round : {0, 1}, answer : Answer]
ASSUME NoJobAssumption == NoRow \notin Job

RunInit ==
    /\ up = TRUE /\ launches = {}
    /\ job = [r \in Runs |-> NoRow]
    /\ lost = {} /\ born = {}
    /\ asked = [r \in Runs |-> 0]

NewJob == [pc |-> "begin", aborted |-> FALSE, repaired |-> FALSE, calls |-> 0,
           round |-> 0, answer |-> "none"]

\* The inputs of the snapshot are those of now; the planner revision may differ.
SnapshotCurrent(s) ==
    /\ s.date = clock + s.zone
    /\ s.zone = pref.zone /\ s.pref = pref.rev
    /\ ctx[s.ctx] # NoRow /\ ctx[s.ctx].rev = s.rev
    /\ s.ver.epoch = ver.epoch /\ s.gen = gen

Stale(r) == snap[r] = NoRow \/ ~SnapshotCurrent(snap[r])
LastProposal(r) == {p \in ProposalIds : p[1] = r /\ prop[p] # NoRow}

\* Jobs among `rs` stop waiting for the model.
Abort(rs) == [r \in Runs |-> IF r \in rs /\ job[r] # NoRow
                             THEN [job[r] EXCEPT !.aborted = TRUE] ELSE job[r]]
WithStatus(rs, s) == [r \in Runs |-> IF r \in rs THEN [run[r] EXCEPT !.status = s] ELSE run[r]]
\* The unfinished proposal of a run ends with it.
EndProposal(r) ==
    [p \in ProposalIds |->
        IF p \in LastProposal(r) /\ prop[p].life \in {"ready", "not_applicable"}
        THEN [prop[p] EXCEPT !.life = "superseded"] ELSE prop[p]]

(***************************************************************************)
(* Requests.                                                               *)
(***************************************************************************)

\* An active run whose inputs changed is retired, in a transaction of its own.
Retire(r) ==
    /\ up /\ Active(r) /\ Stale(r)
    /\ run' = WithStatus({r}, "failed")
    /\ prop' = EndProposal(r)
    /\ job' = Abort({r})
    /\ UNCHANGED <<snap, request, ledger, up, launches, lost, born, asked, historyVars, inputVars>>

\* A new request, with no other run active, takes a snapshot and starts a run.
\* Recurring tasks due today may be created on the way.
CreateRun(q, r) ==
    /\ up /\ request[q] = NoRow /\ r \notin born
    /\ \A other \in Runs : ~Active(other)
    /\ \E generated \in {0, 1} :
        /\ ver.rev + generated <= MaxRev
        /\ ver' = [ver EXCEPT !.rev = @ + generated]
        /\ touched' = (IF generated = 1 THEN Runs ELSE touched) \ {r}
        /\ moved' = IF generated = 1 THEN OpIds ELSE moved
    /\ snap' = [snap EXCEPT ![r] = NewSnapshot(ver')]
    /\ ctx' = [ctx EXCEPT ![ContextId] = ReadContext(ContextId)]
    /\ prop' = Supersede(ProposalIds)
    /\ run' = [run EXCEPT ![r] = [status |-> "running", round |-> 0, calls |-> 0]]
    /\ request' = [request EXCEPT ![q] = r]
    /\ job' = Abort(Runs)
    /\ launches' = launches \cup {r}
    /\ born' = born \cup {r}
    /\ UNCHANGED <<gen, pref, clock, open, focus, ledger, up, lost, asked, executed>>

\* A request that is refused after the jobs of deleted runs were stopped.
CreateRefused ==
    /\ up /\ \A other \in Runs : ~Active(other)
    /\ job' = Abort(Runs) /\ job' # job
    /\ UNCHANGED <<up, launches, lost, born, asked, storeVars>>

\* Mutant. The continuation starts counting again.
AnswerRunRecounts(r) ==
    /\ up /\ run[r] # NoRow /\ run[r].status = "needs_clarification" /\ run[r].round = 0
    /\ ~Stale(r)
    /\ prop' = [prop EXCEPT ![<<r, 0>>].life = "superseded"]
    /\ run' = [run EXCEPT ![r].status = "running", ![r].round = 1, ![r].calls = 0]
    /\ launches' = launches \cup {r}
    /\ UNCHANGED <<snap, request, ledger, up, job, lost, born, asked, historyVars, inputVars>>

\* The single clarification of a run is answered; the run continues.
AnswerRun(r) ==
    /\ up /\ run[r] # NoRow /\ run[r].status = "needs_clarification" /\ run[r].round = 0
    /\ ~Stale(r)
    /\ prop' = [prop EXCEPT ![<<r, 0>>].life = "superseded"]
    /\ run' = [run EXCEPT ![r].status = "running", ![r].round = 1]
    /\ launches' = launches \cup {r}
    /\ UNCHANGED <<snap, request, ledger, up, job, lost, born, asked, historyVars, inputVars>>

CancelRun(r) ==
    /\ up /\ Active(r) /\ snap[r] # NoRow
    /\ run' = WithStatus({r}, "cancelled")
    /\ prop' = [p \in ProposalIds |-> IF p \in LastProposal(r)
                    THEN [prop[p] EXCEPT !.life = "superseded"] ELSE prop[p]]
    /\ job' = Abort({r})
    /\ UNCHANGED <<snap, request, ledger, up, launches, lost, born, asked, historyVars, inputVars>>

(***************************************************************************)
(* The job of a run.                                                       *)
(***************************************************************************)

Goto(r, pc) == job' = [job EXCEPT ![r].pc = pc]
End(r) == job' = [job EXCEPT ![r] = NoRow]
JobOnly == UNCHANGED <<up, launches, lost, born, asked, storeVars>>
RowsOnly == UNCHANGED <<up, launches, lost, born, asked, snap, request, ledger, historyVars, inputVars>>

Launch(r) ==
    /\ up /\ r \in launches /\ job[r] = NoRow
    /\ launches' = launches \ {r}
    /\ job' = [job EXCEPT ![r] = NewJob]
    /\ UNCHANGED <<up, lost, born, asked, storeVars>>

\* Mutant. A result is stored although the run ended meanwhile.
FinishLate(r, kind) ==
    /\ run[r] # NoRow
    /\ prop' = [prop EXCEPT ![<<r, run[r].round>>] =
            [life |-> IF kind = "ready" THEN "ready" ELSE "not_applicable",
             tasks |-> IF kind = "ready" THEN Tasks ELSE {}]]
    /\ run' = WithStatus({r}, kind)
    /\ End(r) /\ RowsOnly

\* Inputs that leave nothing to decide: the host answers without a model.
ForcedNoAction(s) ==
    \/ s.in.rest
    \/ s.candidates = {}
    \/ Cardinality(s.in.required) > s.in.capacity
    \/ ~(s.in.required \subseteq s.candidates)

\* What validatePlanningOutput accepts as a choice of tasks.
Acceptable(s) ==
    {chosen \in SUBSET s.candidates \ {{}} :
        s.in.required \subseteq chosen /\ Cardinality(chosen) <= s.in.capacity}

\* finish(): the output is stored if the run still waits and its inputs are
\* current; changed inputs are an error of this run.
Finish(r, kind) ==
    LET p == <<r, run[r].round>> IN
    \/ run[r] = NoRow /\ End(r) /\ JobOnly
    \/ run[r] # NoRow /\ run[r].status # "running" /\ End(r) /\ JobOnly
    \/ run[r] # NoRow /\ run[r].status = "running" /\ Stale(r) /\ Goto(r, "failing") /\ JobOnly
    \/ /\ run[r] # NoRow /\ run[r].status = "running" /\ ~Stale(r)
       /\ \E chosen \in IF kind = "ready" THEN Acceptable(snap[r]) ELSE {{}} :
            prop' = [prop EXCEPT ![p] =
                [life |-> IF kind = "ready" THEN "ready" ELSE "not_applicable", tasks |-> chosen]]
       /\ run' = WithStatus({r}, kind)
       /\ End(r) /\ RowsOnly

\* A day without choices needs no model.
Begin(r) ==
    /\ up /\ job[r] # NoRow /\ job[r].pc = "begin"
    /\ IF run[r] = NoRow \/ snap[r] = NoRow THEN End(r) /\ JobOnly
       ELSE IF ForcedNoAction(snap[r]) THEN Finish(r, "no_action")
       ELSE Goto(r, "next") /\ JobOnly

\* The call is counted in the transaction before the model is asked.
CountCall(r) ==
    /\ up /\ job[r] # NoRow /\ job[r].pc = "next"
    /\ IF run[r] = NoRow \/ job[r].aborted THEN End(r) /\ JobOnly
       ELSE IF run[r].status # "running" THEN End(r) /\ JobOnly
       ELSE IF run[r].calls >= 3 \/ Stale(r) THEN Goto(r, "failing") /\ JobOnly
       ELSE /\ run' = [run EXCEPT ![r].calls = @ + 1]
            /\ job' = [job EXCEPT ![r].pc = "call", ![r].calls = run[r].calls + 1,
                                  ![r].round = run[r].round]
            /\ asked' = [asked EXCEPT ![r] = @ + 1]
            /\ UNCHANGED <<prop, snap, request, ledger, up, launches, lost, born, historyVars, inputVars>>

\* The model answers or fails, 30 seconds pass, or the wait is aborted.
ModelAnswers(r, answer) ==
    /\ up /\ job[r] # NoRow /\ job[r].pc = "call" /\ answer # "none"
    /\ job[r].aborted => answer = "error"
    /\ job' = [job EXCEPT ![r].pc = "answered", ![r].answer =
                IF answer = "needs_clarification" /\ job[r].round > 0 THEN "error" ELSE answer]
    /\ JobOnly

MayRepair(j) == ~j.aborted /\ j.answer = "repairable" /\ ~j.repaired /\ j.calls < 3

UseAnswer(r) ==
    /\ up /\ job[r] # NoRow /\ job[r].pc = "answered"
    /\ IF job[r].answer \in {"ready", "no_action", "needs_clarification"}
       THEN Finish(r, job[r].answer)
       ELSE /\ IF MayRepair(job[r])
               THEN job' = [job EXCEPT ![r].pc = "next", ![r].repaired = TRUE]
               ELSE Goto(r, "failing")
            /\ JobOnly

Fail(r) ==
    /\ up /\ job[r] # NoRow /\ job[r].pc = "failing"
    /\ End(r)
    /\ IF run[r] # NoRow /\ run[r].status = "running"
       THEN run' = WithStatus({r}, "failed") /\ UNCHANGED prop /\ RowsOnly
       ELSE JobOnly

\* A transaction of the job is rolled back by the database.
WriteFails(r) ==
    /\ up /\ job[r] # NoRow /\ job[r].pc \in {"begin", "next", "answered"}
    /\ Goto(r, "failing") /\ JobOnly

\* So is the one that records the failure: the run stays as it is, without a
\* job, until it is cancelled or retired or a process starts.
FailLost(r) ==
    /\ up /\ job[r] # NoRow /\ job[r].pc = "failing"
    /\ run[r] # NoRow /\ run[r].status = "running"
    /\ End(r)
    /\ lost' = lost \cup {r}
    /\ UNCHANGED <<up, launches, born, asked, storeVars>>

JobStep(r) ==
    \/ Launch(r) \/ Begin(r) \/ CountCall(r) \/ UseAnswer(r) \/ Fail(r)
    \/ WriteFails(r) \/ FailLost(r)
    \/ \E answer \in Answer : ModelAnswers(r, answer)

(***************************************************************************)
(* Processes come and go.                                                  *)
(***************************************************************************)

\* close(): runs are interrupted while their jobs are given up.
Close ==
    /\ up /\ up' = FALSE
    /\ run' = WithStatus({r \in Runs : Active(r)}, "interrupted")
    /\ job' = [r \in Runs |-> NoRow] /\ launches' = {} /\ lost' = {}
    /\ UNCHANGED <<prop, snap, request, ledger, born, asked, historyVars, inputVars>>

\* The process dies with its jobs; the rows keep the run active.
Crash ==
    /\ up /\ up' = FALSE
    /\ job' = [r \in Runs |-> NoRow] /\ launches' = {} /\ lost' = {}
    /\ UNCHANGED <<born, asked, storeVars>>

\* Mutant. A start leaves the rows of the last process alone.
StartLazy ==
    /\ ~up /\ up' = TRUE
    /\ UNCHANGED run
    /\ UNCHANGED <<prop, snap, request, ledger, launches, job, lost, born, asked, historyVars, inputVars>>

\* initialize(): what was active when the last process ended is interrupted.
Start ==
    /\ ~up /\ up' = TRUE
    /\ run' = WithStatus({r \in Runs : Active(r)}, "interrupted")
    /\ UNCHANGED <<prop, snap, request, ledger, launches, job, lost, born, asked, historyVars, inputVars>>

RequestStep ==
    \/ \E r \in Runs : Retire(r) \/ AnswerRun(r) \/ CancelRun(r)
    \/ \E q \in Requests, r \in Runs : CreateRun(q, r)
    \/ CreateRefused
=============================================================================
