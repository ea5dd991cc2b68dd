----------------------------- MODULE AgentStore -----------------------------
(***************************************************************************)
(* The rows on which daily planning with a model works, and the            *)
(* transactions of everybody but the model: planner commands, restores,    *)
(* preferences, the daily input (context), planning history and agent      *)
(* backups.  A snapshot remembers the versions it was made from; a         *)
(* proposal refers to the snapshot of its run.                             *)
(***************************************************************************)
EXTENDS Naturals, FiniteSets

CONSTANTS
    Runs,        \* identifiers of planning runs, never reused
    Tasks,       \* tasks scheduled until today
    Inputs,      \* what users say of their day
    OpIds,       \* operation identifiers chosen by clients
    Zones,       \* time zones, as days the local date is ahead
    Requests,    \* identifiers clients give to requests for a run
    NoRow,       \* marker: this row does not exist
    MaxEpoch, MaxRev, MaxGen, MaxPref, MaxCtx, MaxDay   \* bounds of counters

ASSUME ZonesAssumption == Zones \subseteq {0, 1} /\ Zones # {}
DailyInput == [rest : BOOLEAN, required : SUBSET Tasks, blocked : SUBSET Tasks,
               capacity : 1..3]
ASSUME InputAssumption == Inputs \subseteq DailyInput
ASSUME BoundAssumption ==
    \A n \in {MaxEpoch, MaxRev, MaxGen, MaxPref, MaxCtx, MaxDay} : n \in Nat

VARIABLES
    ver,         \* dataset epoch and planner revision
    gen,         \* agent generation
    pref,        \* revision of the preferences and the time zone in them
    clock,       \* days that passed
    ctx,         \* the daily contexts that exist
    open,        \* tasks not completed yet
    focus,       \* focus of each date
    run, snap, prop, request, ledger,   \* agent rows; request: the run it created
    touched,     \* history variable: runs whose inputs changed after the snapshot
    moved,       \* history variable: operations after which the planner changed
    executed     \* history variable: how often an operation was carried out

inputVars == <<ver, gen, pref, clock, ctx, open, focus>>
agentVars == <<run, snap, prop, request, ledger>>
historyVars == <<touched, moved, executed>>
storeVars == <<inputVars, agentVars, historyVars>>

Dates == 0..(MaxDay + 1)
Date == clock + pref.zone

Versions == [epoch : 0..MaxEpoch, rev : 0..(MaxRev + 1)]
ContextIds == [epoch : 0..MaxEpoch, zone : Zones, gen : 0..MaxGen, date : Dates]

\* The identifier of today's context, from epoch, time zone, generation and date.
ContextId == [epoch |-> ver.epoch, zone |-> pref.zone, gen |-> gen, date |-> Date]

RunStatus == {"running", "needs_clarification", "ready", "no_action",
              "failed", "cancelled", "interrupted"}
Run == [status : RunStatus, round : {0, 1}, calls : 0..3]
Snapshot == [ver : Versions, gen : 0..MaxGen, pref : 0..MaxPref, zone : Zones,
             date : Dates, ctx : ContextIds, rev : 0..MaxCtx, in : DailyInput,
             candidates : SUBSET Tasks]
Context == [rev : 0..MaxCtx, in : DailyInput]
Lifecycle == {"ready", "applied", "rejected", "superseded", "not_applicable"}
Proposal == [life : Lifecycle, tasks : SUBSET Tasks]
Receipt == [action : {"apply", "revert"}, changed : BOOLEAN, after : Versions,
            gen : 0..MaxGen, date : Dates, zone : Zones,
            before : SUBSET Tasks, final : SUBSET Tasks]
Cleared == [action |-> "cleared"]

\* The marker is no run and no row.
ASSUME NoRowAssumption ==
    /\ NoRow \notin Runs /\ NoRow \notin Run /\ NoRow \notin Snapshot
    /\ NoRow \notin Proposal /\ NoRow \notin Context
    /\ NoRow \notin Receipt /\ NoRow # Cleared

Active(r) == run[r] # NoRow /\ run[r].status \in {"running", "needs_clarification"}

ProposalIds == Runs \X {0, 1}     \* a run makes at most one per round
ReadyProposals == {p \in ProposalIds : prop[p] # NoRow /\ prop[p].life = "ready"}

\* Mutant. Proposals stay ready when their inputs change.
SupersedeNone(ids) == [p \in ProposalIds |-> prop[p]]

\* The proposals of `ids` that are still ready can no longer be taken.
Supersede(ids) ==
    [p \in ProposalIds |->
        IF p \in ids \cap ReadyProposals THEN [prop[p] EXCEPT !.life = "superseded"] ELSE prop[p]]

\* A context is created without limits when it is first read.
NoLimits == [rest |-> FALSE, required |-> {}, blocked |-> {}, capacity |-> 3]
ReadContext(k) == IF ctx[k] = NoRow THEN [rev |-> 0, in |-> NoLimits] ELSE ctx[k]

\* What a run plans on: versions, today's context, and the tasks that can be done.
NewSnapshot(v) ==
    [ver |-> v, gen |-> gen, pref |-> pref.rev, zone |-> pref.zone, date |-> Date,
     ctx |-> ContextId, rev |-> ReadContext(ContextId).rev, in |-> ReadContext(ContextId).in,
     candidates |-> open \ ReadContext(ContextId).in.blocked]

\* Inputs of every run changed / the planner changed after every operation.
TouchAll == touched' = Runs /\ UNCHANGED <<moved, executed>>
MoveAll == touched' = Runs /\ moved' = OpIds /\ UNCHANGED executed

StoreInit ==
    /\ ver = [epoch |-> 0, rev |-> 0]
    /\ gen = 0 /\ clock = 0
    /\ \E z \in Zones : pref = [rev |-> 0, zone |-> z]
    /\ ctx = [k \in ContextIds |-> NoRow]
    /\ open = Tasks
    /\ focus = [d \in Dates |-> {}]
    /\ run = [r \in Runs |-> NoRow]
    /\ snap = [r \in Runs |-> NoRow]
    /\ prop = [p \in ProposalIds |-> NoRow]
    /\ request = [q \in Requests |-> NoRow]
    /\ ledger = [o \in OpIds |-> NoRow]
    /\ touched = {} /\ moved = {}
    /\ executed = [o \in OpIds |-> 0]

(***************************************************************************)
(* Transactions of the planner, of preferences, context and history.       *)
(***************************************************************************)

\* A planner command commits: one transaction raises the revision once.
EditPlanner ==
    /\ ver.rev < MaxRev
    /\ ver' = [ver EXCEPT !.rev = @ + 1]
    /\ open' \in SUBSET Tasks
    /\ \E chosen \in SUBSET open' : focus' = [focus EXCEPT ![Date] = chosen]
    /\ MoveAll
    /\ UNCHANGED <<gen, pref, clock, ctx, agentVars>>

\* A backup replaces the dataset under a new epoch; agent rows stay.
RestorePlanner ==
    /\ ver.epoch < MaxEpoch
    /\ ver' = [epoch |-> ver.epoch + 1, rev |-> 0]
    /\ open' = Tasks /\ focus' = [d \in Dates |-> {}]
    /\ MoveAll
    /\ UNCHANGED <<gen, pref, clock, ctx, agentVars>>

\* Preferences are saved against the revision the page had read.
UpdatePreferences ==
    /\ pref.rev < MaxPref
    /\ \E z \in Zones : pref' = [rev |-> pref.rev + 1, zone |-> z]
    /\ prop' = Supersede(ProposalIds)
    /\ TouchAll
    /\ UNCHANGED <<ver, gen, clock, ctx, open, focus, run, snap, request, ledger>>

\* Today's input is saved; proposals made from this context end.
UpdateContext ==
    LET k == ContextId IN
    /\ ReadContext(k).rev < MaxCtx
    /\ \E in \in Inputs \ {ReadContext(k).in} :
        ctx' = [ctx EXCEPT ![k] = [rev |-> ReadContext(k).rev + 1, in |-> in]]
    /\ prop' = Supersede({p \in ProposalIds : snap[p[1]] # NoRow /\ snap[p[1]].ctx = k})
    /\ touched' = touched \cup {r \in Runs : snap[r] # NoRow /\ snap[r].ctx = k}
    /\ UNCHANGED <<ver, gen, pref, clock, open, focus, run, snap, request, ledger, moved, executed>>

\* Midnight passes everywhere.
DayPasses ==
    /\ clock < MaxDay
    /\ clock' = clock + 1
    /\ TouchAll
    /\ UNCHANGED <<ver, gen, pref, ctx, open, focus, agentVars>>

\* Mutant. Clearing the history forgets the operations as well.
ClearHistoryForgets ==
    /\ ctx' = [k \in ContextIds |-> NoRow]
    /\ run' = [r \in Runs |-> NoRow]
    /\ snap' = [r \in Runs |-> NoRow]
    /\ prop' = [p \in ProposalIds |-> NoRow]
    /\ request' = [q \in Requests |-> NoRow]
    /\ ledger' = [o \in OpIds |-> NoRow]
    /\ UNCHANGED <<ver, gen, pref, clock, open, focus, historyVars>>

\* Clearing the history deletes rows, but keeps the operations of the ledger.
ClearHistory ==
    /\ ctx' = [k \in ContextIds |-> NoRow]
    /\ run' = [r \in Runs |-> NoRow]
    /\ snap' = [r \in Runs |-> NoRow]
    /\ prop' = [p \in ProposalIds |-> NoRow]
    /\ request' = [q \in Requests |-> NoRow]
    /\ ledger' = [o \in OpIds |-> IF ledger[o] = NoRow THEN NoRow ELSE Cleared]
    /\ UNCHANGED <<ver, gen, pref, clock, open, focus, historyVars>>

\* An agent backup is imported as a read-only archive under a new generation.
ImportAgentBackup ==
    /\ gen < MaxGen
    /\ gen' = gen + 1
    /\ \/ pref' = pref
       \/ pref.rev < MaxPref /\ \E z \in Zones : pref' = [rev |-> pref.rev + 1, zone |-> z]
    /\ prop' = Supersede(ProposalIds)
    /\ TouchAll
    /\ UNCHANGED <<ver, clock, ctx, open, focus, run, snap, request, ledger>>

\* A user rejects a proposal that is still ready and belongs to this history.
RejectProposal(p) ==
    /\ p \in ReadyProposals
    /\ snap[p[1]] # NoRow
    /\ snap[p[1]].ver.epoch = ver.epoch /\ snap[p[1]].gen = gen
    /\ prop' = [prop EXCEPT ![p].life = "rejected"]
    /\ UNCHANGED <<run, snap, request, ledger, historyVars, inputVars>>

UserStep ==
    \/ EditPlanner \/ RestorePlanner \/ UpdatePreferences \/ UpdateContext
    \/ DayPasses \/ ClearHistory \/ ImportAgentBackup
    \/ \E p \in ProposalIds : RejectProposal(p)
=============================================================================
