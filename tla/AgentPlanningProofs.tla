-------------------------- MODULE AgentPlanningProofs --------------------------
(***************************************************************************)
(* What holds of daily planning for any number of runs, requests, tasks,   *)
(* operations and changes of their inputs, through late answers, crashes   *)
(* and cleared histories.  Versions only grow, so that what was planned or *)
(* executed before a change is told apart from what came after it for as   *)
(* long as its row exists.                                                 *)
(***************************************************************************)
EXTENDS AgentPlanning, FiniteSetTheorems, TLAPS

----------------------------------------------------------------------------
(* Versions of the planner in the order they come. *)

Earlier(v, w) == v.epoch < w.epoch \/ (v.epoch = w.epoch /\ v.rev < w.rev)
NotLater(v, w) == v = w \/ Earlier(v, w)

(* What planning reads. *)
InputsTyped ==
  /\ ver \in Versions /\ gen \in 0..MaxGen /\ clock \in 0..MaxDay
  /\ pref \in [rev : 0..MaxPref, zone : Zones]
  /\ ctx \in [ContextIds -> Context \cup {NoRow}]
  /\ open \in SUBSET Tasks
  /\ focus \in [Dates -> SUBSET Tasks]

(* Operations are carried out once and remembered; one that was followed   *)
(* by a change of the planner left an earlier version behind.              *)
LedgerTyped ==
  /\ ledger \in [OpIds -> Receipt \cup {Cleared, NoRow}]
  /\ executed \in [OpIds -> {0, 1}]
LedgerRemembers == \A o \in OpIds : executed[o] = 1 => ledger[o] # NoRow
LedgerVersions ==
  \A o \in OpIds : ledger[o] \in Receipt =>
    /\ NotLater(ledger[o].after, ver)
    /\ o \in moved => Earlier(ledger[o].after, ver)

(* A snapshot is not from the future; one that was overtaken shows it in   *)
(* some version, for as long as it exists.                                 *)
Overtaken(s) ==
  \/ Earlier(s.ver, ver) \/ s.gen < gen \/ s.pref < pref.rev
  \/ s.date < clock + s.zone \/ s.rev < ctx[s.ctx].rev
SnapshotVersions ==
  \A r \in Runs : snap[r] # NoRow =>
    LET s == snap[r] IN
      /\ NotLater(s.ver, ver) /\ s.gen <= gen /\ s.pref <= pref.rev
      /\ s.date <= clock + s.zone
      /\ ctx[s.ctx] # NoRow /\ s.rev <= ctx[s.ctx].rev
      /\ r \in touched => Overtaken(s)

(* Runs, their rows and their jobs. *)
RowsTyped ==
  /\ run \in [Runs -> Run \cup {NoRow}]
  /\ snap \in [Runs -> Snapshot \cup {NoRow}]
  /\ prop \in [ProposalIds -> Proposal \cup {NoRow}]
  /\ request \in [Requests -> Runs \cup {NoRow}]
RowsRefer ==
  /\ \A r \in Runs : run[r] # NoRow => snap[r] # NoRow
  /\ \A p \in ProposalIds : prop[p] # NoRow => run[p[1]] # NoRow
JobsTyped ==
  /\ job \in [Runs -> Job \cup {NoRow}] /\ launches \in SUBSET Runs
  /\ asked \in [Runs -> 0..3]

(* The calls of a run are those in its row, and its identifier is not used *)
(* again after the row was deleted.                                        *)
CallsCounted ==
  \A r \in Runs :
    /\ run[r] # NoRow => r \in born /\ asked[r] = run[r].calls
    /\ r \notin born => asked[r] = 0

(* A running run has a job that still waits for the model, or gets one, or *)
(* this process could not record its failure.                              *)
Launched ==
  up => \A r \in Runs : run[r] # NoRow /\ run[r].status = "running" =>
          r \in launches \/ r \in lost \/ (job[r] # NoRow /\ ~job[r].aborted)

(* A run that waits for an answer has the row that asks for it. *)
QuestionKept ==
  \A r \in Runs : run[r] # NoRow /\ run[r].status = "needs_clarification" =>
    prop[<<r, run[r].round>>] # NoRow

(* One plan: an active run, or a proposal that waits for the user. *)
OnePlan ==
  /\ \A r, s \in Runs : Active(r) /\ Active(s) => r = s
  /\ \A p, q \in ReadyProposals : p = q
  /\ \A r \in Runs : Active(r) => ReadyProposals = {}

LedgerInv == LedgerTyped /\ LedgerRemembers /\ LedgerVersions
RunsInv ==
  /\ RowsTyped /\ RowsRefer /\ JobsTyped
  /\ CallsCounted /\ Launched /\ QuestionKept /\ OnePlan
PlanningInv == InputsTyped /\ LedgerInv /\ SnapshotVersions /\ RunsInv

----------------------------------------------------------------------------
(* What a step may never do: the action properties, and the invariant. *)

EndedKept ==
  \A r \in Runs : run[r] # NoRow /\ ~Active(r) => run'[r] \in {run[r], NoRow}
AppliedKept ==
  \A p \in ProposalIds :
    prop[p] # NoRow /\ prop[p].life = "ready" /\ prop'[p] # NoRow /\ prop'[p].life = "applied"
      => p[1] \notin touched
RevertedKept ==
  \A o \in OpIds : executed'[o] > executed[o] /\ ledger'[o].action = "revert" =>
    \E target \in OpIds \ moved :
      /\ ledger[target].action = "apply"
      /\ focus'[Date] = ledger[target].before
GoodStep == PlanningInv' /\ EndedKept /\ AppliedKept /\ RevertedKept

LEMMA InvParts ==
  ASSUME PlanningInv
  PROVE  /\ InputsTyped /\ LedgerInv /\ SnapshotVersions /\ RunsInv
         /\ RowsTyped /\ JobsTyped /\ LedgerTyped
         /\ ver \in Versions /\ ver.rev \in 0..(MaxRev + 1) /\ ver.epoch \in 0..MaxEpoch
         /\ gen \in 0..MaxGen /\ clock \in 0..MaxDay /\ pref.rev \in 0..MaxPref
         /\ pref.zone \in Zones
  BY DEF PlanningInv, InputsTyped, LedgerInv, RunsInv, Versions

LEMMA Bounds ==
  /\ MaxEpoch \in Nat /\ MaxRev \in Nat /\ MaxGen \in Nat /\ MaxPref \in Nat
  /\ MaxCtx \in Nat /\ MaxDay \in Nat
  BY BoundAssumption

(* Most steps carry out nothing, end only active runs and apply nothing.   *)
LEMMA QuietStep ==
  ASSUME PlanningInv, PlanningInv', UNCHANGED executed,
         \A r \in Runs : run'[r] \in {run[r], NoRow} \/ Active(r) \/ run[r] = NoRow,
         \A p \in ProposalIds : prop'[p] \in {prop[p], NoRow} \/ prop'[p].life # "applied"
  PROVE  GoodStep
<1>1. EndedKept /\ AppliedKept
  BY DEF EndedKept, AppliedKept
<1>2. RevertedKept
  <2>1. \A o \in OpIds : executed[o] \in {0, 1} /\ executed'[o] = executed[o]
    BY InvParts DEF LedgerTyped
  <2>2. QED
    BY <2>1 DEF RevertedKept
<1>3. QED
  BY <1>1, <1>2 DEF GoodStep

LEMMA Order ==
  ASSUME NEW u \in Versions, NEW v \in Versions, NEW w \in Versions
  PROVE  /\ NotLater(u, v) /\ NotLater(v, w) => NotLater(u, w)
         /\ NotLater(u, v) /\ Earlier(v, w) => Earlier(u, w)
         /\ Earlier(u, v) /\ NotLater(v, w) => Earlier(u, w)
         /\ ~Earlier(u, u) /\ NotLater(u, u)
  BY Bounds DEF Versions, Earlier, NotLater

LEMMA NextVersion ==
  ASSUME NEW v \in Versions
  PROVE  /\ v.rev < MaxRev => /\ [v EXCEPT !.rev = @ + 1] \in Versions
                              /\ Earlier(v, [v EXCEPT !.rev = @ + 1])
         /\ v.epoch < MaxEpoch => /\ [epoch |-> v.epoch + 1, rev |-> 0] \in Versions
                                  /\ Earlier(v, [epoch |-> v.epoch + 1, rev |-> 0])
         /\ [v EXCEPT !.rev = @ + 0] = v
  BY Bounds DEF Versions, Earlier

LEMMA ReceiptAfter == \A e \in Receipt : e.after \in Versions /\ e # NoRow
  BY NoRowAssumption DEF Receipt

LEMMA LedgerStays ==
  ASSUME LedgerInv, ver \in Versions, ver' \in Versions,
         UNCHANGED <<ledger, executed>>,
         \/ NotLater(ver, ver') /\ moved' \subseteq moved
         \/ Earlier(ver, ver')
  PROVE  LedgerInv'
<1>1. LedgerTyped' /\ LedgerRemembers'
  BY DEF LedgerInv, LedgerTyped, LedgerRemembers
<1>2. ASSUME NEW o \in OpIds, ledger[o] \in Receipt
      PROVE  /\ NotLater(ledger[o].after, ver')
             /\ o \in moved' => Earlier(ledger[o].after, ver')
  <2>1. /\ ledger[o].after \in Versions /\ NotLater(ledger[o].after, ver)
        /\ o \in moved => Earlier(ledger[o].after, ver)
    BY <1>2, ReceiptAfter DEF LedgerInv, LedgerVersions
  <2>2. CASE NotLater(ver, ver') /\ moved' \subseteq moved
    BY <2>1, <2>2, Order
  <2>3. CASE Earlier(ver, ver')
    <3>1. Earlier(ledger[o].after, ver')
      BY <2>1, <2>3, Order
    <3>2. QED
      BY <3>1 DEF NotLater
  <2>4. QED
    BY <2>2, <2>3
<1>3. LedgerVersions'
  BY <1>2 DEF LedgerVersions
<1>4. QED
  BY <1>1, <1>3 DEF LedgerInv

LEMMA SnapshotFacts ==
  ASSUME PlanningInv, NEW r \in Runs, snap[r] # NoRow
  PROVE  /\ snap[r] \in Snapshot /\ snap[r].ver \in Versions /\ snap[r].gen \in 0..MaxGen
         /\ snap[r].pref \in 0..MaxPref /\ snap[r].zone \in {0, 1} /\ snap[r].zone \in Zones
         /\ snap[r].date \in Dates
         /\ snap[r].ctx \in ContextIds /\ snap[r].rev \in 0..MaxCtx
         /\ snap[r].candidates \in SUBSET Tasks /\ snap[r].in \in DailyInput
         /\ ctx[snap[r].ctx] # NoRow
  BY ZonesAssumption, InvParts DEF RowsTyped, Snapshot, SnapshotVersions

LEMMA ContextRows ==
  ASSUME PlanningInv, NEW k \in ContextIds, ctx[k] # NoRow
  PROVE  ctx[k] \in Context /\ ctx[k].rev \in 0..MaxCtx
  BY InvParts DEF InputsTyped, Context

(* A snapshot stays while versions grow. *)
LEMMA SnapshotStays ==
  ASSUME PlanningInv, InputsTyped', NEW r \in Runs, snap[r] # NoRow,
         NotLater(ver, ver'), gen <= gen', pref.rev <= pref'.rev, clock <= clock',
         \A k \in ContextIds : ctx[k] # NoRow => ctx'[k] # NoRow /\ ctx[k].rev <= ctx'[k].rev,
         r \in touched' =>
           \/ r \in touched \/ Earlier(ver, ver') \/ gen < gen' \/ pref.rev < pref'.rev
           \/ clock < clock' \/ ctx[snap[r].ctx].rev < ctx'[snap[r].ctx].rev
  PROVE  /\ NotLater(snap[r].ver, ver') /\ snap[r].gen <= gen'
         /\ snap[r].pref <= pref'.rev /\ snap[r].date <= clock' + snap[r].zone
         /\ ctx'[snap[r].ctx] # NoRow /\ snap[r].rev <= ctx'[snap[r].ctx].rev
         /\ r \in touched' =>
              \/ Earlier(snap[r].ver, ver') \/ snap[r].gen < gen'
              \/ snap[r].pref < pref'.rev \/ snap[r].date < clock' + snap[r].zone
              \/ snap[r].rev < ctx'[snap[r].ctx].rev
<1> DEFINE s == snap[r]
<1>1. s # NoRow /\ s = snap[r]
  OBVIOUS
<1>2. /\ s.ver \in Versions /\ s.gen \in 0..MaxGen /\ s.pref \in 0..MaxPref
      /\ s.zone \in {0, 1} /\ s.date \in Dates /\ s.ctx \in ContextIds /\ s.rev \in 0..MaxCtx
      /\ ctx[s.ctx] # NoRow
  BY <1>1, SnapshotFacts
<1>3. /\ NotLater(s.ver, ver) /\ s.gen <= gen /\ s.pref <= pref.rev
      /\ s.date <= clock + s.zone /\ s.rev <= ctx[s.ctx].rev
      /\ r \in touched => \/ Earlier(s.ver, ver) \/ s.gen < gen \/ s.pref < pref.rev
                          \/ s.date < clock + s.zone \/ s.rev < ctx[s.ctx].rev
  BY <1>1, InvParts DEF SnapshotVersions, Overtaken
<1>4. /\ ver \in Versions /\ gen \in Int /\ pref.rev \in Int /\ clock \in Int
      /\ ver' \in Versions /\ gen' \in Int /\ pref'.rev \in Int /\ clock' \in Int
  BY InvParts DEF InputsTyped
<1>5. /\ ctx'[s.ctx] # NoRow /\ ctx[s.ctx].rev <= ctx'[s.ctx].rev
      /\ ctx[s.ctx].rev \in Int /\ ctx'[s.ctx].rev \in Int
  BY <1>2, ContextRows DEF InputsTyped, Context
<1> HIDE DEF s
<1>6. /\ s.gen \in Int /\ s.pref \in Int /\ s.zone \in Int /\ s.date \in Int /\ s.rev \in Int
  BY <1>2 DEF Dates
<1>7. NotLater(s.ver, ver') /\ (Earlier(s.ver, ver) => Earlier(s.ver, ver'))
      /\ (Earlier(ver, ver') => Earlier(s.ver, ver'))
  BY <1>2, <1>3, <1>4, Order
<1>8. /\ s.gen <= gen' /\ s.pref <= pref'.rev /\ s.date <= clock' + s.zone
      /\ s.rev <= ctx'[s.ctx].rev
  BY <1>3, <1>4, <1>5, <1>6
<1>9. r \in touched' => \/ Earlier(s.ver, ver') \/ s.gen < gen'
                        \/ s.pref < pref'.rev \/ s.date < clock' + s.zone
                        \/ s.rev < ctx'[s.ctx].rev
  BY <1>1, <1>3, <1>4, <1>5, <1>6, <1>7
<1>10. QED
  BY <1>1, <1>5, <1>7, <1>8, <1>9

LEMMA SnapshotsStay ==
  ASSUME PlanningInv, InputsTyped',
         \A r \in Runs : snap'[r] \in {snap[r], NoRow},
         NotLater(ver, ver'), gen <= gen', pref.rev <= pref'.rev, clock <= clock',
         \A k \in ContextIds : ctx[k] # NoRow => ctx'[k] # NoRow /\ ctx[k].rev <= ctx'[k].rev,
         \A r \in Runs : r \in touched' /\ snap[r] # NoRow =>
           \/ r \in touched \/ Earlier(ver, ver') \/ gen < gen' \/ pref.rev < pref'.rev
           \/ clock < clock' \/ ctx[snap[r].ctx].rev < ctx'[snap[r].ctx].rev
  PROVE  SnapshotVersions'
  BY SnapshotStays DEF SnapshotVersions, Overtaken

----------------------------------------------------------------------------
(* Runs and proposals. *)

(* Where one run and its job move, the others keep the one that works. *)
LEMMA OneLaunched ==
  ASSUME PlanningInv, NEW r \in Runs, UNCHANGED up,
         \A t \in Runs : t # r => run'[t] = run[t],
         \A t \in Runs : t # r => job'[t] = job[t],
         \A t \in Runs : t # r => (t \in launches => t \in launches'),
         \A t \in Runs : t # r => (t \in lost => t \in lost'),
         up' /\ run'[r] # NoRow /\ run'[r].status = "running" =>
            r \in launches' \/ r \in lost' \/ (job'[r] # NoRow /\ ~job'[r].aborted)
  PROVE  Launched'
<1> SUFFICES ASSUME up', NEW t \in Runs, run'[t] # NoRow, run'[t].status = "running"
             PROVE  t \in launches' \/ t \in lost' \/ (job'[t] # NoRow /\ ~job'[t].aborted)
  BY DEF Launched
<1>1. CASE t = r
  BY <1>1
<1>2. CASE t # r
  BY <1>2 DEF PlanningInv, RunsInv, Launched
<1>3. QED
  BY <1>1, <1>2

LEMMA RowFacts ==
  ASSUME PlanningInv, NEW r \in Runs
  PROVE  /\ run[r] # NoRow => /\ run[r] \in Run /\ snap[r] # NoRow /\ r \in born
                              /\ asked[r] = run[r].calls /\ run[r].calls \in 0..3
                              /\ run[r].round \in {0, 1} /\ run[r].status \in RunStatus
         /\ r \notin born => run[r] = NoRow /\ asked[r] = 0
         /\ job[r] # NoRow => job[r] \in Job
         /\ asked[r] \in 0..3
  BY DEF PlanningInv, RunsInv, RowsTyped, RowsRefer, JobsTyped, CallsCounted, Run

LEMMA RowIsThere ==
  /\ \A row \in Run : row # NoRow
  /\ \A row \in Snapshot : row # NoRow
  /\ \A row \in Proposal : row # NoRow
  /\ \A row \in Context : row # NoRow
  /\ \A row \in Job : row # NoRow
  BY NoRowAssumption, NoJobAssumption

(* A proposal is left alone, or taken off the list of those that wait.     *)
Settles(p) ==
  prop'[p] = prop[p] \/ (prop[p] # NoRow /\ prop'[p] \in Proposal /\ prop'[p].life # "ready")

(* A run is left alone, or an active one ends. *)
Ends(r) ==
  \/ run'[r] = run[r]
  \/ /\ Active(r) /\ run'[r] \in Run /\ run'[r].calls = run[r].calls
     /\ run'[r].status \notin {"running", "needs_clarification"}

LEMMA PlanStays ==
  ASSUME OnePlan, \A r \in Runs : (Active(r))' => Active(r),
         ReadyProposals' \subseteq ReadyProposals
  PROVE  OnePlan'
  BY DEF OnePlan

LEMMA RunsMove ==
  ASSUME PlanningInv, UNCHANGED <<snap, request, born, asked>>,
         prop' \in [ProposalIds -> Proposal \cup {NoRow}], \A p \in ProposalIds : Settles(p),
         run' \in [Runs -> Run \cup {NoRow}], \A r \in Runs : Ends(r),
         job' \in [Runs -> Job \cup {NoRow}], launches' \in SUBSET Runs, Launched'
  PROVE  RunsInv'
<1>1. RowsTyped' /\ JobsTyped'
  BY DEF PlanningInv, RunsInv, RowsTyped, JobsTyped
<1>2. ASSUME NEW r \in Runs
      PROVE  /\ (Active(r))' => Active(r)
             /\ run[r] # NoRow <=> run'[r] # NoRow
             /\ run'[r] # NoRow => run'[r].calls = run[r].calls
  BY RowIsThere DEF Ends, Active
<1>3. ASSUME NEW p \in ProposalIds PROVE prop'[p] # NoRow => prop[p] # NoRow
  BY DEF Settles
<1>4. RowsRefer'
  <2>1. \A p \in ProposalIds : p[1] \in Runs
    BY DEF ProposalIds
  <2>2. QED
    BY <1>2, <1>3, <2>1 DEF PlanningInv, RunsInv, RowsRefer
<1>5. CallsCounted'
  BY <1>2 DEF PlanningInv, RunsInv, CallsCounted
<1>6. ReadyProposals' \subseteq ReadyProposals
  BY RowIsThere DEF ReadyProposals, Settles
<1>7. OnePlan'
  BY <1>2, <1>6, PlanStays DEF PlanningInv, RunsInv
<1>8. QuestionKept'
  <2> SUFFICES ASSUME NEW r \in Runs, run'[r] # NoRow, run'[r].status = "needs_clarification"
               PROVE  prop'[<<r, run'[r].round>>] # NoRow
    BY DEF QuestionKept
  <2>1. run'[r] = run[r]
    BY DEF Ends
  <2>2. prop[<<r, run[r].round>>] # NoRow /\ <<r, run[r].round>> \in ProposalIds
    BY <2>1, RowFacts DEF PlanningInv, RunsInv, QuestionKept, ProposalIds
  <2>3. QED
    BY <2>1, <2>2, RowIsThere DEF Settles
<1>9. QED
  BY <1>1, <1>4, <1>5, <1>7, <1>8 DEF RunsInv

(* Nothing but proposals moves. *)
LEMMA ProposalsMove ==
  ASSUME PlanningInv, UNCHANGED <<run, snap, request, runVars>>,
         prop' \in [ProposalIds -> Proposal \cup {NoRow}], \A p \in ProposalIds : Settles(p)
  PROVE  RunsInv'
<1>1. UNCHANGED <<up, launches, job, lost, born, asked>>
  BY DEF runVars
<1>2. Launched'
  BY <1>1 DEF PlanningInv, RunsInv, Launched
<1>3. QED
  BY <1>1, <1>2, RunsMove DEF Ends, PlanningInv, RunsInv, RowsTyped, JobsTyped

LEMMA Ended ==
  ASSUME NEW row \in Proposal, NEW life \in Lifecycle
  PROVE  /\ [row EXCEPT !.life = life] \in Proposal
         /\ [row EXCEPT !.life = life].life = life
         /\ [row EXCEPT !.life = life].tasks = row.tasks
  BY DEF Proposal

LEMMA SupersedeSettles ==
  ASSUME PlanningInv, NEW ids, prop' = Supersede(ids)
  PROVE  /\ prop' \in [ProposalIds -> Proposal \cup {NoRow}]
         /\ \A p \in ProposalIds : /\ Settles(p)
                                   /\ prop'[p] = prop[p] \/ prop'[p].life = "superseded"
                                   /\ p \in ids => p \notin ReadyProposals'
<1>1. ASSUME NEW p \in ProposalIds
      PROVE  /\ prop'[p] \in Proposal \cup {NoRow} /\ Settles(p)
             /\ prop'[p] = prop[p] \/ prop'[p].life = "superseded"
             /\ p \in ids => ~(prop'[p] # NoRow /\ prop'[p].life = "ready")
  <2>1. prop[p] \in Proposal \cup {NoRow}
    BY InvParts DEF RowsTyped
  <2>2. CASE p \in ids \cap ReadyProposals
    <3>1. prop'[p] = [prop[p] EXCEPT !.life = "superseded"]
      BY <2>2 DEF Supersede
    <3>2. prop[p] \in Proposal /\ prop[p] # NoRow
      BY <2>1, <2>2 DEF ReadyProposals
    <3>3. "superseded" \in Lifecycle
      BY DEF Lifecycle
    <3>4. /\ [prop[p] EXCEPT !.life = "superseded"] \in Proposal
          /\ [prop[p] EXCEPT !.life = "superseded"].life = "superseded"
      <4>1. ASSUME NEW row \in Proposal, NEW life \in Lifecycle
            PROVE  [row EXCEPT !.life = life] \in Proposal /\ [row EXCEPT !.life = life].life = life
        BY <4>1, Ended
      <4>2. QED
        BY <3>2, <3>3, <4>1
    <3>5. prop'[p] \in Proposal /\ prop'[p].life = "superseded"
      BY <3>1, <3>4
    <3>6. QED
      BY <3>2, <3>5 DEF Settles
  <2>3. CASE p \notin ids \cap ReadyProposals
    <3>1. prop'[p] = prop[p]
      BY <2>3 DEF Supersede
    <3>2. QED
      BY <2>1, <2>3, <3>1 DEF Settles, ReadyProposals
  <2>4. QED
    BY <2>2, <2>3
<1>2. prop' \in [ProposalIds -> Proposal \cup {NoRow}]
  BY <1>1 DEF Supersede
<1>3. QED
  BY <1>1, <1>2 DEF ReadyProposals

LEMMA OneSettles ==
  ASSUME PlanningInv, NEW p \in ProposalIds, prop[p] # NoRow,
         NEW life \in Lifecycle \ {"ready"}, prop' = [prop EXCEPT ![p].life = life]
  PROVE  /\ prop' \in [ProposalIds -> Proposal \cup {NoRow}]
         /\ prop'[p].life = life
         /\ \A q \in ProposalIds : Settles(q) /\ (q # p => prop'[q] = prop[q])
<1>1. prop[p] \in Proposal /\ prop \in [ProposalIds -> Proposal \cup {NoRow}]
  BY InvParts DEF RowsTyped
<1> DEFINE row == [prop[p] EXCEPT !.life = life]
<1>2. row \in Proposal /\ row.life = life
  BY <1>1, Ended
<1>3. prop' = [prop EXCEPT ![p] = row]
  OBVIOUS
<1> HIDE DEF row
<1>4. QED
  BY <1>1, <1>2, <1>3 DEF Settles

LEMMA StatusRow ==
  ASSUME PlanningInv, NEW r \in Runs, run[r] # NoRow, NEW s \in RunStatus
  PROVE  /\ [run[r] EXCEPT !.status = s] \in Run
         /\ [run[r] EXCEPT !.status = s].status = s
         /\ [run[r] EXCEPT !.status = s].calls = run[r].calls
         /\ [run[r] EXCEPT !.status = s].round = run[r].round
<1>1. run[r] \in Run
  BY RowFacts
<1>2. QED
  BY <1>1 DEF Run

LEMMA WithStatusEnds ==
  ASSUME PlanningInv, NEW rs \in SUBSET Runs, \A r \in rs : Active(r),
         NEW s \in RunStatus \ {"running", "needs_clarification"},
         run' = WithStatus(rs, s)
  PROVE  /\ run' \in [Runs -> Run \cup {NoRow}]
         /\ \A r \in Runs : /\ Ends(r)
                            /\ r \in rs => run'[r].status = s
                            /\ r \notin rs => run'[r] = run[r]
<1>1. ASSUME NEW r \in Runs
      PROVE  /\ run'[r] \in Run \cup {NoRow} /\ Ends(r)
             /\ r \in rs => run'[r].status = s
             /\ r \notin rs => run'[r] = run[r]
  <2>1. CASE r \in rs
    <3>1. Active(r) /\ run[r] # NoRow
      BY <2>1 DEF Active
    <3>2. run'[r] = [run[r] EXCEPT !.status = s]
      BY <2>1 DEF WithStatus
    <3>3. run'[r] \in Run /\ run'[r].status = s /\ run'[r].calls = run[r].calls
      BY <3>1, <3>2, StatusRow
    <3>4. QED
      BY <2>1, <3>1, <3>3 DEF Ends
  <2>2. CASE r \notin rs
    <3>1. run'[r] = run[r]
      BY <2>2 DEF WithStatus
    <3>2. QED
      BY <2>2, <3>1, InvParts DEF RowsTyped, Ends
  <2>3. QED
    BY <2>1, <2>2
<1>2. run' \in [Runs -> Run \cup {NoRow}]
  BY <1>1 DEF WithStatus
<1>3. QED
  BY <1>1, <1>2

LEMMA AbortTyped ==
  ASSUME PlanningInv, NEW rs, job' = Abort(rs)
  PROVE  /\ job' \in [Runs -> Job \cup {NoRow}]
         /\ \A r \in Runs : r \notin rs => job'[r] = job[r]
<1>1. ASSUME NEW r \in Runs
      PROVE  job'[r] \in Job \cup {NoRow} /\ (r \notin rs => job'[r] = job[r])
  <2>1. job[r] # NoRow => job[r] \in Job
    BY RowFacts
  <2>2. job[r] # NoRow => [job[r] EXCEPT !.aborted = TRUE] \in Job
    BY <2>1 DEF Job
  <2>3. QED
    BY <2>1, <2>2 DEF Abort
<1>2. QED
  BY <1>1 DEF Abort

----------------------------------------------------------------------------
(* What users change. *)

LEMMA TodayTyped ==
  ASSUME PlanningInv
  PROVE  /\ Date \in Dates /\ Date = clock + pref.zone /\ ContextId \in ContextIds
         /\ \A k \in ContextIds : /\ ReadContext(k) \in Context
                                  /\ ReadContext(k).rev \in 0..MaxCtx
                                  /\ ReadContext(k).in \in DailyInput
                                  /\ ctx[k] # NoRow => ReadContext(k) = ctx[k]
<1>1. pref.zone \in {0, 1} /\ clock \in 0..MaxDay /\ MaxDay \in Nat
  BY InvParts, ZonesAssumption, Bounds
<1>2. Date \in Dates
  BY <1>1 DEF Date, Dates
<1>3. ContextId \in ContextIds
  BY <1>2, InvParts DEF ContextId, ContextIds
<1>4. NoLimits \in DailyInput /\ [rev |-> 0, in |-> NoLimits] \in Context
  BY Bounds DEF NoLimits, DailyInput, Context
<1>5. ASSUME NEW k \in ContextIds
      PROVE  /\ ReadContext(k) \in Context
             /\ ctx[k] # NoRow => ReadContext(k) = ctx[k]
  BY <1>4, <1>5, InvParts DEF ReadContext, InputsTyped
<1>6. QED
  BY <1>2, <1>3, <1>5 DEF Context, Date

LEMMA ZoneAndClock ==
  ASSUME PlanningInv
  PROVE  /\ pref.zone \in Int /\ clock \in Int /\ Date = clock + pref.zone
<1>1. pref.zone \in {0, 1} /\ clock \in 0..MaxDay
  BY InvParts, ZonesAssumption
<1>2. QED
  BY <1>1 DEF Date

(* The rows of runs are left alone, but for proposals. *)
LEMMA UserStepGood ==
  ASSUME PlanningInv, UNCHANGED <<run, snap, request, ledger, executed, runVars>>,
         InputsTyped', SnapshotVersions',
         \/ NotLater(ver, ver') /\ moved' \subseteq moved
         \/ Earlier(ver, ver'),
         prop' \in [ProposalIds -> Proposal \cup {NoRow}], \A p \in ProposalIds : Settles(p),
         \A p \in ProposalIds : prop'[p] \in {prop[p], NoRow} \/ prop'[p].life # "applied"
  PROVE  GoodStep
<1>1. LedgerInv'
  BY LedgerStays DEF PlanningInv, InputsTyped
<1>2. RunsInv'
  BY ProposalsMove
<1>3. PlanningInv'
  BY <1>1, <1>2 DEF PlanningInv
<1>4. QED
  BY <1>3, QuietStep

LEMMA SameProposals ==
  ASSUME PlanningInv, prop' = prop
  PROVE  /\ prop' \in [ProposalIds -> Proposal \cup {NoRow}]
         /\ \A p \in ProposalIds : Settles(p) /\ prop'[p] \in {prop[p], NoRow}
  BY InvParts DEF RowsTyped, Settles

LEMMA SameContexts ==
  ASSUME PlanningInv, ctx' = ctx
  PROVE  \A k \in ContextIds :
           ctx[k] # NoRow => ctx'[k] # NoRow /\ ctx[k].rev <= ctx'[k].rev
  BY ContextRows

LEMMA EditGood ==
  ASSUME PlanningInv, EditPlanner, UNCHANGED runVars
  PROVE  GoodStep
<1>1. /\ ver.rev < MaxRev /\ ver' = [ver EXCEPT !.rev = @ + 1] /\ open' \in SUBSET Tasks
      /\ touched' = Runs /\ moved' = OpIds
      /\ UNCHANGED <<executed, gen, pref, clock, ctx, run, snap, prop, request, ledger>>
  BY DEF EditPlanner, MoveAll, agentVars
<1>2. ver' \in Versions /\ Earlier(ver, ver')
  BY <1>1, InvParts, NextVersion
<1>3. focus' \in [Dates -> SUBSET Tasks]
  BY <1>1, InvParts, TodayTyped DEF EditPlanner, InputsTyped
<1>4. InputsTyped'
  BY <1>1, <1>2, <1>3, InvParts DEF InputsTyped
<1>5. SnapshotVersions'
  BY <1>1, <1>2, <1>4, InvParts, SameContexts, SnapshotsStay DEF NotLater
<1>6. QED
  BY <1>1, <1>2, <1>4, <1>5, SameProposals, UserStepGood

LEMMA RestoreGood ==
  ASSUME PlanningInv, RestorePlanner, UNCHANGED runVars
  PROVE  GoodStep
<1>1. /\ ver.epoch < MaxEpoch /\ ver' = [epoch |-> ver.epoch + 1, rev |-> 0]
      /\ open' = Tasks /\ focus' = [d \in Dates |-> {}] /\ touched' = Runs /\ moved' = OpIds
      /\ UNCHANGED <<executed, gen, pref, clock, ctx, run, snap, prop, request, ledger>>
  BY DEF RestorePlanner, MoveAll, agentVars
<1>2. ver' \in Versions /\ Earlier(ver, ver')
  BY <1>1, InvParts, NextVersion
<1>3. InputsTyped'
  BY <1>1, <1>2, InvParts DEF InputsTyped
<1>4. SnapshotVersions'
  BY <1>1, <1>2, <1>3, InvParts, SameContexts, SnapshotsStay DEF NotLater
<1>5. QED
  BY <1>1, <1>2, <1>3, <1>4, SameProposals, UserStepGood

LEMMA PreferencesGood ==
  ASSUME PlanningInv, UpdatePreferences, UNCHANGED runVars
  PROVE  GoodStep
<1>1. /\ pref.rev < MaxPref /\ \E z \in Zones : pref' = [rev |-> pref.rev + 1, zone |-> z]
      /\ prop' = Supersede(ProposalIds) /\ touched' = Runs
      /\ UNCHANGED <<moved, executed, ver, gen, clock, ctx, open, focus, run, snap, request,
                     ledger>>
  BY DEF UpdatePreferences, TouchAll
<1>2. pref' \in [rev : 0..MaxPref, zone : Zones] /\ pref'.rev = pref.rev + 1
  BY <1>1, InvParts, Bounds
<1>3. InputsTyped'
  BY <1>1, <1>2, InvParts DEF InputsTyped
<1>4. NotLater(ver, ver')
  BY <1>1 DEF NotLater
<1>5. SnapshotVersions'
  BY <1>1, <1>2, <1>3, <1>4, InvParts, SameContexts, SnapshotsStay
<1>6. QED
  BY <1>1, <1>3, <1>4, <1>5, SupersedeSettles, UserStepGood

LEMMA ImportGood ==
  ASSUME PlanningInv, ImportAgentBackup, UNCHANGED runVars
  PROVE  GoodStep
<1>1. /\ gen < MaxGen /\ gen' = gen + 1
      /\ \/ pref' = pref
         \/ pref.rev < MaxPref /\ \E z \in Zones : pref' = [rev |-> pref.rev + 1, zone |-> z]
      /\ prop' = Supersede(ProposalIds) /\ touched' = Runs
      /\ UNCHANGED <<moved, executed, ver, clock, ctx, open, focus, run, snap, request, ledger>>
  BY DEF ImportAgentBackup, TouchAll
<1>2. pref' \in [rev : 0..MaxPref, zone : Zones] /\ pref.rev <= pref'.rev
  BY <1>1, InvParts, Bounds DEF InputsTyped
<1>3. gen' \in 0..MaxGen /\ gen < gen'
  BY <1>1, InvParts, Bounds
<1>4. InputsTyped'
  BY <1>1, <1>2, <1>3, InvParts DEF InputsTyped
<1>5. NotLater(ver, ver')
  BY <1>1 DEF NotLater
<1>6. SnapshotVersions'
  BY <1>1, <1>2, <1>3, <1>4, <1>5, InvParts, SameContexts, SnapshotsStay
<1>7. QED
  BY <1>1, <1>4, <1>5, <1>6, SupersedeSettles, UserStepGood

LEMMA DayGood ==
  ASSUME PlanningInv, DayPasses, UNCHANGED runVars
  PROVE  GoodStep
<1>1. /\ clock < MaxDay /\ clock' = clock + 1 /\ touched' = Runs
      /\ UNCHANGED <<moved, executed, ver, gen, pref, ctx, open, focus, run, snap, prop, request,
                     ledger>>
  BY DEF DayPasses, TouchAll, agentVars
<1>2. clock' \in 0..MaxDay /\ clock < clock'
  BY <1>1, InvParts, Bounds
<1>3. InputsTyped'
  BY <1>1, <1>2, InvParts DEF InputsTyped
<1>4. NotLater(ver, ver')
  BY <1>1 DEF NotLater
<1>5. SnapshotVersions'
  BY <1>1, <1>2, <1>3, <1>4, InvParts, SameContexts, SnapshotsStay
<1>6. QED
  BY <1>1, <1>3, <1>4, <1>5, SameProposals, UserStepGood

LEMMA ContextGood ==
  ASSUME PlanningInv, UpdateContext, UNCHANGED runVars
  PROVE  GoodStep
<1> DEFINE k == ContextId
           ids == {p \in ProposalIds : snap[p[1]] # NoRow /\ snap[p[1]].ctx = k}
<1>1. /\ ReadContext(k).rev < MaxCtx
      /\ \E in \in Inputs \ {ReadContext(k).in} :
            ctx' = [ctx EXCEPT ![k] = [rev |-> ReadContext(k).rev + 1, in |-> in]]
      /\ prop' = Supersede(ids)
      /\ touched' = touched \cup {r \in Runs : snap[r] # NoRow /\ snap[r].ctx = k}
      /\ UNCHANGED <<ver, gen, pref, clock, open, focus, run, snap, request, ledger, moved,
                     executed>>
  BY DEF UpdateContext
<1>2. /\ k \in ContextIds /\ ReadContext(k).rev \in 0..MaxCtx
      /\ ctx[k] # NoRow => ReadContext(k) = ctx[k]
  BY TodayTyped
<1> HIDE DEF k
<1>3. PICK in \in Inputs :
        ctx' = [ctx EXCEPT ![k] = [rev |-> ReadContext(k).rev + 1, in |-> in]]
  BY <1>1
<1> DEFINE row == [rev |-> ReadContext(k).rev + 1, in |-> in]
<1>4. row \in Context /\ row # NoRow /\ row.rev = ReadContext(k).rev + 1
  BY <1>1, <1>2, Bounds, InputAssumption, RowIsThere DEF Context
<1> HIDE DEF row
<1>5. ctx' = [ctx EXCEPT ![k] = row]
  BY <1>3 DEF row
<1>6. /\ ctx' \in [ContextIds -> Context \cup {NoRow}] /\ ctx'[k] = row
      /\ \A c \in ContextIds \ {k} : ctx'[c] = ctx[c]
  BY <1>2, <1>4, <1>5, InvParts DEF InputsTyped
<1>7. InputsTyped'
  BY <1>1, <1>6, InvParts DEF InputsTyped
<1>8. NotLater(ver, ver')
  BY <1>1 DEF NotLater
<1>9. \A c \in ContextIds : ctx[c] # NoRow => ctx'[c] # NoRow /\ ctx[c].rev <= ctx'[c].rev
  <2> SUFFICES ASSUME NEW c \in ContextIds, ctx[c] # NoRow
               PROVE  ctx'[c] # NoRow /\ ctx[c].rev <= ctx'[c].rev
    OBVIOUS
  <2>1. ctx[c].rev \in 0..MaxCtx
    BY ContextRows
  <2>2. CASE c = k
    BY <1>2, <1>4, <1>6, <2>1, <2>2
  <2>3. CASE c # k
    BY <1>6, <2>1, <2>3
  <2>4. QED
    BY <2>2, <2>3
<1>10. ASSUME NEW r \in Runs, r \in touched', snap[r] # NoRow
       PROVE  r \in touched \/ ctx[snap[r].ctx].rev < ctx'[snap[r].ctx].rev
  <2>1. CASE snap[r].ctx = k
    <3>1. ctx[k] # NoRow
      BY <1>10, <2>1, SnapshotFacts
    <3>2. QED
      BY <1>2, <1>4, <1>6, <2>1, <3>1
  <2>2. QED
    BY <1>1, <1>10, <2>1
<1>11. SnapshotVersions'
  BY <1>1, <1>7, <1>8, <1>9, <1>10, InvParts, SnapshotsStay
<1>12. QED
  BY <1>1, <1>7, <1>8, <1>11, SupersedeSettles, UserStepGood

LEMMA RejectGood ==
  ASSUME PlanningInv, NEW p \in ProposalIds, RejectProposal(p), UNCHANGED runVars
  PROVE  GoodStep
<1>1. /\ prop[p] # NoRow /\ prop' = [prop EXCEPT ![p].life = "rejected"]
      /\ UNCHANGED <<run, snap, request, ledger, touched, moved, executed,
                     ver, gen, pref, clock, ctx, open, focus>>
  BY DEF RejectProposal, ReadyProposals, historyVars, inputVars
<1>2. /\ prop' \in [ProposalIds -> Proposal \cup {NoRow}] /\ prop'[p].life = "rejected"
      /\ \A q \in ProposalIds : Settles(q) /\ (q # p => prop'[q] = prop[q])
  BY <1>1, OneSettles DEF Lifecycle
<1>3. InputsTyped' /\ NotLater(ver, ver')
  BY <1>1, InvParts DEF InputsTyped, NotLater
<1>4. SnapshotVersions'
  BY <1>1, InvParts DEF SnapshotVersions, Overtaken
<1>5. QED
  BY <1>1, <1>2, <1>3, <1>4, UserStepGood

LEMMA ClearGood ==
  ASSUME PlanningInv, ClearHistory, UNCHANGED runVars
  PROVE  GoodStep
<1>1. /\ ctx' = [k \in ContextIds |-> NoRow] /\ run' = [r \in Runs |-> NoRow]
      /\ snap' = [r \in Runs |-> NoRow] /\ prop' = [p \in ProposalIds |-> NoRow]
      /\ request' = [q \in Requests |-> NoRow]
      /\ ledger' = [o \in OpIds |-> IF ledger[o] = NoRow THEN NoRow ELSE Cleared]
      /\ UNCHANGED <<ver, gen, pref, clock, open, focus, touched, moved, executed,
                     up, launches, job, lost, born, asked>>
  BY DEF ClearHistory, historyVars, runVars
<1>2. InputsTyped'
  BY <1>1, InvParts DEF InputsTyped
<1>3. SnapshotVersions'
  BY <1>1 DEF SnapshotVersions
<1>4. LedgerInv'
  <2>1. LedgerTyped'
    BY <1>1, InvParts DEF LedgerTyped
  <2>2. LedgerRemembers'
    BY <1>1, InvParts, NoRowAssumption DEF LedgerInv, LedgerRemembers
  <2>3. Cleared \notin Receipt /\ NoRow \notin Receipt
    BY NoRowAssumption DEF Cleared, Receipt
  <2>4. LedgerVersions'
    BY <1>1, <2>3 DEF LedgerVersions
  <2>5. QED
    BY <2>1, <2>2, <2>4 DEF LedgerInv
<1>5. RunsInv'
  <2>1. RowsTyped' /\ RowsRefer' /\ JobsTyped'
    BY <1>1, InvParts DEF RowsTyped, RowsRefer, JobsTyped
  <2>2. CallsCounted' /\ Launched' /\ QuestionKept'
    BY <1>1 DEF CallsCounted, Launched, QuestionKept, PlanningInv, RunsInv
  <2>3. OnePlan'
    BY <1>1 DEF OnePlan, Active, ReadyProposals
  <2>4. QED
    BY <2>1, <2>2, <2>3 DEF RunsInv
<1>6. PlanningInv'
  BY <1>2, <1>3, <1>4, <1>5 DEF PlanningInv
<1>7. QED
  BY <1>1, <1>6, QuietStep

LEMMA UserGood ==
  ASSUME PlanningInv, UserStep, UNCHANGED runVars
  PROVE  GoodStep
  BY EditGood, RestoreGood, PreferencesGood, ContextGood, DayGood, ClearGood, ImportGood,
     RejectGood DEF UserStep

----------------------------------------------------------------------------
(* Taking a proposal and taking it back. *)

LEMMA ReplaceFacts ==
  ASSUME PlanningInv, NEW o \in OpIds, NEW action \in {"apply", "revert"},
         NEW chosen \in SUBSET Tasks, ver.rev < MaxRev, ledger[o] = NoRow,
         ReplaceFocus(o, action, chosen), UNCHANGED <<gen, pref, clock, ctx, open, snap>>
  PROVE  /\ InputsTyped' /\ LedgerInv' /\ SnapshotVersions'
         /\ ledger'[o].action = action /\ focus'[Date] = chosen
         /\ \A q \in OpIds \ {o} : executed'[q] = executed[q]
<1> DEFINE changed == focus[Date] # chosen
           entry == [action |-> action, changed |-> changed, after |-> ver', gen |-> gen,
                     date |-> Date, zone |-> pref.zone, before |-> focus[Date], final |-> chosen]
<1>1. /\ ver' = IF changed THEN [ver EXCEPT !.rev = @ + 1] ELSE ver
      /\ focus' = [focus EXCEPT ![Date] = chosen]
      /\ ledger' = [ledger EXCEPT ![o] = entry]
      /\ moved' = (IF changed THEN OpIds ELSE moved) \ {o}
      /\ touched' = IF changed THEN Runs ELSE touched
      /\ executed' = [executed EXCEPT ![o] = @ + 1]
  BY DEF ReplaceFocus
<1>2. changed \in BOOLEAN
  OBVIOUS
<1>3. Date \in Dates /\ focus[Date] \in SUBSET Tasks /\ focus \in [Dates -> SUBSET Tasks]
  BY TodayTyped, InvParts DEF InputsTyped
<1>4. /\ ver' \in Versions /\ NotLater(ver, ver')
      /\ changed => Earlier(ver, ver')
  BY <1>1, InvParts, NextVersion DEF NotLater
<1>5. entry \in Receipt /\ entry.action = action /\ entry.after = ver'
  BY <1>2, <1>3, <1>4, InvParts DEF Receipt
<1> HIDE DEF changed, entry
<1>6. focus' \in [Dates -> SUBSET Tasks] /\ focus'[Date] = chosen
  BY <1>1, <1>3
<1>7. InputsTyped'
  BY <1>4, <1>6, InvParts DEF InputsTyped
<1>8. executed[o] = 0
  BY InvParts DEF LedgerInv, LedgerTyped, LedgerRemembers
<1>9. /\ ledger' \in [OpIds -> Receipt \cup {Cleared, NoRow}] /\ ledger'[o] = entry
      /\ \A q \in OpIds \ {o} : ledger'[q] = ledger[q]
  BY <1>1, <1>5, InvParts DEF LedgerTyped
<1>10. /\ executed' \in [OpIds -> {0, 1}]
       /\ \A q \in OpIds \ {o} : executed'[q] = executed[q]
  BY <1>1, <1>8, InvParts DEF LedgerTyped
<1>11. LedgerRemembers'
  BY <1>5, <1>9, <1>10, InvParts, ReceiptAfter DEF LedgerInv, LedgerRemembers
<1>12. LedgerVersions'
  <2> SUFFICES ASSUME NEW q \in OpIds, ledger'[q] \in Receipt
               PROVE  /\ NotLater(ledger'[q].after, ver')
                      /\ q \in moved' => Earlier(ledger'[q].after, ver')
    BY DEF LedgerVersions
  <2>1. CASE q = o
    BY <1>1, <1>4, <1>5, <1>9, <2>1, Order
  <2>2. CASE q # o
    <3>1. /\ ledger'[q] = ledger[q] /\ ledger[q].after \in Versions
          /\ NotLater(ledger[q].after, ver)
          /\ q \in moved => Earlier(ledger[q].after, ver)
      BY <1>9, <2>2, InvParts, ReceiptAfter DEF LedgerInv, LedgerVersions
    <3>2. NotLater(ledger[q].after, ver')
      BY <1>4, <3>1, InvParts, Order
    <3>3. changed => Earlier(ledger[q].after, ver')
      BY <1>4, <3>1, InvParts, Order
    <3>4. ~changed => ver' = ver /\ moved' \subseteq moved
      BY <1>1
    <3>5. QED
      BY <3>1, <3>2, <3>3, <3>4
  <2>3. QED
    BY <2>1, <2>2
<1>13. SnapshotVersions'
  <2>1. gen <= gen' /\ pref.rev <= pref'.rev /\ clock <= clock'
    BY InvParts
  <2>2. \A r \in Runs : r \in touched' => r \in touched \/ Earlier(ver, ver')
    BY <1>1, <1>4
  <2>3. QED
    BY <1>4, <1>7, <2>1, <2>2, SameContexts, SnapshotsStay
<1>14. LedgerInv'
  BY <1>9, <1>10, <1>11, <1>12 DEF LedgerInv, LedgerTyped
<1>15. QED
  BY <1>5, <1>6, <1>7, <1>9, <1>10, <1>13, <1>14

(* What was planned from the inputs of now was not overtaken. *)
LEMMA ExecutableUntouched ==
  ASSUME PlanningInv, NEW p \in ProposalIds, Executable(p)
  PROVE  p[1] \notin touched /\ p \in ReadyProposals
<1> DEFINE r == p[1]
<1>1. r \in Runs
  BY DEF ProposalIds
<1>2. /\ p \in ReadyProposals /\ snap[r] # NoRow
      /\ snap[r].date = Date /\ snap[r].zone = pref.zone
      /\ snap[r].ver = ver /\ snap[r].gen = gen
      /\ ctx[snap[r].ctx].rev = snap[r].rev
      /\ snap[r].pref = pref.rev
  BY DEF Executable
<1> HIDE DEF r
<1>3. /\ gen \in Int /\ pref.rev \in Int /\ snap[r].rev \in Int
      /\ snap[r].date = clock + snap[r].zone /\ snap[r].date \in Int
  BY <1>1, <1>2, InvParts, SnapshotFacts DEF Date, Dates
<1>4. ~Earlier(ver, ver)
  BY InvParts, Order
<1>5. ~Overtaken(snap[r])
  BY <1>2, <1>3, <1>4 DEF Overtaken
<1>6. r \notin touched
  BY <1>1, <1>2, <1>5, InvParts DEF SnapshotVersions
<1>7. QED
  BY <1>2, <1>6 DEF r

LEMMA ApplyGood ==
  ASSUME PlanningInv, NEW o \in OpIds, NEW p \in ProposalIds, NEW chosen \in SUBSET Tasks,
         Apply(o, p, chosen), UNCHANGED runVars
  PROVE  GoodStep
<1>1. /\ ledger[o] = NoRow /\ Executable(p) /\ ver.rev < MaxRev
      /\ ReplaceFocus(o, "apply", chosen)
      /\ prop' = [prop EXCEPT ![p].life = "applied"]
      /\ UNCHANGED <<gen, pref, clock, ctx, open, run, snap, request>>
  BY DEF Apply, Known
<1>2. p[1] \notin touched /\ prop[p] # NoRow
  BY <1>1, ExecutableUntouched DEF ReadyProposals
<1>3. /\ InputsTyped' /\ LedgerInv' /\ SnapshotVersions' /\ ledger'[o].action = "apply"
      /\ \A q \in OpIds \ {o} : executed'[q] = executed[q]
  BY <1>1, ReplaceFacts
<1>4. /\ prop' \in [ProposalIds -> Proposal \cup {NoRow}]
      /\ \A q \in ProposalIds : Settles(q) /\ (q # p => prop'[q] = prop[q])
  BY <1>1, <1>2, OneSettles DEF Lifecycle
<1>5. RunsInv'
  BY <1>1, <1>4, ProposalsMove
<1>6. PlanningInv'
  BY <1>3, <1>5 DEF PlanningInv
<1>7. EndedKept
  BY <1>1 DEF EndedKept
<1>8. AppliedKept
  BY <1>2, <1>4 DEF AppliedKept
<1>9. RevertedKept
  <2>1. \A q \in OpIds : executed[q] \in {0, 1}
    BY InvParts DEF LedgerTyped
  <2>2. QED
    BY <1>3, <2>1 DEF RevertedKept
<1>10. QED
  BY <1>6, <1>7, <1>8, <1>9 DEF GoodStep

LEMMA RevertGood ==
  ASSUME PlanningInv, NEW o \in OpIds, NEW target \in OpIds, Revert(o, target),
         UNCHANGED runVars
  PROVE  GoodStep
<1>1. /\ ledger[o] = NoRow /\ ver.rev < MaxRev
      /\ ledger[target] # NoRow /\ ledger[target].action = "apply"
      /\ ledger[target].after = ver
      /\ ReplaceFocus(o, "revert", ledger[target].before)
      /\ UNCHANGED <<gen, pref, clock, ctx, open, run, snap, prop, request>>
  BY DEF Revert, CanRevert, Known
<1>2. ledger[target] \in Receipt /\ ledger[target].before \in SUBSET Tasks
  <2>1. ledger[target] \in Receipt \cup {Cleared}
    BY <1>1, InvParts DEF LedgerTyped
  <2>2. ledger[target] # Cleared
    BY <1>1 DEF Cleared
  <2>3. QED
    BY <2>1, <2>2 DEF Receipt
<1>3. target \notin moved
  BY <1>1, <1>2, InvParts, Order DEF LedgerInv, LedgerVersions
<1>4. /\ InputsTyped' /\ LedgerInv' /\ SnapshotVersions'
      /\ focus'[Date] = ledger[target].before
      /\ \A q \in OpIds \ {o} : executed'[q] = executed[q]
  BY <1>1, <1>2, ReplaceFacts
<1>5. /\ prop' \in [ProposalIds -> Proposal \cup {NoRow}] /\ \A q \in ProposalIds : Settles(q)
  BY <1>1, SameProposals
<1>6. RunsInv'
  BY <1>1, <1>5, ProposalsMove
<1>7. PlanningInv'
  BY <1>4, <1>6 DEF PlanningInv
<1>8. EndedKept /\ AppliedKept
  BY <1>1 DEF EndedKept, AppliedKept
<1>9. RevertedKept
  BY <1>1, <1>3, <1>4 DEF RevertedKept
<1>10. QED
  BY <1>7, <1>8, <1>9 DEF GoodStep

----------------------------------------------------------------------------
(* Requests for runs. *)

LEMMA RestStays ==
  ASSUME PlanningInv, UNCHANGED <<snap, ledger, historyVars, inputVars>>
  PROVE  /\ InputsTyped' /\ LedgerInv' /\ SnapshotVersions' /\ UNCHANGED executed
<1>1. UNCHANGED <<snap, ledger, touched, moved, executed, ver, gen, pref, clock, ctx, open, focus>>
  BY DEF historyVars, inputVars
<1>2. InputsTyped' /\ SnapshotVersions'
  BY <1>1, InvParts DEF InputsTyped, SnapshotVersions, Overtaken
<1>3. LedgerInv'
  BY <1>1, InvParts DEF LedgerInv, LedgerTyped, LedgerRemembers, LedgerVersions, NotLater, Earlier
<1>4. QED
  BY <1>1, <1>2, <1>3

LEMMA RunStepGood ==
  ASSUME PlanningInv, UNCHANGED <<snap, ledger, historyVars, inputVars, request, born, asked>>,
         prop' \in [ProposalIds -> Proposal \cup {NoRow}], \A p \in ProposalIds : Settles(p),
         \A p \in ProposalIds : prop'[p] \in {prop[p], NoRow} \/ prop'[p].life # "applied",
         run' \in [Runs -> Run \cup {NoRow}], \A r \in Runs : Ends(r),
         job' \in [Runs -> Job \cup {NoRow}], launches' \in SUBSET Runs, Launched'
  PROVE  GoodStep
<1>1. RunsInv'
  BY RunsMove
<1>2. PlanningInv' /\ UNCHANGED executed
  BY <1>1, RestStays DEF PlanningInv
<1>3. \A r \in Runs : run'[r] \in {run[r], NoRow} \/ Active(r) \/ run[r] = NoRow
  BY DEF Ends
<1>4. QED
  BY <1>2, <1>3, QuietStep

(* Proposals that exist are taken off the list. *)
LEMMA SupersededSettle ==
  ASSUME PlanningInv, NEW S \in SUBSET ProposalIds, \A p \in S : prop[p] # NoRow,
         prop' = [p \in ProposalIds |->
                    IF p \in S THEN [prop[p] EXCEPT !.life = "superseded"] ELSE prop[p]]
  PROVE  /\ prop' \in [ProposalIds -> Proposal \cup {NoRow}]
         /\ \A p \in ProposalIds :
              Settles(p) /\ (prop'[p] \in {prop[p], NoRow} \/ prop'[p].life # "applied")
<1>1. ASSUME NEW p \in ProposalIds
      PROVE  /\ prop'[p] \in Proposal \cup {NoRow} /\ Settles(p)
             /\ prop'[p] \in {prop[p], NoRow} \/ prop'[p].life # "applied"
  <2>1. prop[p] \in Proposal \cup {NoRow}
    BY InvParts DEF RowsTyped
  <2>2. CASE p \in S
    <3>1. prop'[p] = [prop[p] EXCEPT !.life = "superseded"] /\ prop[p] \in Proposal
          /\ prop[p] # NoRow
      BY <2>1, <2>2
    <3>2. prop'[p] \in Proposal /\ prop'[p].life = "superseded"
      BY <3>1 DEF Proposal, Lifecycle
    <3>3. QED
      BY <3>1, <3>2 DEF Settles
  <2>3. CASE p \notin S
    BY <2>1, <2>3 DEF Settles
  <2>4. QED
    BY <2>2, <2>3
<1>2. QED
  BY <1>1

(* One run is ended by a request, and its job stops waiting. *)
LEMMA StoppedGood ==
  ASSUME PlanningInv, NEW r \in Runs, Active(r), NEW s \in {"failed", "cancelled"},
         run' = WithStatus({r}, s), job' = Abort({r}),
         NEW S \in SUBSET LastProposal(r),
         prop' = [p \in ProposalIds |->
                    IF p \in S THEN [prop[p] EXCEPT !.life = "superseded"] ELSE prop[p]],
         UNCHANGED <<snap, request, ledger, up, launches, lost, born, asked, historyVars, inputVars>>
  PROVE  GoodStep
<1>1. /\ S \in SUBSET ProposalIds /\ \A p \in S : prop[p] # NoRow
  BY DEF LastProposal
<1>2. /\ prop' \in [ProposalIds -> Proposal \cup {NoRow}]
      /\ \A p \in ProposalIds :
           Settles(p) /\ (prop'[p] \in {prop[p], NoRow} \/ prop'[p].life # "applied")
  BY <1>1, SupersededSettle
<1>3. /\ run' \in [Runs -> Run \cup {NoRow}]
      /\ \A t \in Runs : /\ Ends(t)
                         /\ t = r => run'[t].status = s
                         /\ t # r => run'[t] = run[t]
  <2> DEFINE rs == {r}
  <2>1. rs \in SUBSET Runs /\ (\A t \in rs : Active(t)) /\ run' = WithStatus(rs, s)
    OBVIOUS
  <2>2. s \in RunStatus \ {"running", "needs_clarification"}
    BY DEF RunStatus
  <2> HIDE DEF rs
  <2>3. /\ run' \in [Runs -> Run \cup {NoRow}]
        /\ \A t \in Runs : /\ Ends(t)
                           /\ t \in rs => run'[t].status = s
                           /\ t \notin rs => run'[t] = run[t]
    BY <2>1, <2>2, WithStatusEnds
  <2>4. \A t \in Runs : (t \in rs <=> t = r)
    BY DEF rs
  <2>5. QED
    BY <2>3, <2>4
<1>4. /\ job' \in [Runs -> Job \cup {NoRow}]
      /\ \A t \in Runs : t # r => job'[t] = job[t]
  <2> DEFINE rs == {r}
  <2>1. rs \in SUBSET Runs /\ job' = Abort(rs)
    OBVIOUS
  <2>2. \A t \in Runs : (t \in rs <=> t = r)
    OBVIOUS
  <2> HIDE DEF rs
  <2>3. QED
    BY <2>1, <2>2, AbortTyped
<1>5. Launched'
  <2>1. run'[r].status # "running"
    BY <1>3
  <2>2. /\ \A t \in Runs : t # r => run'[t] = run[t]
        /\ \A t \in Runs : t # r => job'[t] = job[t]
    BY <1>3, <1>4
  <2>3. UNCHANGED <<up, launches>>
    OBVIOUS
  <2>4. QED
    BY <2>1, <2>2, <2>3, OneLaunched
<1>6. launches' \in SUBSET Runs
  BY InvParts DEF JobsTyped
<1>7. QED
  BY <1>2, <1>3, <1>4, <1>5, <1>6, RunStepGood

LEMMA RetireGood ==
  ASSUME PlanningInv, NEW r \in Runs, Retire(r)
  PROVE  GoodStep
<1> DEFINE S == {p \in LastProposal(r) : prop[p].life \in {"ready", "not_applicable"}}
<1>1. prop' = [p \in ProposalIds |->
                 IF p \in S THEN [prop[p] EXCEPT !.life = "superseded"] ELSE prop[p]]
  BY DEF Retire, EndProposal
<1>2. S \in SUBSET LastProposal(r)
  OBVIOUS
<1> HIDE DEF S
<1>3. QED
  BY <1>1, <1>2, StoppedGood DEF Retire

LEMMA CancelGood ==
  ASSUME PlanningInv, NEW r \in Runs, CancelRun(r)
  PROVE  GoodStep
  BY StoppedGood DEF CancelRun

LEMMA RefusedGood ==
  ASSUME PlanningInv, CreateRefused
  PROVE  GoodStep
<1>1. /\ \A r \in Runs : ~Active(r)
      /\ job' = Abort(Runs)
      /\ UNCHANGED <<up, launches, lost, born, asked, run, snap, prop, request, ledger,
                     historyVars, inputVars>>
  BY DEF CreateRefused, storeVars, agentVars
<1>2. job' \in [Runs -> Job \cup {NoRow}]
  BY <1>1, AbortTyped
<1>3. Launched'
  BY <1>1 DEF Launched, Active
<1>4. \A r \in Runs : Ends(r)
  BY <1>1 DEF Ends
<1>5. QED
  BY <1>1, <1>2, <1>3, <1>4, InvParts, SameProposals, RunStepGood DEF RowsTyped, JobsTyped

LEMMA AnswerGood ==
  ASSUME PlanningInv, NEW r \in Runs, AnswerRun(r)
  PROVE  GoodStep
<1>1. /\ run[r] # NoRow /\ run[r].status = "needs_clarification" /\ run[r].round = 0
      /\ prop' = [prop EXCEPT ![<<r, 0>>].life = "superseded"]
      /\ run' = [run EXCEPT ![r].status = "running", ![r].round = 1]
      /\ launches' = launches \cup {r}
      /\ UNCHANGED <<snap, request, ledger, up, job, lost, born, asked, historyVars, inputVars>>
  BY DEF AnswerRun
<1>2. <<r, 0>> \in ProposalIds /\ prop[<<r, 0>>] # NoRow
  BY <1>1 DEF ProposalIds, PlanningInv, RunsInv, QuestionKept
<1>3. /\ prop' \in [ProposalIds -> Proposal \cup {NoRow}]
      /\ prop'[<<r, 0>>].life = "superseded"
      /\ \A q \in ProposalIds : Settles(q) /\ (q # <<r, 0>> => prop'[q] = prop[q])
  BY <1>1, <1>2, OneSettles DEF Lifecycle
<1> DEFINE row == [run[r] EXCEPT !.status = "running", !.round = 1]
<1>4. row \in Run /\ row.status = "running" /\ row.calls = run[r].calls
  <2>1. run[r] \in Run
    BY <1>1, RowFacts
  <2>2. ASSUME NEW old \in Run
        PROVE  LET new == [old EXCEPT !.status = "running", !.round = 1]
               IN  new \in Run /\ new.status = "running" /\ new.calls = old.calls
    BY DEF Run, RunStatus
  <2>3. QED
    BY <2>1, <2>2
<1>5. run' = [run EXCEPT ![r] = row]
  BY <1>1
<1> HIDE DEF row
<1>6. /\ run' \in [Runs -> Run \cup {NoRow}] /\ run'[r] = row /\ run'[r] # NoRow
      /\ \A t \in Runs \ {r} : run'[t] = run[t]
  BY <1>4, <1>5, InvParts, RowIsThere DEF RowsTyped
<1>7. Active(r)
  BY <1>1 DEF Active
<1>8. RowsTyped' /\ JobsTyped'
  BY <1>1, <1>3, <1>6, InvParts DEF RowsTyped, JobsTyped
<1>9. RowsRefer'
  <2>1. \A p \in ProposalIds : p[1] \in Runs
    BY DEF ProposalIds
  <2>2. \A p \in ProposalIds : prop'[p] # NoRow => prop[p] # NoRow
    BY <1>3 DEF Settles
  <2>3. QED
    BY <1>1, <1>6, <2>1, <2>2 DEF PlanningInv, RunsInv, RowsRefer
<1>10. CallsCounted'
  BY <1>1, <1>4, <1>6 DEF PlanningInv, RunsInv, CallsCounted
<1>11. Launched'
  BY <1>1, <1>6 DEF PlanningInv, RunsInv, Launched
<1>12. QuestionKept'
  <2> SUFFICES ASSUME NEW t \in Runs, run'[t] # NoRow, run'[t].status = "needs_clarification"
               PROVE  prop'[<<t, run'[t].round>>] # NoRow
    BY DEF QuestionKept
  <2>1. t # r /\ run'[t] = run[t]
    BY <1>4, <1>6
  <2>2. prop[<<t, run[t].round>>] # NoRow /\ <<t, run[t].round>> \in ProposalIds
    BY <2>1, RowFacts DEF PlanningInv, RunsInv, QuestionKept, ProposalIds
  <2>3. QED
    BY <1>3, <2>1, <2>2, RowIsThere DEF Settles
<1>13. OnePlan'
  <2>1. \A t \in Runs : (Active(t))' => Active(t)
    BY <1>6, <1>7 DEF Active
  <2>2. ReadyProposals' \subseteq ReadyProposals
    BY <1>3, RowIsThere DEF ReadyProposals, Settles
  <2>3. QED
    BY <2>1, <2>2, PlanStays DEF PlanningInv, RunsInv
<1>14. PlanningInv' /\ UNCHANGED executed
  BY <1>1, <1>8, <1>9, <1>10, <1>11, <1>12, <1>13, RestStays DEF PlanningInv, RunsInv
<1>15. QED
  BY <1>3, <1>6, <1>7, <1>14, QuietStep

(* A new run. *)
LEMMA CreateGood ==
  ASSUME PlanningInv, NEW q \in Requests, NEW r \in Runs, CreateRun(q, r)
  PROVE  GoodStep
<1>1. /\ r \notin born /\ \A t \in Runs : ~Active(t)
      /\ snap' = [snap EXCEPT ![r] = NewSnapshot(ver')]
      /\ ctx' = [ctx EXCEPT ![ContextId] = ReadContext(ContextId)]
      /\ prop' = Supersede(ProposalIds)
      /\ run' = [run EXCEPT ![r] = [status |-> "running", round |-> 0, calls |-> 0]]
      /\ request' = [request EXCEPT ![q] = r]
      /\ job' = Abort(Runs) /\ launches' = launches \cup {r} /\ born' = born \cup {r}
      /\ UNCHANGED <<gen, pref, clock, open, focus, ledger, up, lost, asked, executed>>
  BY DEF CreateRun
<1>2. /\ ver' \in Versions
      /\ \/ ver' = ver /\ moved' = moved
         \/ Earlier(ver, ver')
      /\ r \notin touched'
      /\ \A t \in Runs : t \in touched' => t \in touched \/ Earlier(ver, ver')
  <2>1. PICK generated \in {0, 1} :
          /\ ver.rev + generated <= MaxRev
          /\ ver' = [ver EXCEPT !.rev = @ + generated]
          /\ touched' = (IF generated = 1 THEN Runs ELSE touched) \ {r}
          /\ moved' = IF generated = 1 THEN OpIds ELSE moved
    BY DEF CreateRun
  <2>2. CASE generated = 0
    <3>1. ver' = ver
      BY <2>1, <2>2, InvParts, NextVersion
    <3>2. QED
      BY <2>1, <2>2, <3>1, InvParts
  <2>3. CASE generated = 1
    <3>1. ver.rev < MaxRev /\ ver' = [ver EXCEPT !.rev = @ + 1]
      BY <2>1, <2>3, InvParts, Bounds
    <3>2. ver' \in Versions /\ Earlier(ver, ver')
      BY <3>1, InvParts, NextVersion
    <3>3. QED
      BY <2>1, <3>2
  <2>4. QED
    BY <2>2, <2>3
<1>3. run[r] = NoRow /\ asked[r] = 0
  BY <1>1, RowFacts
<1> DEFINE k == ContextId
           row == ReadContext(k)
<1>4. /\ k \in ContextIds /\ row \in Context /\ row # NoRow /\ row.rev \in 0..MaxCtx
      /\ row.in \in DailyInput
      /\ ctx[k] # NoRow => row = ctx[k]
  BY TodayTyped, RowIsThere
<1>5. ctx' = [ctx EXCEPT ![k] = row]
  BY <1>1
<1> DEFINE s == NewSnapshot(ver')
<1>6. /\ s \in Snapshot /\ s # NoRow /\ s.ver = ver' /\ s.gen = gen /\ s.pref = pref.rev
      /\ s.zone = pref.zone /\ s.date = Date /\ s.ctx = k /\ s.rev = row.rev
  <2>1. open \ row.in.blocked \in SUBSET Tasks
    BY InvParts DEF InputsTyped
  <2>2. s = [ver |-> ver', gen |-> gen, pref |-> pref.rev, zone |-> pref.zone, date |-> Date,
             ctx |-> k, rev |-> row.rev, in |-> row.in, candidates |-> open \ row.in.blocked]
    BY DEF NewSnapshot
  <2>3. Date \in Dates
    BY TodayTyped
  <2> HIDE DEF s, k, row
  <2>4. s \in Snapshot
    BY <1>2, <1>4, <2>1, <2>2, <2>3, InvParts DEF Snapshot
  <2>5. QED
    BY <2>2, <2>4, RowIsThere
<1>7. snap' = [snap EXCEPT ![r] = s]
  BY <1>1
<1> HIDE DEF s, k, row
<1>8. /\ ctx' \in [ContextIds -> Context \cup {NoRow}] /\ ctx'[k] = row
      /\ \A c \in ContextIds : ctx[c] # NoRow => ctx'[c] = ctx[c]
  BY <1>4, <1>5, InvParts DEF InputsTyped
<1>9. /\ snap' \in [Runs -> Snapshot \cup {NoRow}] /\ snap'[r] = s
      /\ \A t \in Runs \ {r} : snap'[t] = snap[t]
  BY <1>6, <1>7, InvParts DEF RowsTyped
<1>10. InputsTyped' /\ NotLater(ver, ver')
  BY <1>1, <1>2, <1>8, InvParts DEF InputsTyped, NotLater
<1>11. SnapshotVersions'
  <2>1. \A c \in ContextIds : ctx[c] # NoRow => ctx'[c] # NoRow /\ ctx[c].rev <= ctx'[c].rev
    BY <1>8, ContextRows
  <2>2. gen <= gen' /\ pref.rev <= pref'.rev /\ clock <= clock'
    BY <1>1, InvParts
  <2>3. ASSUME NEW t \in Runs, snap'[t] # NoRow
        PROVE  /\ NotLater(snap'[t].ver, ver') /\ snap'[t].gen <= gen'
               /\ snap'[t].pref <= pref'.rev /\ snap'[t].date <= clock' + snap'[t].zone
               /\ ctx'[snap'[t].ctx] # NoRow /\ snap'[t].rev <= ctx'[snap'[t].ctx].rev
               /\ t \in touched' =>
                    \/ Earlier(snap'[t].ver, ver') \/ snap'[t].gen < gen'
                    \/ snap'[t].pref < pref'.rev \/ snap'[t].date < clock' + snap'[t].zone
                    \/ snap'[t].rev < ctx'[snap'[t].ctx].rev
    <3>1. CASE t = r
      <4>1. pref.zone \in Int /\ clock \in Int /\ Date = clock + pref.zone /\ row.rev \in Int
        BY <1>4, ZoneAndClock
      <4>2. snap'[t] = s /\ t \notin touched'
        BY <1>2, <1>9, <3>1
      <4>3. s.ver = ver' /\ NotLater(s.ver, ver')
        BY <1>6 DEF NotLater
      <4>4. s.gen <= gen' /\ s.pref <= pref'.rev /\ s.date <= clock' + s.zone
        BY <1>1, <1>6, <4>1, InvParts
      <4>5. ctx'[s.ctx] # NoRow /\ s.rev <= ctx'[s.ctx].rev
        BY <1>4, <1>6, <1>8, <4>1
      <4>6. QED
        BY <4>2, <4>3, <4>4, <4>5
    <3>2. CASE t # r
      <4>1. snap'[t] = snap[t] /\ snap[t] # NoRow
        BY <1>9, <2>3, <3>2
      <4>2. QED
        BY <1>2, <1>10, <2>1, <2>2, <4>1, SnapshotStays
    <3>3. QED
      BY <3>1, <3>2
  <2>4. QED
    BY <2>3 DEF SnapshotVersions, Overtaken
<1>12. LedgerInv'
  BY <1>1, <1>2, <1>10, InvParts, LedgerStays
<1> DEFINE new == [status |-> "running", round |-> 0, calls |-> 0]
<1>13. new \in Run /\ new # NoRow /\ new.status = "running" /\ new.calls = 0
  BY RowIsThere DEF Run, RunStatus
<1>14. run' = [run EXCEPT ![r] = new]
  BY <1>1
<1> HIDE DEF new
<1>15. /\ run' \in [Runs -> Run \cup {NoRow}] /\ run'[r] = new
       /\ \A t \in Runs \ {r} : run'[t] = run[t]
  BY <1>13, <1>14, InvParts DEF RowsTyped
<1>16. /\ prop' \in [ProposalIds -> Proposal \cup {NoRow}]
       /\ \A p \in ProposalIds : /\ Settles(p)
                                 /\ prop'[p] = prop[p] \/ prop'[p].life = "superseded"
                                 /\ p \notin ReadyProposals'
  BY <1>1, SupersedeSettles
<1>17. RowsTyped' /\ JobsTyped'
  <2>1. request' \in [Requests -> Runs \cup {NoRow}]
    BY <1>1, InvParts DEF RowsTyped
  <2>2. job' \in [Runs -> Job \cup {NoRow}]
    BY <1>1, AbortTyped
  <2>3. QED
    BY <1>1, <1>9, <1>15, <1>16, <2>1, <2>2, InvParts DEF RowsTyped, JobsTyped
<1>18. RowsRefer'
  <2>1. \A p \in ProposalIds : p[1] \in Runs
    BY DEF ProposalIds
  <2>2. \A p \in ProposalIds : prop'[p] # NoRow => prop[p] # NoRow
    BY <1>16 DEF Settles
  <2>3. QED
    BY <1>3, <1>6, <1>9, <1>13, <1>15, <2>1, <2>2 DEF PlanningInv, RunsInv, RowsRefer
<1>19. CallsCounted'
  BY <1>1, <1>3, <1>13, <1>15 DEF PlanningInv, RunsInv, CallsCounted
<1>20. Launched'
  BY <1>1, <1>15 DEF Launched, Active
<1>21. QuestionKept'
  BY <1>1, <1>13, <1>15 DEF QuestionKept, Active
<1>22. OnePlan'
  <2>1. \A t \in Runs : (Active(t))' => t = r
    BY <1>1, <1>15 DEF Active
  <2>2. ReadyProposals' = {}
    BY <1>16 DEF ReadyProposals
  <2>3. QED
    BY <2>1, <2>2 DEF OnePlan
<1>23. PlanningInv'
  BY <1>10, <1>11, <1>12, <1>17, <1>18, <1>19, <1>20, <1>21, <1>22 DEF PlanningInv, RunsInv
<1>24. QED
  BY <1>1, <1>3, <1>15, <1>16, <1>23, QuietStep

LEMMA RequestGood ==
  ASSUME PlanningInv, RequestStep
  PROVE  GoodStep
  BY RetireGood, AnswerGood, CancelGood, CreateGood, RefusedGood DEF RequestStep

----------------------------------------------------------------------------
(* The job of a run. *)

LEMMA JobFacts ==
  ASSUME PlanningInv, NEW r \in Runs, JobOnly
  PROVE  /\ UNCHANGED <<up, launches, lost, born, asked, run, snap, prop, request, ledger,
                        historyVars, inputVars>>
         /\ \A t \in Runs : Ends(t)
         /\ run' \in [Runs -> Run \cup {NoRow}] /\ launches' \in SUBSET Runs
         /\ prop' \in [ProposalIds -> Proposal \cup {NoRow}]
         /\ \A p \in ProposalIds : Settles(p) /\ prop'[p] \in {prop[p], NoRow}
<1>1. UNCHANGED <<up, launches, lost, born, asked, run, snap, prop, request, ledger,
                  historyVars, inputVars>>
  BY DEF JobOnly, storeVars, agentVars
<1>2. QED
  BY <1>1, InvParts, SameProposals DEF Ends, RowsTyped, JobsTyped

LEMMA JobReplaced ==
  ASSUME PlanningInv, NEW r \in Runs, NEW j \in Job, job' = [job EXCEPT ![r] = j]
  PROVE  /\ job' \in [Runs -> Job \cup {NoRow}] /\ job'[r] = j /\ j # NoRow
         /\ \A t \in Runs \ {r} : job'[t] = job[t]
  BY InvParts, RowIsThere DEF JobsTyped

(* A job goes on as it is, waiting or aborted. *)
LEMMA JobOn ==
  ASSUME PlanningInv, NEW r \in Runs, job[r] # NoRow, NEW j \in Job,
         j.aborted = job[r].aborted, job' = [job EXCEPT ![r] = j], JobOnly
  PROVE  GoodStep
<1>1. /\ job' \in [Runs -> Job \cup {NoRow}] /\ job'[r] = j /\ j # NoRow
      /\ \A t \in Runs \ {r} : job'[t] = job[t]
  BY JobReplaced
<1>2. UNCHANGED <<run, launches, lost, up>>
  BY JobFacts
<1>3. Launched'
  BY <1>1, <1>2 DEF PlanningInv, RunsInv, Launched
<1>4. QED
  BY <1>1, <1>3, JobFacts, RunStepGood

LEMMA GotoGood ==
  ASSUME PlanningInv, NEW r \in Runs, job[r] # NoRow, NEW pc \in Place, Goto(r, pc), JobOnly
  PROVE  GoodStep
<1> DEFINE j == [job[r] EXCEPT !.pc = pc]
<1>1. job[r] \in Job
  BY RowFacts
<1>2. j \in Job /\ j.aborted = job[r].aborted
  BY <1>1 DEF Job
<1>3. job' = [job EXCEPT ![r] = j]
  BY DEF Goto
<1> HIDE DEF j
<1>4. QED
  BY <1>2, <1>3, JobOn

(* A job ends where no run waits for it. *)
LEMMA EndTyped ==
  ASSUME PlanningInv, NEW r \in Runs, End(r)
  PROVE  /\ job' \in [Runs -> Job \cup {NoRow}]
         /\ \A t \in Runs \ {r} : job'[t] = job[t]
  BY InvParts DEF End, JobsTyped

LEMMA EndGood ==
  ASSUME PlanningInv, NEW r \in Runs, End(r), JobOnly,
         run[r] = NoRow \/ run[r].status # "running" \/ r \in launches \/ r \in lost
  PROVE  GoodStep
<1>1. UNCHANGED <<run, launches, lost, up>>
  BY JobFacts
<1>2. Launched'
  BY <1>1, EndTyped DEF PlanningInv, RunsInv, Launched
<1>3. QED
  BY <1>2, EndTyped, JobFacts, RunStepGood

LEMMA LaunchGood ==
  ASSUME PlanningInv, NEW r \in Runs, Launch(r)
  PROVE  GoodStep
<1>1. /\ launches' = launches \ {r} /\ job' = [job EXCEPT ![r] = NewJob]
      /\ UNCHANGED <<up, lost, born, asked, run, snap, prop, request, ledger, historyVars, inputVars>>
  BY DEF Launch, storeVars, agentVars
<1>2. NewJob \in Job /\ NewJob.aborted = FALSE
  BY DEF NewJob, Job, Place, Answer
<1>3. /\ job' \in [Runs -> Job \cup {NoRow}] /\ job'[r] = NewJob /\ NewJob # NoRow
      /\ \A t \in Runs \ {r} : job'[t] = job[t]
  BY <1>1, <1>2, InvParts, RowIsThere DEF JobsTyped
<1>4. Launched'
  BY <1>1, <1>2, <1>3 DEF PlanningInv, RunsInv, Launched
<1>5. run' \in [Runs -> Run \cup {NoRow}] /\ launches' \in SUBSET Runs
      /\ \A t \in Runs : Ends(t)
  BY <1>1, InvParts DEF RowsTyped, JobsTyped, Ends
<1>6. QED
  BY <1>1, <1>3, <1>4, <1>5, SameProposals, RunStepGood

(* A result is stored for a run that waits. *)
LEMMA StoredGood ==
  ASSUME PlanningInv, NEW r \in Runs, run[r] # NoRow, run[r].status = "running",
         NEW kind \in {"ready", "no_action", "needs_clarification"},
         NEW row \in Proposal, row.life = IF kind = "ready" THEN "ready" ELSE "not_applicable",
         prop' = [prop EXCEPT ![<<r, run[r].round>>] = row],
         run' = WithStatus({r}, kind), End(r), RowsOnly
  PROVE  GoodStep
<1> DEFINE p == <<r, run[r].round>>
<1>1. UNCHANGED <<up, launches, lost, born, asked, snap, request, ledger, historyVars, inputVars>>
  BY DEF RowsOnly
<1>2. p \in ProposalIds
  BY RowFacts DEF ProposalIds
<1>3. /\ prop' \in [ProposalIds -> Proposal \cup {NoRow}] /\ prop'[p] = row /\ row # NoRow
      /\ \A q \in ProposalIds : q # p => prop'[q] = prop[q]
  BY <1>2, InvParts, RowIsThere DEF RowsTyped
<1>4. p[1] = r
  OBVIOUS
<1> DEFINE new == [run[r] EXCEPT !.status = kind]
<1>5. /\ new \in Run /\ new # NoRow /\ new.status = kind /\ new.calls = run[r].calls
      /\ new.round = run[r].round
  <2>1. kind \in RunStatus
    BY DEF RunStatus
  <2>2. QED
    BY <2>1, StatusRow, RowIsThere
<1>6. run' = [t \in Runs |-> IF t = r THEN new ELSE run[t]]
  BY DEF WithStatus
<1> HIDE DEF new
<1>7. /\ run' \in [Runs -> Run \cup {NoRow}] /\ run'[r] = new
      /\ \A t \in Runs \ {r} : run'[t] = run[t]
  BY <1>5, <1>6, InvParts DEF RowsTyped
<1>8. RowsTyped' /\ JobsTyped'
  BY <1>1, <1>3, <1>7, InvParts, EndTyped DEF RowsTyped, JobsTyped
<1>9. RowsRefer'
  <2>1. \A q \in ProposalIds : q[1] \in Runs
    BY DEF ProposalIds
  <2>2. \A t \in Runs : run'[t] # NoRow <=> run[t] # NoRow
    BY <1>5, <1>7
  <2>3. \A q \in ProposalIds : prop'[q] # NoRow => run'[q[1]] # NoRow
    <3> SUFFICES ASSUME NEW q \in ProposalIds, prop'[q] # NoRow PROVE run'[q[1]] # NoRow
      OBVIOUS
    <3>1. CASE q = p
      BY <1>4, <1>5, <1>7, <3>1
    <3>2. CASE q # p
      BY <1>3, <2>1, <2>2, <3>2 DEF PlanningInv, RunsInv, RowsRefer
    <3>3. QED
      BY <3>1, <3>2
  <2>4. QED
    BY <1>1, <2>2, <2>3 DEF PlanningInv, RunsInv, RowsRefer
<1>10. CallsCounted'
  <2>1. \A t \in Runs : (run'[t] # NoRow <=> run[t] # NoRow) /\ run'[t].calls = run[t].calls
    BY <1>5, <1>7
  <2>2. QED
    BY <1>1, <2>1 DEF PlanningInv, RunsInv, CallsCounted
<1>11. Launched'
  <2>1. \A t \in Runs \ {r} : job'[t] = job[t]
    BY EndTyped
  <2>2. QED
    BY <1>1, <1>5, <1>7, <2>1, OneLaunched
<1>12. QuestionKept'
  <2> SUFFICES ASSUME NEW t \in Runs, run'[t] # NoRow, run'[t].status = "needs_clarification"
               PROVE  prop'[<<t, run'[t].round>>] # NoRow
    BY DEF QuestionKept
  <2>1. CASE t = r
    <3>1. <<t, run'[t].round>> = p
      BY <1>5, <1>7, <2>1
    <3>2. QED
      BY <1>3, <3>1
  <2>2. CASE t # r
    <3>1. run'[t] = run[t]
      BY <1>7, <2>2
    <3>2. <<t, run[t].round>> \in ProposalIds /\ <<t, run[t].round>> # p
      BY <2>2, <3>1, RowFacts DEF ProposalIds
    <3>3. prop[<<t, run[t].round>>] # NoRow
      BY <3>1 DEF PlanningInv, RunsInv, QuestionKept
    <3>4. QED
      BY <1>3, <3>1, <3>2, <3>3
  <2>3. QED
    BY <2>1, <2>2
<1>13. Active(r) /\ ReadyProposals = {} /\ \A t \in Runs : Active(t) => t = r
  BY DEF Active, PlanningInv, RunsInv, OnePlan
<1>14. OnePlan'
  <2>1. \A t \in Runs : (Active(t))' => t = r /\ kind = "needs_clarification"
    BY <1>5, <1>7, <1>13 DEF Active
  <2>2. \A q \in ReadyProposals' : q = p /\ kind = "ready"
    <3> SUFFICES ASSUME NEW q \in ProposalIds, prop'[q] # NoRow, prop'[q].life = "ready"
                 PROVE  q = p /\ kind = "ready"
      BY DEF ReadyProposals
    <3>1. q = p
      BY <1>3, <1>13 DEF ReadyProposals
    <3>2. QED
      BY <1>3, <3>1
  <2>3. QED
    BY <2>1, <2>2 DEF OnePlan
<1>15. PlanningInv' /\ UNCHANGED executed
  BY <1>1, <1>8, <1>9, <1>10, <1>11, <1>12, <1>14, RestStays DEF PlanningInv, RunsInv
<1>16. \A q \in ProposalIds : prop'[q] \in {prop[q], NoRow} \/ prop'[q].life # "applied"
  BY <1>3
<1>17. QED
  BY <1>7, <1>13, <1>15, <1>16, QuietStep

LEMMA FinishGood ==
  ASSUME PlanningInv, NEW r \in Runs, job[r] # NoRow,
         NEW kind \in {"ready", "no_action", "needs_clarification"}, Finish(r, kind)
  PROVE  GoodStep
<1>1. CASE run[r] = NoRow /\ End(r) /\ JobOnly
  BY <1>1, EndGood
<1>2. CASE run[r] # NoRow /\ run[r].status # "running" /\ End(r) /\ JobOnly
  BY <1>2, EndGood
<1>3. CASE Goto(r, "failing") /\ JobOnly
  BY <1>3, GotoGood DEF Place
<1>4. CASE /\ run[r] # NoRow /\ run[r].status = "running" /\ ~Stale(r)
           /\ \E chosen \in IF kind = "ready" THEN Acceptable(snap[r]) ELSE {{}} :
                prop' = [prop EXCEPT ![<<r, run[r].round>>] =
                    [life |-> IF kind = "ready" THEN "ready" ELSE "not_applicable",
                     tasks |-> chosen]]
           /\ run' = WithStatus({r}, kind)
           /\ End(r) /\ RowsOnly
  <2>1. PICK chosen \in IF kind = "ready" THEN Acceptable(snap[r]) ELSE {{}} :
          prop' = [prop EXCEPT ![<<r, run[r].round>>] =
              [life |-> IF kind = "ready" THEN "ready" ELSE "not_applicable", tasks |-> chosen]]
    BY <1>4
  <2>2. snap[r].candidates \in SUBSET Tasks
    BY <1>4, SnapshotFacts DEF Stale
  <2>3. chosen \in SUBSET Tasks
    BY <2>1, <2>2 DEF Acceptable
  <2> DEFINE row == [life |-> IF kind = "ready" THEN "ready" ELSE "not_applicable",
                     tasks |-> chosen]
  <2>4. row \in Proposal /\ row.life = IF kind = "ready" THEN "ready" ELSE "not_applicable"
    BY <2>3 DEF Proposal, Lifecycle
  <2>5. prop' = [prop EXCEPT ![<<r, run[r].round>>] = row]
    BY <2>1
  <2> HIDE DEF row
  <2>6. QED
    BY <1>4, <2>4, <2>5, StoredGood
<1>5. QED
  BY <1>1, <1>2, <1>3, <1>4 DEF Finish

LEMMA BeginGood ==
  ASSUME PlanningInv, NEW r \in Runs, Begin(r)
  PROVE  GoodStep
<1>1. job[r] # NoRow
  BY DEF Begin
<1>2. CASE run[r] = NoRow \/ snap[r] = NoRow
  <2>1. run[r] = NoRow
    BY <1>2, RowFacts
  <2>2. End(r) /\ JobOnly
    BY <1>2 DEF Begin
  <2>3. QED
    BY <2>1, <2>2, EndGood
<1>3. CASE ~(run[r] = NoRow \/ snap[r] = NoRow) /\ ForcedNoAction(snap[r])
  <2>1. Finish(r, "no_action")
    BY <1>3 DEF Begin
  <2>2. QED
    BY <1>1, <2>1, FinishGood
<1>4. CASE ~(run[r] = NoRow \/ snap[r] = NoRow) /\ ~ForcedNoAction(snap[r])
  <2>1. Goto(r, "next") /\ JobOnly
    BY <1>4 DEF Begin
  <2>2. QED
    BY <1>1, <2>1, GotoGood DEF Place
<1>5. QED
  BY <1>2, <1>3, <1>4

(* A call is counted in the row before the model is asked. *)
LEMMA CountedGood ==
  ASSUME PlanningInv, NEW r \in Runs, run[r] # NoRow, job[r] # NoRow,
         run[r].status = "running", run[r].calls < 3,
         run' = [run EXCEPT ![r].calls = @ + 1],
         job' = [job EXCEPT ![r].pc = "call", ![r].calls = run[r].calls + 1,
                            ![r].round = run[r].round],
         asked' = [asked EXCEPT ![r] = @ + 1],
         UNCHANGED <<prop, snap, request, ledger, up, launches, lost, born, historyVars, inputVars>>
  PROVE  GoodStep
<1>1. /\ run[r] \in Run /\ job[r] \in Job /\ asked[r] = run[r].calls /\ run[r].calls \in 0..3
      /\ run[r].round \in {0, 1}
  BY RowFacts
<1>2. run[r].calls + 1 \in 0..3
  BY <1>1
<1> DEFINE row == [run[r] EXCEPT !.calls = @ + 1]
           j == [job[r] EXCEPT !.pc = "call", !.calls = run[r].calls + 1, !.round = run[r].round]
<1>3. /\ row \in Run /\ row.status = run[r].status /\ row.round = run[r].round
      /\ row.calls = run[r].calls + 1
  BY <1>1, <1>2 DEF Run
<1>4. j \in Job /\ j.aborted = job[r].aborted
  BY <1>1, <1>2 DEF Job, Place
<1>5. run' = [run EXCEPT ![r] = row] /\ job' = [job EXCEPT ![r] = j]
  OBVIOUS
<1> HIDE DEF row, j
<1>6. /\ run' \in [Runs -> Run \cup {NoRow}] /\ run'[r] = row /\ row # NoRow
      /\ \A t \in Runs \ {r} : run'[t] = run[t]
  BY <1>3, <1>5, InvParts, RowIsThere DEF RowsTyped
<1>7. /\ job' \in [Runs -> Job \cup {NoRow}] /\ job'[r] = j /\ j # NoRow
      /\ \A t \in Runs \ {r} : job'[t] = job[t]
  BY <1>4, <1>5, JobReplaced
<1>8. /\ asked' \in [Runs -> 0..3] /\ asked'[r] = row.calls
      /\ \A t \in Runs \ {r} : asked'[t] = asked[t]
  BY <1>1, <1>2, <1>3, InvParts DEF JobsTyped
<1>9. RowsTyped' /\ JobsTyped'
  BY <1>6, <1>7, <1>8, InvParts DEF RowsTyped, JobsTyped
<1>10. RowsRefer'
  <2>1. \A p \in ProposalIds : p[1] \in Runs
    BY DEF ProposalIds
  <2>2. QED
    BY <1>6, <2>1 DEF PlanningInv, RunsInv, RowsRefer
<1>11. CallsCounted'
  <2> SUFFICES ASSUME NEW t \in Runs
               PROVE  /\ run'[t] # NoRow => t \in born' /\ asked'[t] = run'[t].calls
                      /\ t \notin born' => asked'[t] = 0
    BY DEF CallsCounted
  <2>1. /\ run[t] # NoRow => t \in born /\ asked[t] = run[t].calls
        /\ t \notin born => asked[t] = 0
    BY DEF PlanningInv, RunsInv, CallsCounted
  <2>2. CASE t = r
    BY <1>6, <1>8, <2>1, <2>2, RowFacts
  <2>3. CASE t # r
    BY <1>6, <1>8, <2>1, <2>3
  <2>4. QED
    BY <2>2, <2>3
<1>12. Launched'
  <2>1. up => r \in launches \/ r \in lost \/ ~job[r].aborted
    BY DEF PlanningInv, RunsInv, Launched
  <2>2. up' => r \in launches' \/ r \in lost' \/ (job'[r] # NoRow /\ ~job'[r].aborted)
    BY <1>4, <1>7, <2>1
  <2>3. QED
    BY <1>6, <1>7, <2>2, OneLaunched
<1>13. QuestionKept'
  BY <1>3, <1>6 DEF PlanningInv, RunsInv, QuestionKept
<1>14. OnePlan'
  <2>1. \A t \in Runs : (Active(t))' => Active(t)
    BY <1>6 DEF Active
  <2>2. ReadyProposals' \subseteq ReadyProposals
    BY DEF ReadyProposals
  <2>3. QED
    BY <2>1, <2>2, PlanStays DEF PlanningInv, RunsInv
<1>15. PlanningInv' /\ UNCHANGED executed
  BY <1>9, <1>10, <1>11, <1>12, <1>13, <1>14, RestStays DEF PlanningInv, RunsInv
<1>16. Active(r)
  BY DEF Active
<1>17. QED
  BY <1>6, <1>15, <1>16, QuietStep

LEMMA CountCallGood ==
  ASSUME PlanningInv, NEW r \in Runs, CountCall(r)
  PROVE  GoodStep
<1>1. up /\ job[r] # NoRow
  BY DEF CountCall
<1>2. CASE run[r] = NoRow \/ job[r].aborted
  <2>1. End(r) /\ JobOnly
    BY <1>2 DEF CountCall
  <2>2. run[r] = NoRow \/ run[r].status # "running" \/ r \in launches \/ r \in lost
    BY <1>1, <1>2 DEF PlanningInv, RunsInv, Launched
  <2>3. QED
    BY <2>1, <2>2, EndGood
<1>3. CASE ~(run[r] = NoRow \/ job[r].aborted) /\ run[r].status # "running"
  <2>1. End(r) /\ JobOnly
    BY <1>3 DEF CountCall
  <2>2. QED
    BY <1>3, <2>1, EndGood
<1>4. CASE /\ ~(run[r] = NoRow \/ job[r].aborted) /\ run[r].status = "running"
           /\ run[r].calls >= 3 \/ Stale(r)
  <2>1. Goto(r, "failing") /\ JobOnly
    BY <1>4 DEF CountCall
  <2>2. QED
    BY <1>1, <2>1, GotoGood DEF Place
<1>5. CASE /\ ~(run[r] = NoRow \/ job[r].aborted) /\ run[r].status = "running"
           /\ ~(run[r].calls >= 3 \/ Stale(r))
  <2>1. run[r].calls < 3
    BY <1>5, RowFacts
  <2>2. /\ run' = [run EXCEPT ![r].calls = @ + 1]
        /\ job' = [job EXCEPT ![r].pc = "call", ![r].calls = run[r].calls + 1,
                              ![r].round = run[r].round]
        /\ asked' = [asked EXCEPT ![r] = @ + 1]
        /\ UNCHANGED <<prop, snap, request, ledger, up, launches, lost, born, historyVars, inputVars>>
    BY <1>5 DEF CountCall
  <2>3. QED
    BY <1>1, <1>5, <2>1, <2>2, CountedGood
<1>6. QED
  BY <1>2, <1>3, <1>4, <1>5

LEMMA ModelAnswersGood ==
  ASSUME PlanningInv, NEW r \in Runs, NEW answer \in Answer, ModelAnswers(r, answer)
  PROVE  GoodStep
<1> DEFINE given == IF answer = "needs_clarification" /\ job[r].round > 0
                    THEN "error" ELSE answer
<1>1. /\ job[r] # NoRow /\ JobOnly
      /\ job' = [job EXCEPT ![r].pc = "answered", ![r].answer = given]
  BY DEF ModelAnswers
<1>2. job[r] \in Job /\ given \in Answer
  BY <1>1, RowFacts DEF Answer
<1> HIDE DEF given
<1> DEFINE j == [job[r] EXCEPT !.pc = "answered", !.answer = given]
<1>3. j \in Job /\ j.aborted = job[r].aborted
  BY <1>2 DEF Job, Place
<1>4. job' = [job EXCEPT ![r] = j]
  BY <1>1
<1> HIDE DEF j
<1>5. QED
  BY <1>1, <1>3, <1>4, JobOn

LEMMA UseAnswerGood ==
  ASSUME PlanningInv, NEW r \in Runs, UseAnswer(r)
  PROVE  GoodStep
<1>1. job[r] # NoRow /\ job[r] \in Job
  BY RowFacts DEF UseAnswer
<1>2. CASE job[r].answer \in {"ready", "no_action", "needs_clarification"}
  <2>1. Finish(r, job[r].answer)
    BY <1>2 DEF UseAnswer
  <2>2. QED
    BY <1>1, <1>2, <2>1, FinishGood
<1>3. CASE job[r].answer \notin {"ready", "no_action", "needs_clarification"}
           /\ MayRepair(job[r])
  <2> DEFINE j == [job[r] EXCEPT !.pc = "next", !.repaired = TRUE]
  <2>1. job' = [job EXCEPT ![r] = j] /\ JobOnly
    BY <1>3 DEF UseAnswer
  <2>2. j \in Job /\ j.aborted = job[r].aborted
    BY <1>1 DEF Job, Place
  <2> HIDE DEF j
  <2>3. QED
    BY <1>1, <2>1, <2>2, JobOn
<1>4. CASE job[r].answer \notin {"ready", "no_action", "needs_clarification"}
           /\ ~MayRepair(job[r])
  <2>1. Goto(r, "failing") /\ JobOnly
    BY <1>4 DEF UseAnswer
  <2>2. QED
    BY <1>1, <2>1, GotoGood DEF Place
<1>5. QED
  BY <1>2, <1>3, <1>4

LEMMA FailGood ==
  ASSUME PlanningInv, NEW r \in Runs, Fail(r)
  PROVE  GoodStep
<1>1. End(r)
  BY DEF Fail
<1>2. CASE run[r] # NoRow /\ run[r].status = "running"
  <2>1. run' = WithStatus({r}, "failed") /\ prop' = prop /\ RowsOnly
    BY <1>2 DEF Fail
  <2>2. UNCHANGED <<up, launches, lost, born, asked, snap, request, ledger, historyVars, inputVars>>
    BY <2>1 DEF RowsOnly
  <2> DEFINE rs == {r}
  <2>3. rs \in SUBSET Runs /\ run' = WithStatus(rs, "failed") /\ \A t \in rs : Active(t)
    BY <1>2, <2>1 DEF Active
  <2>4. "failed" \in RunStatus \ {"running", "needs_clarification"}
    BY DEF RunStatus
  <2>5. r \in rs /\ \A t \in Runs : t # r => t \notin rs
    OBVIOUS
  <2> HIDE DEF rs
  <2>6. /\ run' \in [Runs -> Run \cup {NoRow}]
        /\ \A t \in Runs : /\ Ends(t)
                           /\ t = r => run'[t].status = "failed"
                           /\ t # r => run'[t] = run[t]
    BY <2>3, <2>4, <2>5, WithStatusEnds
  <2>7. Launched'
    BY <1>1, <2>2, <2>6, EndTyped DEF PlanningInv, RunsInv, Launched
  <2>8. launches' \in SUBSET Runs
    BY <2>2, InvParts DEF JobsTyped
  <2>9. QED
    BY <1>1, <2>1, <2>2, <2>6, <2>7, <2>8, EndTyped, SameProposals, RunStepGood
<1>3. CASE ~(run[r] # NoRow /\ run[r].status = "running")
  <2>1. JobOnly
    BY <1>3 DEF Fail
  <2>2. QED
    BY <1>1, <1>3, <2>1, EndGood
<1>4. QED
  BY <1>2, <1>3

LEMMA WriteFailsGood ==
  ASSUME PlanningInv, NEW r \in Runs, WriteFails(r)
  PROVE  GoodStep
  BY GotoGood DEF WriteFails, Place

LEMMA FailLostGood ==
  ASSUME PlanningInv, NEW r \in Runs, FailLost(r)
  PROVE  GoodStep
<1>1. /\ End(r) /\ lost' = lost \cup {r}
      /\ UNCHANGED <<up, launches, born, asked, run, snap, prop, request, ledger,
                     historyVars, inputVars>>
  BY DEF FailLost, storeVars, agentVars
<1>2. Launched'
  BY <1>1, EndTyped, OneLaunched
<1>3. /\ run' \in [Runs -> Run \cup {NoRow}] /\ launches' \in SUBSET Runs
      /\ \A t \in Runs : Ends(t)
  BY <1>1, InvParts DEF RowsTyped, JobsTyped, Ends
<1>4. QED
  BY <1>1, <1>2, <1>3, EndTyped, SameProposals, RunStepGood

LEMMA JobStepGood ==
  ASSUME PlanningInv, NEW r \in Runs, JobStep(r)
  PROVE  GoodStep
  BY LaunchGood, BeginGood, CountCallGood, UseAnswerGood, FailGood, WriteFailsGood, FailLostGood,
     ModelAnswersGood DEF JobStep

----------------------------------------------------------------------------
(* Processes come and go. *)

(* Whoever interrupts the active runs leaves none that waits for a job.    *)
LEMMA InterruptedGood ==
  ASSUME PlanningInv, run' = WithStatus({r \in Runs : Active(r)}, "interrupted"),
         job' \in [Runs -> Job \cup {NoRow}], launches' \in SUBSET Runs,
         UNCHANGED <<prop, snap, request, ledger, born, asked, historyVars, inputVars>>
  PROVE  GoodStep
<1> DEFINE rs == {r \in Runs : Active(r)}
<1>1. rs \in SUBSET Runs /\ run' = WithStatus(rs, "interrupted") /\ \A t \in rs : Active(t)
  OBVIOUS
<1>2. "interrupted" \in RunStatus \ {"running", "needs_clarification"}
  BY DEF RunStatus
<1>3. \A t \in Runs : Active(t) <=> t \in rs
  OBVIOUS
<1> HIDE DEF rs
<1>4. /\ run' \in [Runs -> Run \cup {NoRow}]
      /\ \A t \in Runs : /\ Ends(t)
                         /\ Active(t) => run'[t].status = "interrupted"
                         /\ ~Active(t) => run'[t] = run[t]
  BY <1>1, <1>2, <1>3, WithStatusEnds
<1>5. Launched'
  BY <1>4 DEF Launched, Active
<1>6. QED
  BY <1>4, <1>5, SameProposals, RunStepGood

LEMMA NoJobs ==
  [r \in Runs |-> NoRow] \in [Runs -> Job \cup {NoRow}]
  OBVIOUS

LEMMA CloseGood ==
  ASSUME PlanningInv, Close
  PROVE  GoodStep
<1>1. job' \in [Runs -> Job \cup {NoRow}] /\ launches' \in SUBSET Runs
  BY NoJobs DEF Close
<1>2. QED
  BY <1>1, InterruptedGood DEF Close

LEMMA StartGood ==
  ASSUME PlanningInv, Start
  PROVE  GoodStep
<1>1. job' \in [Runs -> Job \cup {NoRow}] /\ launches' \in SUBSET Runs
  BY InvParts DEF Start, JobsTyped
<1>2. QED
  BY <1>1, InterruptedGood DEF Start

LEMMA CrashGood ==
  ASSUME PlanningInv, Crash
  PROVE  GoodStep
<1>1. /\ job' \in [Runs -> Job \cup {NoRow}] /\ launches' \in SUBSET Runs /\ ~up'
  BY NoJobs DEF Crash
<1>2. UNCHANGED <<born, asked, run, snap, prop, request, ledger, historyVars, inputVars>>
  BY DEF Crash, storeVars, agentVars
<1>3. Launched'
  BY <1>1 DEF Launched
<1>4. run' \in [Runs -> Run \cup {NoRow}] /\ \A t \in Runs : Ends(t)
  BY <1>2, InvParts DEF RowsTyped, Ends
<1>5. QED
  BY <1>1, <1>2, <1>3, <1>4, SameProposals, RunStepGood

LEMMA StillGood ==
  ASSUME PlanningInv, UNCHANGED vars
  PROVE  GoodStep
<1>1. /\ UNCHANGED <<up, launches, job, lost, born, asked, run, snap, prop, request, ledger,
                     historyVars, inputVars>>
  BY DEF vars, storeVars, agentVars, runVars
<1>2. Launched'
  BY <1>1 DEF PlanningInv, RunsInv, Launched
<1>3. /\ run' \in [Runs -> Run \cup {NoRow}] /\ job' \in [Runs -> Job \cup {NoRow}]
      /\ launches' \in SUBSET Runs
      /\ \A t \in Runs : Ends(t)
  BY <1>1, InvParts DEF RowsTyped, JobsTyped, Ends
<1>4. QED
  BY <1>1, <1>2, <1>3, SameProposals, RunStepGood

(* Every step keeps the invariant and the three action properties.         *)
LEMMA StepGood ==
  ASSUME PlanningInv, [Next]_vars
  PROVE  GoodStep
<1>1. CASE up /\ UserStep /\ UNCHANGED runVars
  BY <1>1, UserGood
<1>2. CASE up /\ ExecutionStep /\ UNCHANGED runVars
  BY <1>2, ApplyGood, RevertGood DEF ExecutionStep
<1>3. CASE RequestStep
  BY <1>3, RequestGood
<1>4. ASSUME NEW r \in Runs, JobStep(r)
      PROVE  GoodStep
  BY <1>4, JobStepGood
<1>5. CASE Close \/ Crash \/ Start
  BY <1>5, CloseGood, CrashGood, StartGood
<1>6. CASE UNCHANGED vars
  BY <1>6, StillGood
<1>7. QED
  BY <1>1, <1>2, <1>3, <1>4, <1>5, <1>6 DEF Next

LEMMA InitGood == Init => PlanningInv
<1> SUFFICES ASSUME Init PROVE PlanningInv
  OBVIOUS
<1> USE DEF Init, StoreInit, RunInit
<1>1. InputsTyped
  <2>1. /\ ver \in Versions /\ gen \in 0..MaxGen /\ clock \in 0..MaxDay
    BY Bounds DEF Versions
  <2>2. pref \in [rev : 0..MaxPref, zone : Zones]
    <3>1. PICK z \in Zones : pref = [rev |-> 0, zone |-> z]
      OBVIOUS
    <3>2. QED
      BY <3>1, Bounds
  <2>3. /\ ctx \in [ContextIds -> Context \cup {NoRow}] /\ open \in SUBSET Tasks
        /\ focus \in [Dates -> SUBSET Tasks]
    OBVIOUS
  <2>4. QED
    BY <2>1, <2>2, <2>3 DEF InputsTyped
<1>2. LedgerInv
  <2>1. \A o \in OpIds : ledger[o] = NoRow /\ executed[o] = 0
    OBVIOUS
  <2>2. LedgerTyped /\ LedgerRemembers
    BY <2>1 DEF LedgerTyped, LedgerRemembers
  <2>3. LedgerVersions
    BY <2>1, NoRowAssumption DEF LedgerVersions
  <2>4. QED
    BY <2>2, <2>3 DEF LedgerInv
<1>3. /\ \A r \in Runs : run[r] = NoRow /\ snap[r] = NoRow /\ asked[r] = 0
      /\ \A p \in ProposalIds : prop[p] = NoRow
  OBVIOUS
<1>4. SnapshotVersions
  BY <1>3 DEF SnapshotVersions
<1>5. RowsTyped /\ RowsRefer /\ JobsTyped
  BY <1>3 DEF RowsTyped, RowsRefer, JobsTyped
<1>6. CallsCounted /\ Launched /\ QuestionKept
  BY <1>3 DEF CallsCounted, Launched, QuestionKept
<1>7. OnePlan
  BY <1>3 DEF OnePlan, Active, ReadyProposals
<1>8. QED
  BY <1>1, <1>2, <1>4, <1>5, <1>6, <1>7 DEF PlanningInv, RunsInv

----------------------------------------------------------------------------
(* The theorems. *)

(* Every reachable state satisfies the inductive invariant.                *)
THEOREM PlanningInvariant == Spec => []PlanningInv
<1>1. PlanningInv /\ [Next]_vars => PlanningInv'
  BY StepGood DEF GoodStep
<1>2. QED
  BY <1>1, InitGood, PTL DEF Spec

(* Runs whose failure was lost are runs. *)
LostAreRuns == lost \in SUBSET Runs
LEMMA LostTyped == Spec => []LostAreRuns
<1>1. Init => LostAreRuns
  BY DEF Init, RunInit, LostAreRuns
<1>2. LostAreRuns /\ [Next]_vars => LostAreRuns'
  <2> SUFFICES ASSUME lost \in SUBSET Runs, [Next]_vars PROVE lost' \in SUBSET Runs
    BY DEF LostAreRuns
  <2>1. ASSUME NEW r \in Runs, JobStep(r) PROVE lost' \in SUBSET Runs
    BY <2>1 DEF JobStep, Launch, Begin, CountCall, UseAnswer, Fail, WriteFails, FailLost,
         ModelAnswers, Finish, JobOnly, RowsOnly
  <2>2. CASE RequestStep
    BY <2>2 DEF RequestStep, Retire, AnswerRun, CancelRun, CreateRun, CreateRefused
  <2>3. CASE Close \/ Crash \/ Start
    BY <2>3 DEF Close, Crash, Start
  <2>4. ASSUME UNCHANGED runVars PROVE lost' \in SUBSET Runs
    BY <2>4 DEF runVars
  <2>5. CASE Next
    <3>1. \/ UNCHANGED runVars \/ RequestStep \/ (\E r \in Runs : JobStep(r))
          \/ (Close \/ Crash \/ Start)
      BY <2>5, Zenon DEF Next
    <3>2. QED
      BY <2>1, <2>2, <2>3, <2>4, <3>1, Zenon
  <2>6. CASE UNCHANGED vars
    <3>1. UNCHANGED runVars
      BY <2>6 DEF vars
    <3>2. QED
      BY <2>4, <3>1
  <2>7. QED
    BY <2>5, <2>6
<1>3. QED
  BY <1>1, <1>2, PTL DEF Spec

(* Rows and jobs have their types, and every proposal has the run and the  *)
(* snapshot it was made from, also while histories are cleared under the   *)
(* jobs.                                                                   *)
THEOREM PlanningTyped == Spec => []TypeOK
<1>1. PlanningInv /\ LostAreRuns => TypeOK
  <2> SUFFICES ASSUME PlanningInv, LostAreRuns PROVE TypeOK
    OBVIOUS
  <2>1. \A p \in ProposalIds : prop[p] # NoRow => run[p[1]] # NoRow /\ snap[p[1]] # NoRow
    <3>1. \A p \in ProposalIds : p[1] \in Runs
      BY DEF ProposalIds
    <3>2. QED
      BY <3>1 DEF PlanningInv, RunsInv, RowsRefer
  <2>2. QED
    BY <2>1, InvParts DEF TypeOK, LostAreRuns, InputsTyped, LedgerTyped, RowsTyped, JobsTyped
<1>2. QED
  BY <1>1, PlanningInvariant, LostTyped, PTL

LEMMA AtMostOne ==
  ASSUME NEW S, \A x, y \in S : x = y
  PROVE  Cardinality(S) \in {0, 1} /\ (S # {} => Cardinality(S) = 1)
<1>1. CASE S = {}
  BY <1>1, FS_EmptySet
<1>2. CASE S # {}
  <2>1. PICK x : x \in S
    BY <1>2
  <2>2. S = {x}
    BY <2>1
  <2>3. QED
    BY <1>2, <2>2, FS_Singleton
<1>3. QED
  BY <1>1, <1>2

(* There is one current plan, an active run or a proposal that waits: no   *)
(* retry, clarification, late answer, crash or restart makes a second one. *)
THEOREM OnePlanAtATime == Spec => []OneCurrentPlan
<1>1. PlanningInv => OneCurrentPlan
  <2> SUFFICES ASSUME PlanningInv PROVE OneCurrentPlan
    OBVIOUS
  <2> DEFINE running == {r \in Runs : Active(r)}
  <2>1. /\ \A r, s \in running : r = s
        /\ \A p, q \in ReadyProposals : p = q
        /\ running # {} => ReadyProposals = {}
    BY DEF PlanningInv, RunsInv, OnePlan
  <2> HIDE DEF running
  <2>2. /\ Cardinality(running) \in {0, 1} /\ Cardinality(ReadyProposals) \in {0, 1}
    BY <2>1, AtMostOne
  <2>3. Cardinality(running) = 0 \/ Cardinality(ReadyProposals) = 0
    BY <2>1, FS_EmptySet
  <2>4. Cardinality(running) + Cardinality(ReadyProposals) <= 1
    BY <2>2, <2>3
  <2>5. QED
    BY <2>4 DEF OneCurrentPlan, running
<1>2. QED
  BY <1>1, PlanningInvariant, PTL

(* A run asks the model at most three times, through its clarification,    *)
(* its repairs and restarts, and also after its row was deleted.           *)
THEOREM CallsBounded == Spec => []CallCap
<1>1. PlanningInv => CallCap
  <2> SUFFICES ASSUME PlanningInv, NEW r \in Runs PROVE asked[r] <= 3
    BY DEF CallCap
  <2>1. asked[r] \in 0..3
    BY RowFacts
  <2>2. QED
    BY <2>1
<1>2. QED
  BY <1>1, PlanningInvariant, PTL

(* An operation identifier is carried out once, also when the history with *)
(* its receipt was cleared before the client asked again.                  *)
THEOREM CarriedOutOnce == Spec => []ExecutedOnce
<1>1. PlanningInv => ExecutedOnce
  <2> SUFFICES ASSUME PlanningInv, NEW o \in OpIds PROVE executed[o] <= 1
    BY DEF ExecutedOnce
  <2>1. executed[o] \in {0, 1}
    BY InvParts DEF LedgerTyped
  <2>2. QED
    BY <2>1
<1>2. QED
  BY <1>1, PlanningInvariant, PTL

(* While a process is up no running run is left without a job, except one  *)
(* whose failure this process could not record.                            *)
THEOREM NoRunForgotten == Spec => []RunningHasJob
<1>1. PlanningInv => RunningHasJob
  BY DEF PlanningInv, RunsInv, Launched, RunningHasJob
<1>2. QED
  BY <1>1, PlanningInvariant, PTL

(* A run that ended keeps its outcome until the history is cleared.        *)
THEOREM OutcomeKept == Spec => EndedRunStays
<1>1. PlanningInv /\ [Next]_vars =>
        [\A r \in Runs : run[r] # NoRow /\ ~Active(r) => run'[r] \in {run[r], NoRow}]_vars
  BY StepGood DEF GoodStep, EndedKept
<1>2. QED
  BY <1>1, PlanningInvariant, PTL DEF Spec, EndedRunStays

(* A proposal is taken only if nothing it was made from changed since: its *)
(* versions tell, as long as its snapshot exists.                          *)
THEOREM TakenAsPlanned == Spec => AppliedUntouched
<1>1. PlanningInv /\ [Next]_vars =>
        [\A p \in ProposalIds :
           prop[p] # NoRow /\ prop[p].life = "ready" /\ prop'[p] # NoRow
             /\ prop'[p].life = "applied" => p[1] \notin touched]_vars
  BY StepGood DEF GoodStep, AppliedKept
<1>2. QED
  BY <1>1, PlanningInvariant, PTL DEF Spec, AppliedUntouched

(* An operation is taken back only while the planner did not change, and   *)
(* gives back the focus it had replaced.                                   *)
THEOREM TakenBack == Spec => RevertedUntouched
<1>1. PlanningInv /\ [Next]_vars =>
        [\A o \in OpIds : executed'[o] > executed[o] /\ ledger'[o].action = "revert" =>
           \E target \in OpIds \ moved :
             /\ ledger[target].action = "apply"
             /\ focus'[Date] = ledger[target].before]_vars
  BY StepGood DEF GoodStep, RevertedKept
<1>2. QED
  BY <1>1, PlanningInvariant, PTL DEF Spec, RevertedUntouched
=============================================================================
