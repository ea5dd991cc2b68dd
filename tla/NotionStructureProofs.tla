------------------------- MODULE NotionStructureProofs -------------------------
(***************************************************************************)
(* What holds of the structure of a workspace for any number of tables,    *)
(* relations, credentials and restores: an active connection stands on a   *)
(* structure that was read with its own credential, and no object is made  *)
(* twice.                                                                  *)
(***************************************************************************)
EXTENDS NotionStructure, FiniteSetTheorems, WellFoundedInduction, TLAPS

----------------------------------------------------------------------------
(* The inductive invariant. *)

StepRow == [status : {"none", "attempted", "needs_review", "confirmed"},
            try : Nat, wait : BOOLEAN, read : Nat]
StepRows == [Step -> StepRow]
Connection == [status : {"none", "paused", "active", "disconnected"} \cup Quarantined,
               revision : Nat]

Entered == [phase : {"entered"}, revision : Nat, review : BOOLEAN, step : Step, try : Nat]
Working == [phase : {"attempted", "creating", "reading", "read", "failed"},
            revision : Nat, step : Step, try : Nat]
Reviewing == [phase : {"reviewing", "matching"}, revision : Nat, connection : Connection,
              steps : StepRows, epoch : Nat]
Rebound == [phase : {"rebound"}, revision : Nat]

StructureTypeOK ==
  /\ lease \in Nat /\ issued \in Nat /\ epoch \in Nat /\ changed \in BOOLEAN
  /\ connection \in Connection /\ steps \in StepRows
  /\ call \in {Idle} \cup Entered \cup Working \cup Reviewing \cup Rebound
  /\ tries \in [Step -> Nat] /\ objects \in [Step -> Nat] /\ made \in [Step -> Nat]
  /\ saved \in [connection : Connection, steps : StepRows]
  /\ blank \in Nat

(* A step without an attempt has an empty row. *)
Blank(s) == \A i \in Step : s[i].status = "none" => s[i] = NoStep

(* Confirmed steps are bound to the credential of their connection, also   *)
(* in a backup.                                                            *)
BoundReads ==
  /\ connection.status = "none" => steps = NoSteps
  /\ \A i \in Step :
       /\ steps[i].status = "confirmed" => steps[i].read = connection.revision
       /\ saved.steps[i].status = "confirmed" => saved.steps[i].read = saved.connection.revision
  /\ connection.status \in {"active", "paused_unknown"} => Ready(steps)

(* The call in progress looked before it creates, and reviewed before it   *)
(* rebinds.                                                                *)
CallChecked ==
  /\ call.phase = "matching" => ReviewSteps(call.steps) \subseteq Confirmed(call.steps)
  /\ call.phase = "creating" /\ call.step # Root => objects[call.step] = 0

(* A restore under a call may leave a step recorded above a root that is   *)
(* not.  Such a structure stays fenced, and a backup knows it only while   *)
(* it is there.                                                            *)
Rootless(s) == s[Root].status = "none" /\ \E i \in Step : s[i].status # "none"
RootlessFenced ==
  /\ Rootless(steps) => connection.status \in {"paused_after_restore", "disconnected"}
  /\ Rootless(steps) => ~(call.phase = "entered" /\ call.step = Root)
  /\ call.phase = "entered" /\ call.step # Root /\ steps[Root].status = "none" =>
       connection.status \in {"none", "paused_after_restore", "disconnected"}
  /\ Rootless(saved.steps) => Rootless(steps)

(* A root page, made or about to be made, has a recorded step, or its      *)
(* record was lost to a restore.                                           *)
RootDue == IF call.phase \in {"attempted", "creating"} THEN IF call.step = Root THEN 1 ELSE 0
           ELSE 0
RootRecorded ==
  made[Root] + RootDue <= blank + (IF steps[Root].status = "none" THEN 0 ELSE 1)

MadeOnce == \A i \in Step : objects[i] = made[i] /\ (i # Root => made[i] <= 1)

StructureInv ==
  /\ StructureTypeOK
  /\ Blank(steps) /\ Blank(saved.steps)
  /\ BoundReads /\ CallChecked
  /\ RootlessFenced /\ RootRecorded /\ MadeOnce

----------------------------------------------------------------------------
(* Steps and prefixes of them. *)

LEMMA StepFacts ==
  /\ Step \subseteq Nat /\ Root \in Step
  /\ IsFiniteSet(Step) /\ Cardinality(Step) = 1 + Tables + Relations
<1>1. 1 + Tables + Relations \in Nat /\ 1 + Tables + Relations >= 1
  BY StructureAssumption
<1>2. IsFiniteSet(Step) /\ Cardinality(Step) = 1 + Tables + Relations
  BY <1>1, FS_Interval DEF Step
<1>3. QED
  BY <1>1, <1>2 DEF Step, Root

(* A set of numbers that is not empty has a least one: 1..n is least among *)
(* the finite sets 1..m for the numbers m of the set.                      *)
LEMMA LeastNumber ==
  ASSUME NEW S \in SUBSET Nat, S # {}
  PROVE  \E n \in S : \A m \in S : n <= m
<1> DEFINE T == {1..n : n \in S}
<1>1. T \subseteq FiniteSubsetsOf(Nat) /\ T # {}
  <2>1. ASSUME NEW n \in S PROVE (1..n) \subseteq Nat /\ IsFiniteSet(1..n)
    BY FS_Interval
  <2>2. QED
    BY <2>1 DEF FiniteSubsetsOf
<1>2. PICK x \in T : \A y \in T : <<y, x>> \notin StrictSubsetOrdering(Nat)
  <2> HIDE DEF T
  <2>1. IsWellFoundedOn(StrictSubsetOrdering(Nat), FiniteSubsetsOf(Nat))
    BY FS_StrictSubsetOrderingWellFounded
  <2>2. QED
    BY <1>1, <2>1, WFMin
<1>3. PICK n \in S : x = 1..n
  BY <1>2
<1>4. ASSUME NEW m \in S, m < n PROVE FALSE
  <2>1. 1..m \in T /\ (1..m) \subseteq Nat /\ x \subseteq Nat
    BY <1>3
  <2>2. (1..m) \subseteq x /\ 1..m # x
    BY <1>3, <1>4
  <2>3. QED
    BY <1>2, <2>1, <2>2 DEF StrictSubsetOrdering
<1>5. QED
  BY <1>4

LEMMA NextStepIsStep ==
  ASSUME steps \in StepRows, ~Ready(steps)
  PROVE  NextStep \in Step
<1>1. Step \ Confirmed(steps) \in SUBSET Nat /\ Step \ Confirmed(steps) # {}
  BY StepFacts DEF Ready, Confirmed
<1>2. \E i \in Step \ Confirmed(steps) : \A j \in Step \ Confirmed(steps) : i <= j
  BY <1>1, LeastNumber
<1>3. QED
  BY <1>2 DEF NextStep

(* The root comes first. *)
LEMMA NextStepAboveRoot ==
  ASSUME steps \in StepRows, ~Ready(steps), NextStep # Root
  PROVE  steps[Root].status # "none"
<1>1. Step \ Confirmed(steps) \in SUBSET Nat /\ Step \ Confirmed(steps) # {}
  BY StepFacts DEF Ready, Confirmed
<1>2. \E i \in Step \ Confirmed(steps) : \A j \in Step \ Confirmed(steps) : i <= j
  BY <1>1, LeastNumber
<1>3. NextStep \in Step /\ \A j \in Step \ Confirmed(steps) : NextStep <= j
  BY <1>2 DEF NextStep
<1>4. ~(NextStep <= Root)
  BY <1>3, StepFacts DEF Step, Root
<1>5. Root \in Confirmed(steps)
  BY <1>3, <1>4, StepFacts
<1>6. QED
  BY <1>5 DEF Confirmed

(* The confirmed steps from the root on, and the first step that is not. *)
Prefix(s, n) ==
  /\ n \in 0..Cardinality(Step)
  /\ (1..n) \subseteq Confirmed(s) /\ n + 1 \notin Confirmed(s)
PrefixOf(s) == CHOOSE n \in 0..Cardinality(Step) :
                 (1..n) \subseteq Confirmed(s) /\ n + 1 \notin Confirmed(s)

LEMMA PrefixExists ==
  ASSUME NEW s \in StepRows
  PROVE  Prefix(s, PrefixOf(s))
<1> DEFINE N == 1 + Tables + Relations
           T == (1..(N + 1)) \ Confirmed(s)
<1>1. N \in Nat /\ Cardinality(Step) = N /\ Step = 1..N
  BY StepFacts, StructureAssumption DEF Step
<1>2. Confirmed(s) \subseteq 1..N
  BY <1>1 DEF Confirmed
<1>3. T \in SUBSET Nat /\ N + 1 \in T
  BY <1>1, <1>2
<1>4. PICK k \in T : \A m \in T : k <= m
  BY <1>3, LeastNumber
<1>5. k - 1 \in 0..N /\ (1..(k - 1)) \subseteq Confirmed(s) /\ (k - 1) + 1 \notin Confirmed(s)
  BY <1>1, <1>4
<1>6. \E n \in 0..N : (1..n) \subseteq Confirmed(s) /\ n + 1 \notin Confirmed(s)
  BY <1>5
<1>7. QED
  BY <1>1, <1>6 DEF Prefix, PrefixOf

LEMMA ReviewStepsAre ==
  ASSUME NEW s \in StepRows
  PROVE  ReviewSteps(s) = IF \A i \in Step : i > PrefixOf(s) + 1 => s[i].status = "none"
                          THEN 1..PrefixOf(s) ELSE Step
  BY DEF ReviewSteps, PrefixOf

(* A review reads every confirmed step. *)
LEMMA ReviewCovers ==
  ASSUME NEW s \in StepRows
  PROVE  Confirmed(s) \subseteq ReviewSteps(s)
<1>1. SUFFICES ASSUME NEW i \in Confirmed(s) PROVE i \in ReviewSteps(s)
  OBVIOUS
<1>2. i \in Step /\ s[i].status = "confirmed" /\ i \in Nat /\ i >= 1
  BY <1>1 DEF Confirmed, Step
<1>3. PrefixOf(s) \in Nat /\ i # PrefixOf(s) + 1
  BY <1>1, PrefixExists, StepFacts, StructureAssumption DEF Prefix
<1>4. QED
  BY <1>2, <1>3, ReviewStepsAre

(* A structure without its root cannot be reviewed. *)
LEMMA RootlessUnreviewable ==
  ASSUME NEW s \in StepRows, Rootless(s)
  PROVE  ~(ReviewSteps(s) \subseteq Confirmed(s))
<1>1. Root \in Step /\ Root \notin Confirmed(s) /\ Root = 1
  BY StepFacts DEF Rootless, Confirmed, Root
<1>2. PrefixOf(s) = 0
  BY <1>1, PrefixExists, StepFacts, StructureAssumption DEF Prefix
<1>3. PICK i \in Step : s[i].status # "none"
  BY DEF Rootless
<1>4. i > 1
  BY <1>1, <1>3 DEF Rootless, Step
<1>5. ReviewSteps(s) = Step
  BY <1>2, <1>3, <1>4, ReviewStepsAre
<1>6. QED
  BY <1>1, <1>5

----------------------------------------------------------------------------
(* What the phase of a call tells of its record. *)

LEMMA CallFacts ==
  ASSUME StructureTypeOK
  PROVE  /\ call = Idle => call.phase = "idle"
         /\ call.phase = "entered" => call \in Entered
         /\ call.phase \in {"attempted", "creating", "reading", "read", "failed"} =>
              call \in Working
         /\ call.phase \in {"reviewing", "matching"} => call \in Reviewing
         /\ call.phase = "rebound" => call \in Rebound
<1>1. CASE call = Idle
  BY <1>1 DEF Idle
<1>2. CASE call \in Entered
  BY <1>2 DEF Entered, Idle
<1>3. CASE call \in Working
  BY <1>3 DEF Working, Idle
<1>4. CASE call \in Reviewing
  BY <1>4 DEF Reviewing, Idle
<1>5. CASE call \in Rebound
  BY <1>5 DEF Rebound, Idle
<1>6. QED
  BY <1>1, <1>2, <1>3, <1>4, <1>5 DEF StructureTypeOK

LEMMA Start == WorkspaceInit => StructureInv
<1> SUFFICES ASSUME WorkspaceInit PROVE StructureInv
  OBVIOUS
<1>1. NoStep \in StepRow /\ NoConnection \in Connection
  BY DEF NoStep, StepRow, NoConnection, Connection
<1>2. StructureTypeOK
  BY <1>1 DEF WorkspaceInit, LeaseInit, StructureInit, StructureTypeOK, NoSteps, StepRows
<1>3. Blank(steps) /\ Blank(saved.steps)
  BY DEF WorkspaceInit, StructureInit, Blank, NoSteps
<1>4. BoundReads
  BY DEF WorkspaceInit, StructureInit, BoundReads, NoConnection, NoSteps, NoStep
<1>5. CallChecked
  BY DEF WorkspaceInit, StructureInit, CallChecked, Idle
<1>6. RootlessFenced
  BY DEF WorkspaceInit, StructureInit, RootlessFenced, Rootless, NoSteps, NoStep, Idle
<1>7. RootRecorded
  BY StepFacts DEF WorkspaceInit, StructureInit, RootRecorded, RootDue, Idle, NoSteps, NoStep
<1>8. MadeOnce
  BY DEF WorkspaceInit, StructureInit, MadeOnce
<1>9. QED
  BY <1>2, <1>3, <1>4, <1>5, <1>6, <1>7, <1>8 DEF StructureInv

(* The connection is fenced, kept, or taken up where nothing was made. *)
LEMMA ConnectionMoves ==
  ASSUME StructureInv,
         connection' \in Connection, changed' \in BOOLEAN, lease' \in Nat, issued' \in Nat,
         \/ connection' = connection
         \/ connection' = Disconnected(connection) /\ connection.status # "none"
         \/ connection'.status = "paused" /\ steps = NoSteps /\ call = Idle
         \/ /\ connection.status # "none" /\ Ready(steps)
            /\ connection' = [connection EXCEPT !.status = "paused_unknown"]
         \/ /\ connection.status = "paused_unknown"
            /\ connection' = [connection EXCEPT !.status = "active"],
         \/ call' = call
         \/ call' = Idle
         \/ /\ call' \in Entered
            /\ IF call'.step = Root THEN ~Rootless(steps) ELSE steps[Root].status # "none",
         UNCHANGED <<steps, epoch, tries, objects, made, saved, blank>>
  PROVE  StructureInv'
<1>1. StructureTypeOK'
  BY DEF StructureInv, StructureTypeOK
<1>2. call'.phase \notin {"matching", "attempted", "creating"} \/ call' = call
  BY DEF Idle, Entered
<1>3. BoundReads'
  <2>1. steps = NoSteps => \A i \in Step : steps[i].status = "none"
    BY DEF NoSteps, NoStep
  <2>2. CASE connection' = connection
    BY <2>2 DEF StructureInv, BoundReads, Ready, Confirmed
  <2>3. CASE connection' = Disconnected(connection) /\ connection.status # "none"
    <3>1. connection'.status = "disconnected" /\ connection'.revision = connection.revision
      BY <2>3 DEF StructureInv, StructureTypeOK, Connection, Disconnected
    <3>2. QED
      BY <3>1 DEF StructureInv, BoundReads
  <2>4. CASE connection'.status = "paused" /\ steps = NoSteps /\ call = Idle
    BY <2>1, <2>4 DEF StructureInv, BoundReads
  <2>5. CASE \/ /\ connection.status # "none" /\ Ready(steps)
                /\ connection' = [connection EXCEPT !.status = "paused_unknown"]
             \/ /\ connection.status = "paused_unknown"
                /\ connection' = [connection EXCEPT !.status = "active"]
    <3>1. connection'.status \in {"active", "paused_unknown"}
          /\ connection'.revision = connection.revision
      BY <2>5 DEF StructureInv, StructureTypeOK, Connection
    <3>2. QED
      BY <2>5, <3>1 DEF StructureInv, BoundReads, Ready, Confirmed
  <2>6. QED
    BY <2>2, <2>3, <2>4, <2>5
<1>4. CallChecked'
  <2>1. CASE call' = call
    BY <2>1 DEF StructureInv, CallChecked, ReviewSteps, Confirmed
  <2>2. CASE call'.phase \notin {"matching", "attempted", "creating"}
    BY <2>2 DEF CallChecked
  <2>3. QED
    BY <1>2, <2>1, <2>2
<1>5. RootlessFenced'
  <2>1. connection' = Disconnected(connection) => connection'.status = "disconnected"
    BY DEF StructureInv, StructureTypeOK, Connection, Disconnected
  <2>2. Ready(steps) => steps[Root].status = "confirmed" /\ ~Rootless(steps)
    BY StepFacts DEF Ready, Confirmed, Rootless
  <2>3. connection.status = "paused_unknown" => Ready(steps)
    BY DEF StructureInv, BoundReads
  <2>4. Rootless(steps)' => connection'.status \in {"paused_after_restore", "disconnected"}
    <3>1. steps = NoSteps => ~Rootless(steps)
      BY StepFacts DEF Rootless, NoSteps, NoStep
    <3>2. Rootless(steps) => connection.status \in {"paused_after_restore", "disconnected"}
      BY DEF StructureInv, RootlessFenced
    <3>3. Rootless(steps)' => Rootless(steps)
      BY DEF Rootless
    <3>4. QED
      BY <2>1, <2>2, <2>3, <3>1, <3>2, <3>3
  <2>5. Rootless(steps)' => ~(call'.phase = "entered" /\ call'.step = Root)
    BY DEF StructureInv, RootlessFenced, Rootless, Idle
  <2>6. call'.phase = "entered" /\ call'.step # Root /\ steps[Root].status = "none" =>
          connection'.status \in {"none", "paused_after_restore", "disconnected"}
    BY <2>1, <2>2, <2>3 DEF StructureInv, RootlessFenced, Idle
  <2>7. QED
    BY <2>4, <2>5, <2>6 DEF StructureInv, RootlessFenced, Rootless
<1>6. RootRecorded'
  <2>1. RootDue' \in {0, RootDue} /\ RootDue \in {0, 1}
    BY <1>2 DEF RootDue
  <2>2. made[Root] \in Nat /\ blank \in Nat
    BY StepFacts DEF StructureInv, StructureTypeOK
  <2>3. QED
    BY <2>1, <2>2 DEF StructureInv, RootRecorded
<1>7. QED
  BY <1>1, <1>3, <1>4, <1>5, <1>6 DEF StructureInv, Blank, MadeOnce

LEMMA LeaseMoves ==
  ASSUME StructureInv, GrantLease \/ WithdrawLease
  PROVE  StructureInv'
<1>1. lease \in Nat /\ issued \in Nat /\ connection \in Connection
  BY DEF StructureInv, StructureTypeOK
<1>2. changed \in BOOLEAN
  BY DEF StructureInv, StructureTypeOK
<1>3. UNCHANGED <<connection, call, steps, epoch, tries, objects, made, saved, blank>>
  BY DEF GrantLease, WithdrawLease, structureVars, rows
<1>4. lease' \in Nat /\ issued' \in Nat
  BY <1>1 DEF GrantLease, WithdrawLease, Grant, Withdraw
<1>5. changed' \in BOOLEAN
  BY <1>2 DEF GrantLease, WithdrawLease, structureVars
<1>6. QED
  BY <1>1, <1>3, <1>4, <1>5, ConnectionMoves

LEMMA EnterMoves ==
  ASSUME StructureInv, NEW review \in BOOLEAN, NEW i \in Step, NEW k \in Nat,
         Enter(review, i, k), review \/ i = NextStep
  PROVE  StructureInv'
<1>1. lease \in Nat /\ issued \in Nat /\ connection \in Connection /\ changed \in BOOLEAN
  BY DEF StructureInv, StructureTypeOK
<1>2. UNCHANGED <<lease, issued, changed, steps, epoch, tries, objects, made, saved, blank>>
  BY DEF Enter, leaseVars
<1>3. CASE Mismatched(connection) /\ connection.revision # lease
  <2>1. connection' = Disconnected(connection) /\ UNCHANGED call
    BY <1>3 DEF Enter
  <2>2. connection' \in Connection /\ connection'.status = "disconnected"
    BY <1>1, <2>1 DEF Disconnected, Connection
  <2>3. connection.status # "none"
    BY <1>3 DEF Mismatched
  <2>4. QED
    BY <1>1, <1>2, <2>1, <2>2, <2>3, ConnectionMoves
<1>4. CASE ~(Mismatched(connection) /\ connection.revision # lease)
  <2>1. /\ MayAdvance(review, lease) /\ connection' = Bound(lease)
        /\ call' = [phase |-> "entered", revision |-> lease,
                    review |-> review, step |-> i, try |-> k]
    BY <1>4 DEF Enter
  <2>2. /\ connection' \in Connection
        /\ \/ connection' = connection
           \/ connection'.status = "paused" /\ steps = NoSteps
    <3>1. CASE connection.status \in {"none", "disconnected"}
      <4>1. connection' = [status |-> "paused", revision |-> lease]
        BY <2>1, <3>1 DEF Bound
      <4>2. steps = NoSteps
        BY <2>1, <3>1 DEF MayAdvance, StructureInv, BoundReads
      <4>3. QED
        BY <1>1, <4>1, <4>2 DEF Connection
    <3>2. CASE connection.status \notin {"none", "disconnected"}
      BY <1>1, <2>1, <3>2 DEF Bound
    <3>3. QED
      BY <3>1, <3>2
  <2>3. call' \in Entered
    BY <1>1, <2>1 DEF Entered
  <2>4. ~Rootless(steps)
    <3>1. steps = NoSteps => ~Rootless(steps)
      BY StepFacts DEF Rootless, NoSteps, NoStep
    <3>2. Rootless(steps) => connection.status \in {"paused_after_restore", "disconnected"}
      BY DEF StructureInv, RootlessFenced
    <3>3. QED
      BY <2>1, <3>1, <3>2 DEF MayAdvance, Quarantined
  <2>5. call = Idle /\ call'.step = i /\ i = NextStep /\ ~Ready(steps)
    BY <1>4, <2>1 DEF Enter
  <2>6. i # Root => steps[Root].status # "none"
    BY <2>5, NextStepAboveRoot DEF StructureInv, StructureTypeOK
  <2>7. QED
    BY <1>1, <1>2, <2>2, <2>3, <2>4, <2>5, <2>6, ConnectionMoves
<1>5. QED
  BY <1>3, <1>4

LEMMA AdvanceMoves ==
  ASSUME StructureInv, Advance \/ \E i \in Step, k \in 1..2 : Reconcile(i, k)
  PROVE  StructureInv'
<1>1. CASE Advance
  <2>1. Enter(FALSE, NextStep, 0) /\ NextStep \in Step
    BY <1>1, NextStepIsStep DEF Advance, StructureInv, StructureTypeOK
  <2>2. QED
    BY <2>1, EnterMoves
<1>2. ASSUME NEW i \in Step, NEW k \in 1..2, Reconcile(i, k) PROVE StructureInv'
  <2>1. Enter(TRUE, i, k)
    BY <1>2 DEF Reconcile
  <2>2. k \in Nat
    OBVIOUS
  <2>3. QED
    BY <2>1, <2>2, EnterMoves
<1>3. QED
  BY <1>1, <1>2

LEMMA FenceMoves ==
  ASSUME StructureInv,
         MarkCredentialChanged \/ Disconnect \/ RestartStructure \/ CheckRebound
  PROVE  StructureInv'
<1>1. lease \in Nat /\ issued \in Nat /\ connection \in Connection /\ changed \in BOOLEAN
  BY DEF StructureInv, StructureTypeOK
<1>2. Disconnected(connection) \in Connection
      /\ Disconnected(connection).status = "disconnected"
  BY <1>1 DEF Disconnected, Connection
<1>3. UNCHANGED <<steps, epoch, tries, objects, made, saved, blank>>
  BY DEF MarkCredentialChanged, Disconnect, RestartStructure, CheckRebound
<1>4. lease' \in Nat /\ issued' \in Nat
  BY <1>1 DEF MarkCredentialChanged, Disconnect, RestartStructure, CheckRebound, Withdraw,
              leaseVars
<1>5. changed' \in BOOLEAN
  BY <1>1 DEF MarkCredentialChanged, Disconnect, RestartStructure, CheckRebound
<1>6. call' = call \/ call' = Idle
  BY DEF MarkCredentialChanged, Disconnect, RestartStructure, CheckRebound, Leave
<1>7. \/ connection' = connection
      \/ connection' = Disconnected(connection) /\ connection.status # "none"
  BY DEF MarkCredentialChanged, Disconnect, RestartStructure, CheckRebound, FenceConnection,
         Mismatched
<1>8. QED
  BY <1>1, <1>2, <1>3, <1>4, <1>5, <1>6, <1>7, ConnectionMoves

LEMMA SendMoves ==
  ASSUME StructureInv, SendUnknown \/ Resume
  PROVE  StructureInv'
<1>1. lease \in Nat /\ issued \in Nat /\ connection \in Connection /\ changed \in BOOLEAN
  BY DEF StructureInv, StructureTypeOK
<1>2. UNCHANGED <<lease, issued, changed, call, steps, epoch, tries, objects, made, saved, blank>>
  BY DEF SendUnknown, Resume, leaseVars
<1>3. \/ /\ connection.status # "none" /\ Ready(steps)
         /\ connection' = [connection EXCEPT !.status = "paused_unknown"]
      \/ /\ connection.status = "paused_unknown"
         /\ connection' = [connection EXCEPT !.status = "active"]
  BY DEF SendUnknown, Resume
<1>4. connection' \in Connection
  BY <1>1, <1>3 DEF Connection, Quarantined
<1>5. QED
  BY <1>1, <1>2, <1>3, <1>4, ConnectionMoves

----------------------------------------------------------------------------
(* Steps of the call that leave every row alone. *)

LEMMA CallMoves ==
  ASSUME StructureInv, call' \in {Idle} \cup Working \cup Reviewing,
         RootDue' <= RootDue, RootDue' \in {0, 1},
         CallChecked',
         UNCHANGED <<lease, issued, changed, connection, steps, epoch, tries, objects, made,
                     saved, blank>>
  PROVE  StructureInv'
<1>1. StructureTypeOK'
  BY DEF StructureInv, StructureTypeOK
<1>2. BoundReads'
  BY DEF StructureInv, BoundReads, Ready, Confirmed
<1>3. RootlessFenced'
  <2>1. call'.phase # "entered"
    BY DEF Idle, Working, Reviewing
  <2>2. QED
    BY <2>1 DEF StructureInv, RootlessFenced, Rootless
<1>4. RootRecorded'
  <2>1. made[Root] \in Nat /\ blank \in Nat /\ RootDue \in {0, 1}
    BY StepFacts DEF StructureInv, StructureTypeOK, RootDue
  <2>2. QED
    BY <2>1 DEF StructureInv, RootRecorded
<1>5. QED
  BY <1>1, <1>2, <1>3, <1>4 DEF StructureInv, Blank, MadeOnce

LEMMA LookMoves ==
  ASSUME StructureInv,
         ReadStep \/ Review \/ EnterReconnect \/ (Look /\ call' # Idle)
  PROVE  StructureInv'
<1>1. UNCHANGED <<lease, issued, changed, connection, steps, epoch, tries, objects, made, saved,
                  blank>>
  BY DEF ReadStep, Review, EnterReconnect, Look, MarkReview, Leave, leaseVars, rows
<1>2. CASE ReadStep \/ (Look /\ call' # Idle)
  <2>1. call \in Working
    BY <1>2, CallFacts DEF ReadStep, Look, StructureInv
  <2>2. \E phase \in {"creating", "reading", "read", "failed"} :
          /\ call' = [call EXCEPT !.phase = phase]
          /\ phase = "creating" =>
               call.phase = "attempted" /\ (call.step = Root \/ objects[call.step] = 0)
    BY <1>2 DEF ReadStep, Look, Found, MarkReview, Leave
  <2>3. call' \in Working /\ call'.step = call.step
    BY <2>1, <2>2 DEF Working
  <2>4. call'.phase = "creating" =>
          call.phase = "attempted" /\ (call.step = Root \/ objects[call.step] = 0)
    BY <2>1, <2>2 DEF Working
  <2>5. call'.phase \in {"creating", "reading", "read", "failed"}
    BY <2>1, <2>2 DEF Working
  <2>6. RootDue' <= RootDue /\ RootDue' \in {0, 1}
    BY <2>3, <2>4, <2>5 DEF RootDue
  <2>7. CallChecked'
    BY <1>1, <2>3, <2>4, <2>5 DEF CallChecked
  <2>8. QED
    BY <1>1, <2>3, <2>6, <2>7, CallMoves
<1>3. CASE Review
  <2>1. call \in Reviewing
    BY <1>3, CallFacts DEF Review, StructureInv
  <2>2. \/ call' = Idle
        \/ /\ call' = [call EXCEPT !.phase = "matching"]
           /\ call.steps = steps /\ ReviewSteps(steps) \subseteq Confirmed(steps)
    BY <1>3 DEF Review, Leave, Unmoved
  <2>3. CASE call' = Idle
    <3>1. RootDue' = 0 /\ RootDue \in {0, 1} /\ CallChecked'
      BY <2>3 DEF RootDue, CallChecked, Idle
    <3>2. QED
      BY <1>1, <2>3, <3>1, CallMoves
  <2>4. CASE /\ call' = [call EXCEPT !.phase = "matching"]
             /\ call.steps = steps /\ ReviewSteps(steps) \subseteq Confirmed(steps)
    <3>1. call' \in Reviewing /\ call'.phase = "matching" /\ call'.steps = steps
      BY <2>1, <2>4 DEF Reviewing
    <3>2. RootDue' = 0 /\ RootDue \in {0, 1}
      BY <3>1 DEF RootDue
    <3>3. CallChecked'
      BY <2>4, <3>1 DEF CallChecked, ReviewSteps, Confirmed
    <3>4. QED
      BY <1>1, <3>1, <3>2, <3>3, CallMoves
  <2>5. QED
    BY <2>2, <2>3, <2>4
<1>4. CASE EnterReconnect
  <2>1. call' = [phase |-> "reviewing", revision |-> lease,
                connection |-> connection, steps |-> steps, epoch |-> epoch]
    BY <1>4 DEF EnterReconnect
  <2>2. call' \in Reviewing
    BY <2>1 DEF Reviewing, StructureInv, StructureTypeOK
  <2>3. RootDue' = 0 /\ RootDue \in {0, 1} /\ CallChecked'
    BY <2>1 DEF RootDue, CallChecked
  <2>4. QED
    BY <1>1, <2>2, <2>3, CallMoves
<1>5. QED
  BY <1>2, <1>3, <1>4

----------------------------------------------------------------------------
(* Steps that write the rows of steps. *)

(* A row is recorded or empty as before: the root is where it was. *)
LEMMA SameRecorded ==
  ASSUME NEW s, NEW t,
         \A i \in Step : (s[i].status = "none") <=> (t[i].status = "none")
  PROVE  Rootless(s) <=> Rootless(t)
  BY StepFacts DEF Rootless

(* The rows change, but none is recorded, confirmed or emptied. *)
LEMMA RowMoves ==
  ASSUME StructureInv, steps' \in StepRows,
         \A i \in Step : \/ steps'[i] = steps[i]
                         \/ /\ steps[i].status # "none"
                            /\ steps'[i].status # "none"
                            /\ steps[i].status = "confirmed" =>
                                 steps'[i].status = "confirmed" /\ steps'[i].read = steps[i].read
                            /\ steps'[i].status = "confirmed" => steps[i].status = "confirmed",
         call' = call \/ call' = Idle,
         UNCHANGED <<lease, issued, changed, connection, epoch, tries, objects, made, saved, blank>>
  PROVE  StructureInv'
<1>1. StructureTypeOK'
  BY DEF StructureInv, StructureTypeOK
<1>2. Blank(steps)' /\ Blank(saved.steps)'
  BY DEF StructureInv, Blank
<1>3. BoundReads'
  <2>1. steps = NoSteps => steps' = steps
    <3>1. ASSUME steps = NoSteps, NEW i \in Step PROVE steps'[i] = steps[i]
      BY <3>1 DEF NoSteps, NoStep
    <3>2. QED
      BY <3>1 DEF StructureInv, StructureTypeOK, StepRows
  <2>2. Ready(steps) => Ready(steps)'
    BY DEF Ready, Confirmed
  <2>3. \A i \in Step : steps'[i].status = "confirmed" =>
          steps[i].status = "confirmed" /\ steps'[i].read = steps[i].read
    OBVIOUS
  <2>4. connection' = connection
    OBVIOUS
  <2>5. QED
    BY <2>1, <2>2, <2>3, <2>4 DEF StructureInv, BoundReads
<1>4. CallChecked'
  <2>1. CASE call' = call
    BY <2>1 DEF StructureInv, CallChecked, ReviewSteps, Confirmed
  <2>2. CASE call' = Idle
    BY <2>2 DEF CallChecked, Idle
  <2>3. QED
    BY <2>1, <2>2
<1>5. RootlessFenced'
  <2>1. Rootless(steps)' <=> Rootless(steps)
    BY StepFacts DEF Rootless
  <2>2. Rootless(saved.steps)' <=> Rootless(saved.steps)
    BY DEF Rootless
  <2>3. ~(call.phase = "entered" /\ call.step = Root) =>
          ~(call'.phase = "entered" /\ call'.step = Root)
    BY DEF Idle
  <2>4. call'.phase = "entered" /\ call'.step # Root /\ steps'[Root].status = "none" =>
          call.phase = "entered" /\ call.step # Root /\ steps[Root].status = "none"
    BY StepFacts DEF Idle
  <2>5. QED
    BY <2>1, <2>2, <2>3, <2>4 DEF StructureInv, RootlessFenced
<1>6. RootRecorded'
  <2>1. RootDue' <= RootDue /\ RootDue \in {0, 1} /\ RootDue' \in {0, 1}
    BY DEF RootDue, Idle
  <2>2. made[Root] \in Nat /\ blank \in Nat
    BY StepFacts DEF StructureInv, StructureTypeOK
  <2>3. steps'[Root].status = "none" <=> steps[Root].status = "none"
    BY StepFacts
  <2>4. QED
    BY <2>1, <2>2, <2>3 DEF StructureInv, RootRecorded
<1>7. QED
  BY <1>1, <1>2, <1>3, <1>4, <1>5, <1>6 DEF StructureInv, MadeOnce

LEMMA MarkReviewMoves ==
  ASSUME StructureInv, NEW wait \in BOOLEAN, call \in Working, MarkReview(wait)
  PROVE  StructureInv'
<1> DEFINE i == call.step
<1>1. i \in Step /\ steps \in StepRows
  BY DEF Working, StructureInv, StructureTypeOK
<1>2. steps' = IF steps[i].status \in {"attempted", "needs_review"} /\ steps[i].try = call.try
               THEN [steps EXCEPT ![i].status = "needs_review", ![i].wait = wait]
               ELSE steps
  BY DEF MarkReview
<1>3. steps[i] \in StepRow
  BY <1>1 DEF StepRows
<1>4. [steps[i] EXCEPT !.status = "needs_review", !.wait = wait] \in StepRow
  BY <1>3 DEF StepRow
<1>5. steps' \in StepRows
  BY <1>1, <1>2, <1>4 DEF StepRows
<1>6. ASSUME NEW j \in Step
      PROVE  \/ steps'[j] = steps[j]
             \/ /\ steps[j].status \in {"attempted", "needs_review"}
                /\ steps'[j].status = "needs_review"
  BY <1>1, <1>2, <1>3 DEF StepRows, StepRow
<1>7. /\ call' = Idle
      /\ UNCHANGED <<lease, issued, changed, connection, epoch, tries, objects, made, saved, blank>>
  BY DEF MarkReview, Leave, leaseVars
<1> HIDE DEF i
<1>8. QED
  BY <1>5, <1>6, <1>7, RowMoves

LEMMA DeadlineMoves ==
  ASSUME StructureInv, NEW i \in Step, DeadlinePasses(i)
  PROVE  StructureInv'
<1>1. steps \in StepRows /\ steps[i] \in StepRow
  BY DEF StructureInv, StructureTypeOK, StepRows
<1>2. steps' = [steps EXCEPT ![i].wait = FALSE] /\ steps[i].wait
  BY DEF DeadlinePasses
<1>3. steps[i].status # "none"
  BY <1>2 DEF StructureInv, Blank, NoStep
<1>4. [steps[i] EXCEPT !.wait = FALSE] \in StepRow
  BY <1>1 DEF StepRow
<1>5. steps' \in StepRows
  BY <1>1, <1>2, <1>4 DEF StepRows
<1>6. steps'[i].status = steps[i].status /\ steps'[i].read = steps[i].read
  BY <1>1, <1>2 DEF StepRows, StepRow
<1>7. \A j \in Step : j # i => steps'[j] = steps[j]
  BY <1>1, <1>2 DEF StepRows
<1>8. UNCHANGED <<lease, issued, changed, connection, epoch, call, tries, objects, made, saved,
                  blank>>
  BY DEF DeadlinePasses, leaseVars
<1>9. QED
  BY <1>3, <1>5, <1>6, <1>7, <1>8, RowMoves

LEMMA NewAttempt ==
  ASSUME NEW k \in Nat
  PROVE  /\ [NoStep EXCEPT !.status = "attempted", !.try = k] \in StepRow
         /\ [NoStep EXCEPT !.status = "attempted", !.try = k].status = "attempted"
  BY DEF NoStep, StepRow

(* An attempt is recorded where none is, or one that is there is read. *)
LEMMA RecordMoves ==
  ASSUME StructureInv, RecordAttempt
  PROVE  StructureInv'
<1> DEFINE i == call.step
<1>1. call \in Entered /\ i \in Step /\ i \in Nat
  BY CallFacts, StepFacts DEF RecordAttempt, StructureInv, Entered
<1>2. /\ steps \in StepRows /\ steps[i] \in StepRow /\ tries \in [Step -> Nat]
      /\ call.revision \in Nat /\ tries[i] \in Nat /\ call.phase = "entered"
  BY <1>1 DEF StructureInv, StructureTypeOK, StepRows, Entered
<1>3. UNCHANGED <<lease, issued, changed, connection, epoch, objects, made, saved, blank>>
  BY DEF RecordAttempt, leaseVars
<1>4. RootDue = 0
  BY <1>2 DEF RootDue
<1>5. CASE ~Recordable
  <2>1. call' = Idle /\ UNCHANGED <<steps, tries>>
    BY <1>5 DEF RecordAttempt, Leave
  <2>2. RootDue' = 0 /\ CallChecked'
    BY <2>1 DEF RootDue, CallChecked, Idle
  <2>3. QED
    BY <1>3, <1>4, <2>1, <2>2, CallMoves
<1>6. CASE Recordable /\ steps[i].status # "none"
  <2>1. /\ UNCHANGED <<steps, tries>>
        /\ call' = [phase |-> "reading", revision |-> call.revision, step |-> i,
                    try |-> steps[i].try]
    BY <1>2, <1>6 DEF RecordAttempt
  <2>2. call' \in Working
    BY <1>1, <1>2, <2>1 DEF Working, StepRow
  <2>3. RootDue' = 0 /\ CallChecked'
    BY <2>1 DEF RootDue, CallChecked
  <2>4. QED
    BY <1>3, <1>4, <2>1, <2>2, <2>3, CallMoves
<1>7. CASE Recordable /\ steps[i].status = "none"
  <2> DEFINE row == [NoStep EXCEPT !.status = "attempted", !.try = tries[i] + 1]
  <2>1. /\ steps' = [steps EXCEPT ![i] = row]
        /\ tries' = [tries EXCEPT ![i] = tries[i] + 1]
        /\ call' = [phase |-> "attempted", revision |-> call.revision, step |-> i,
                    try |-> tries[i] + 1]
    BY <1>2, <1>7 DEF RecordAttempt
  <2>2. row \in StepRow /\ row.status = "attempted"
    <3>1. tries[i] + 1 \in Nat
      BY <1>2
    <3>2. QED
      BY <3>1, NewAttempt
  <2>3. call' \in Working /\ call'.phase = "attempted" /\ call'.step = i
    BY <1>1, <1>2, <2>1 DEF Working
  <2> HIDE DEF row, i
  <2>4. steps' \in StepRows /\ tries' \in [Step -> Nat]
    BY <1>1, <1>2, <2>1, <2>2 DEF StepRows
  <2>5. /\ steps'[i].status = "attempted"
        /\ \A j \in Step : j # i => steps'[j] = steps[j]
    BY <1>1, <1>2, <2>1, <2>2 DEF StepRows
  <2>6. connection.status # "none" /\ steps[i].status = "none"
    BY <1>7 DEF Recordable
  <2>7. StructureTypeOK'
    BY <1>3, <2>3, <2>4 DEF StructureInv, StructureTypeOK
  <2>8. Blank(steps)' /\ Blank(saved.steps)'
    BY <1>3, <2>5 DEF StructureInv, Blank
  <2>9. BoundReads'
    <3>1. ~Ready(steps)
      BY <1>1, <2>6 DEF Ready, Confirmed
    <3>2. QED
      BY <1>3, <2>5, <2>6, <3>1 DEF StructureInv, BoundReads
  <2>10. CallChecked'
    BY <2>3 DEF CallChecked
  <2>11. RootlessFenced'
    <3>1. CASE i = Root
      <4>1. ~Rootless(steps)' /\ ~Rootless(steps)
        BY <1>2, <2>5, <3>1 DEF StructureInv, RootlessFenced, Rootless, i
      <4>2. QED
        BY <1>3, <2>3, <4>1 DEF StructureInv, RootlessFenced, Rootless
    <3>2. CASE i # Root
      <4>1. steps'[Root] = steps[Root]
        BY <2>5, <3>2, StepFacts
      <4>2. steps[Root].status = "none" =>
              connection.status \in {"paused_after_restore", "disconnected"}
        BY <1>2, <2>6, <3>2 DEF StructureInv, RootlessFenced, i
      <4>3. Rootless(steps) => Rootless(steps)'
        BY <2>5, <4>1 DEF Rootless
      <4>4. Rootless(saved.steps)' => Rootless(steps)'
        BY <1>3, <4>3 DEF StructureInv, RootlessFenced, Rootless
      <4>5. QED
        BY <1>3, <2>3, <4>1, <4>2, <4>4 DEF RootlessFenced, Rootless
    <3>3. QED
      BY <3>1, <3>2
  <2>12. RootRecorded'
    <3>1. made[Root] \in Nat /\ blank \in Nat
      BY StepFacts DEF StructureInv, StructureTypeOK
    <3>2. CASE i = Root
      BY <1>3, <1>4, <2>3, <2>5, <2>6, <3>1, <3>2 DEF StructureInv, RootRecorded, RootDue
    <3>3. CASE i # Root
      BY <1>3, <1>4, <2>3, <2>5, <3>1, <3>3, StepFacts DEF StructureInv, RootRecorded, RootDue
    <3>4. QED
      BY <3>2, <3>3
  <2>13. QED
    BY <1>3, <2>7, <2>8, <2>9, <2>10, <2>11, <2>12 DEF StructureInv, MadeOnce
<1>8. QED
  BY <1>5, <1>6, <1>7

(* An object is made: the root that was due, or what was looked for. *)
LEMMA CreateMoves ==
  ASSUME StructureInv, Create
  PROVE  StructureInv'
<1> DEFINE i == call.step
<1>1. call \in Working /\ i \in Step /\ call.phase = "creating"
  BY CallFacts DEF Create, StructureInv, Working
<1>2. /\ objects \in [Step -> Nat] /\ made \in [Step -> Nat]
      /\ made[i] \in Nat /\ objects[i] = made[i] /\ blank \in Nat
  BY <1>1 DEF StructureInv, StructureTypeOK, MadeOnce
<1>3. /\ objects' = [objects EXCEPT ![i] = objects[i] + 1]
      /\ made' = [made EXCEPT ![i] = made[i] + 1]
      /\ UNCHANGED <<lease, issued, changed, connection, steps, epoch, tries, saved, blank>>
  BY DEF Create, leaseVars, rows
<1>4. call' \in Working /\ call'.phase \in {"reading", "failed"}
  BY <1>1 DEF Create, Working
<1>5. i # Root => objects[i] = 0
  BY <1>1 DEF StructureInv, CallChecked
<1>6. StructureTypeOK'
  BY <1>1, <1>2, <1>3, <1>4 DEF StructureInv, StructureTypeOK
<1>7. BoundReads' /\ CallChecked'
  BY <1>3, <1>4 DEF StructureInv, BoundReads, CallChecked, Ready, Confirmed
<1>8. RootlessFenced'
  BY <1>3, <1>4 DEF StructureInv, RootlessFenced, Rootless
<1>9. RootRecorded'
  <2>1. RootDue = (IF i = Root THEN 1 ELSE 0) /\ RootDue' = 0
    BY <1>1, <1>4 DEF RootDue
  <2>2. made'[Root] = made[Root] + RootDue /\ made[Root] \in Nat
    BY <1>1, <1>2, <1>3, <2>1, StepFacts
  <2>3. QED
    BY <1>2, <1>3, <2>1, <2>2 DEF StructureInv, RootRecorded
<1>10. MadeOnce'
  <2>1. ASSUME NEW j \in Step PROVE objects'[j] = made'[j] /\ (j # Root => made'[j] <= 1)
    <3>1. CASE j = i
      BY <1>1, <1>2, <1>3, <1>5, <3>1
    <3>2. CASE j # i
      BY <1>1, <1>2, <1>3, <3>2 DEF StructureInv, MadeOnce
    <3>3. QED
      BY <3>1, <3>2
  <2>2. QED
    BY <2>1 DEF MadeOnce
<1>11. QED
  BY <1>3, <1>6, <1>7, <1>8, <1>9, <1>10 DEF StructureInv, Blank

LEMMA ConfirmMoves ==
  ASSUME StructureInv, Confirm
  PROVE  StructureInv'
<1> DEFINE i == call.step
           row == [steps[i] EXCEPT !.status = "confirmed", !.wait = FALSE, !.read = call.revision]
<1>1. call \in Working /\ i \in Step /\ call.revision \in Nat /\ call.phase = "read"
  BY CallFacts DEF Confirm, StructureInv, Working
<1>2. steps \in StepRows /\ steps[i] \in StepRow /\ connection \in Connection
  BY <1>1 DEF StructureInv, StructureTypeOK, StepRows
<1>3. steps' = [steps EXCEPT ![i] = row]
  BY <1>2 DEF Confirm, StepRows
<1>4. row \in StepRow /\ row.status = "confirmed" /\ row.read = call.revision
  BY <1>1, <1>2 DEF StepRow
<1>5. /\ connection.status \notin {"none", "paused_unknown", "paused_after_restore"}
      /\ connection.revision = call.revision /\ steps[i].status # "none"
  BY DEF Confirm, Confirmable, Quarantined
<1>6. connection' = IF connection.status # "disconnected" /\ Ready(steps')
                    THEN [connection EXCEPT !.status = "active"] ELSE connection
  BY DEF Confirm
<1>7. /\ call' = Idle
      /\ UNCHANGED <<lease, issued, changed, epoch, tries, objects, made, saved, blank>>
  BY DEF Confirm, Leave, leaseVars
<1> HIDE DEF row, i
<1>8. steps' \in StepRows
  BY <1>1, <1>2, <1>3, <1>4 DEF StepRows
<1>9. /\ steps'[i] = row
      /\ \A j \in Step : j # i => steps'[j] = steps[j]
  BY <1>1, <1>2, <1>3 DEF StepRows
<1>10. /\ connection' \in Connection /\ connection'.revision = connection.revision
       /\ connection'.status \in {connection.status, "active"}
       /\ connection.status = "disconnected" => connection'.status = "disconnected"
       /\ connection'.status = "active" => Ready(steps') \/ connection.status = "active"
  BY <1>2, <1>6 DEF Connection
<1>11. StructureTypeOK'
  BY <1>7, <1>8, <1>10 DEF StructureInv, StructureTypeOK
<1>12. Blank(steps)' /\ Blank(saved.steps)'
  BY <1>4, <1>7, <1>9 DEF StructureInv, Blank
<1>13. BoundReads'
  <2>1. connection'.status # "none" /\ connection'.status # "paused_unknown"
    BY <1>5, <1>10
  <2>2. Ready(steps) => Ready(steps')
    BY <1>4, <1>9 DEF Ready, Confirmed
  <2>3. connection'.status = "active" => Ready(steps')
    BY <1>10, <2>2 DEF StructureInv, BoundReads
  <2>4. ASSUME NEW j \in Step, steps'[j].status = "confirmed"
        PROVE  steps'[j].read = connection'.revision
    <3>1. CASE j = i
      BY <1>4, <1>5, <1>9, <1>10, <3>1
    <3>2. CASE j # i
      BY <1>9, <1>10, <2>4, <3>2 DEF StructureInv, BoundReads
    <3>3. QED
      BY <3>1, <3>2
  <2>5. QED
    BY <1>7, <2>1, <2>3, <2>4 DEF StructureInv, BoundReads
<1>14. CallChecked' /\ RootDue' = 0
  BY <1>7 DEF CallChecked, RootDue, Idle
<1>15. \A j \in Step : steps'[j].status = "none" <=> steps[j].status = "none"
  BY <1>4, <1>5, <1>9 DEF i
<1>16. RootlessFenced'
  <2>1. Rootless(steps)' <=> Rootless(steps)
    BY <1>15, StepFacts DEF Rootless
  <2>2. Rootless(saved.steps)' <=> Rootless(saved.steps)
    BY <1>7 DEF Rootless
  <2>3. Rootless(steps) => connection.status = "disconnected"
    BY <1>5 DEF StructureInv, RootlessFenced
  <2>4. call'.phase # "entered"
    BY <1>7 DEF Idle
  <2>5. QED
    BY <1>10, <2>1, <2>2, <2>3, <2>4 DEF StructureInv, RootlessFenced
<1>17. RootRecorded'
  <2>1. made[Root] \in Nat /\ blank \in Nat /\ RootDue \in {0, 1}
    BY StepFacts DEF StructureInv, StructureTypeOK, RootDue
  <2>2. steps'[Root].status = "none" <=> steps[Root].status = "none"
    BY <1>15, StepFacts
  <2>3. QED
    BY <1>7, <1>14, <2>1, <2>2 DEF StructureInv, RootRecorded
<1>18. QED
  BY <1>7, <1>11, <1>12, <1>13, <1>14, <1>16, <1>17 DEF StructureInv, MadeOnce

(* A review that matched binds the steps it read, which are the confirmed  *)
(* ones, to the new credential.                                            *)
LEMMA RebindMoves ==
  ASSUME StructureInv, Rebind
  PROVE  StructureInv'
<1>1. call \in Reviewing /\ call.phase = "matching" /\ call.revision \in Nat
  BY CallFacts DEF Rebind, StructureInv, Reviewing
<1>2. steps \in StepRows /\ connection \in Connection
  BY DEF StructureInv, StructureTypeOK
<1>3. UNCHANGED <<lease, issued, changed, epoch, tries, objects, made, saved, blank>>
  BY DEF Rebind, leaseVars
<1>4. RootDue = 0
  BY <1>1 DEF RootDue
<1>5. CASE ~Unmoved
  <2>1. call' = Idle /\ UNCHANGED <<connection, steps>>
    BY <1>5 DEF Rebind, Leave
  <2>2. RootDue' = 0 /\ CallChecked'
    BY <2>1 DEF RootDue, CallChecked, Idle
  <2>3. QED
    BY <1>3, <1>4, <2>1, <2>2, CallMoves
<1>6. CASE Unmoved
  <2>1. call.steps = steps
    BY <1>6 DEF Unmoved
  <2>2. ReviewSteps(steps) = Confirmed(steps)
    BY <1>1, <1>2, <2>1, ReviewCovers DEF StructureInv, CallChecked
  <2>3. ~Rootless(steps)
    BY <1>2, <2>2, RootlessUnreviewable
  <2>4. connection' = [status |-> IF Ready(steps) THEN "active" ELSE "paused",
                       revision |-> call.revision]
    BY <1>6 DEF Rebind
  <2>5. steps' = [j \in Step |-> IF j \in Confirmed(steps)
                                 THEN [steps[j] EXCEPT !.read = call.revision] ELSE steps[j]]
    BY <1>6, <2>2 DEF Rebind
  <2>6. call' = [phase |-> "rebound", revision |-> call.revision]
    BY <1>6 DEF Rebind
  <2>7. ASSUME NEW j \in Step
        PROVE  /\ steps'[j] \in StepRow /\ steps'[j].status = steps[j].status
               /\ steps[j].status = "confirmed" => steps'[j].read = call.revision
               /\ steps[j].status # "confirmed" => steps'[j] = steps[j]
    <3>1. steps[j] \in StepRow /\ (j \in Confirmed(steps) <=> steps[j].status = "confirmed")
      BY <1>2 DEF StepRows, Confirmed
    <3>2. QED
      BY <1>1, <2>5, <3>1 DEF StepRow
  <2>8. steps' \in StepRows
    BY <2>5, <2>7 DEF StepRows
  <2>9. connection' \in Connection
    BY <1>1, <2>4 DEF Connection
  <2>10. call' \in Rebound /\ call'.phase = "rebound"
    BY <1>1, <2>6 DEF Rebound
  <2>11. StructureTypeOK'
    BY <1>3, <2>8, <2>9, <2>10 DEF StructureInv, StructureTypeOK
  <2>12. Blank(steps)' /\ Blank(saved.steps)'
    BY <1>3, <2>7 DEF StructureInv, Blank
  <2>13. BoundReads'
    <3>1. Ready(steps)' <=> Ready(steps)
      BY <2>7 DEF Ready, Confirmed
    <3>2. /\ connection'.status \in {"active", "paused"}
          /\ connection'.status = "active" => Ready(steps)
          /\ connection'.revision = call.revision
      BY <2>4
    <3>3. \A j \in Step : steps'[j].status = "confirmed" => steps'[j].read = call.revision
      BY <2>7
    <3>4. QED
      BY <1>3, <3>1, <3>2, <3>3 DEF StructureInv, BoundReads
  <2>14. CallChecked' /\ RootDue' = 0
    BY <2>10 DEF CallChecked, RootDue
  <2>15. RootlessFenced'
    <3>1. ~Rootless(steps)' /\ ~Rootless(saved.steps)'
      BY <1>3, <2>3, <2>7, StepFacts DEF StructureInv, RootlessFenced, Rootless
    <3>2. QED
      BY <2>10, <3>1 DEF RootlessFenced
  <2>16. RootRecorded'
    <3>1. made[Root] \in Nat /\ blank \in Nat
      BY StepFacts DEF StructureInv, StructureTypeOK
    <3>2. steps'[Root].status = steps[Root].status
      BY <2>7, StepFacts
    <3>3. QED
      BY <1>3, <1>4, <2>14, <3>1, <3>2 DEF StructureInv, RootRecorded
  <2>17. QED
    BY <1>3, <2>11, <2>12, <2>13, <2>14, <2>15, <2>16 DEF StructureInv, MadeOnce
<1>7. QED
  BY <1>5, <1>6

LEMMA ExportMoves ==
  ASSUME StructureInv, Export
  PROVE  StructureInv'
<1>1. /\ saved' = [connection |-> connection, steps |-> steps]
      /\ UNCHANGED <<lease, issued, changed, connection, steps, epoch, call, tries, objects, made,
                     blank>>
  BY DEF Export, leaseVars, rows
<1>2. StructureTypeOK'
  BY <1>1 DEF StructureInv, StructureTypeOK
<1>3. BoundReads'
  BY <1>1 DEF StructureInv, BoundReads, Ready, Confirmed
<1>4. CallChecked'
  BY <1>1 DEF StructureInv, CallChecked, ReviewSteps, Confirmed
<1>5. RootlessFenced'
  BY <1>1 DEF StructureInv, RootlessFenced, Rootless
<1>6. RootRecorded'
  BY <1>1 DEF StructureInv, RootRecorded, RootDue
<1>7. QED
  BY <1>1, <1>2, <1>3, <1>4, <1>5, <1>6 DEF StructureInv, Blank, MadeOnce

(* A restore fences the structure it brings or keeps.  What forgets the    *)
(* root is counted, unless the root was forgotten before.                  *)
LEMMA RestoreMoves ==
  ASSUME StructureInv, NEW b \in {EmptyBackup, saved}, Restore(b)
  PROVE  StructureInv'
<1>1. /\ connection \in Connection /\ steps \in StepRows /\ blank \in Nat
      /\ saved \in [connection : Connection, steps : StepRows] /\ epoch \in Nat
  BY DEF StructureInv, StructureTypeOK
<1>2. /\ UNCHANGED <<lease, issued, changed, call, tries, objects, made, saved>>
      /\ epoch' = epoch + 1
  BY DEF Restore, leaseVars
<1>3. NoSteps \in StepRows /\ NoConnection \in Connection
  BY DEF NoSteps, NoStep, StepRows, StepRow, NoConnection, Connection
<1>4. CASE b.connection.status # "none"
  <2>1. b = saved
    BY <1>4 DEF EmptyBackup, NoConnection
  <2>2. /\ connection' = [saved.connection EXCEPT !.status = "paused_after_restore"]
        /\ steps' = saved.steps
        /\ blank' = IF saved.steps = NoSteps THEN blank + 1 ELSE blank
    BY <1>4, <2>1 DEF Restore
  <2>3. connection' \in Connection /\ connection'.status = "paused_after_restore"
    BY <1>1, <2>2 DEF Connection, Quarantined
  <2>4. blank' \in Nat
    BY <1>1, <2>2
  <2>5. Rootless(steps') => Rootless(steps)
    BY <2>2 DEF StructureInv, RootlessFenced
  <2>6. RootRecorded'
    <3>1. RootDue' = RootDue /\ RootDue \in {0, 1} /\ made[Root] \in Nat
      BY <1>2, StepFacts DEF RootDue, StructureInv, StructureTypeOK
    <3>2. CASE saved.steps = NoSteps
      BY <1>1, <1>2, <2>2, <3>1, <3>2 DEF StructureInv, RootRecorded
    <3>3. CASE saved.steps # NoSteps /\ saved.steps[Root].status = "none"
      <4>1. PICK i \in Step : saved.steps[i] # NoStep
        BY <1>1, <3>3 DEF StepRows, NoSteps
      <4>2. saved.steps[i].status # "none"
        BY <4>1 DEF StructureInv, Blank
      <4>3. steps[Root].status = "none"
        BY <2>2, <2>5, <3>3, <4>2 DEF Rootless
      <4>4. QED
        BY <1>2, <2>2, <3>1, <3>3, <4>3 DEF StructureInv, RootRecorded
    <3>4. CASE saved.steps # NoSteps /\ saved.steps[Root].status # "none"
      BY <1>1, <1>2, <2>2, <3>1, <3>4 DEF StructureInv, RootRecorded
    <3>5. QED
      BY <3>2, <3>3, <3>4
  <2>7. RootlessFenced'
    <3>1. Rootless(saved.steps)' => Rootless(steps)'
      BY <1>2, <2>2 DEF Rootless
    <3>2. Rootless(steps)' => ~(call'.phase = "entered" /\ call'.step = Root)
      BY <1>2, <2>2, <2>5 DEF StructureInv, RootlessFenced, Rootless
    <3>3. QED
      BY <2>3, <3>1, <3>2 DEF RootlessFenced
  <2>8. StructureTypeOK'
    BY <1>1, <1>2, <2>2, <2>3, <2>4 DEF StructureInv, StructureTypeOK
  <2>9. connection'.revision = saved.connection.revision
    BY <1>1, <2>2 DEF Connection
  <2>10. BoundReads' /\ CallChecked' /\ Blank(steps)' /\ Blank(saved.steps)'
    BY <1>2, <2>2, <2>3, <2>9 DEF StructureInv, BoundReads, CallChecked, Blank, ReviewSteps,
                            Confirmed
  <2>11. QED
    BY <1>2, <2>6, <2>7, <2>8, <2>10 DEF StructureInv, MadeOnce
<1>5. CASE b.connection.status = "none"
  <2>1. /\ connection' = IF Keeps THEN [connection EXCEPT !.status = "paused_after_restore"]
                         ELSE NoConnection
        /\ steps' = IF Keeps THEN steps ELSE NoSteps
        /\ blank' = blank
    BY <1>5 DEF Restore
  <2>2. steps' = steps
    BY <2>1 DEF Keeps
  <2>3. /\ connection' \in Connection
        /\ \/ connection'.status = "paused_after_restore"
           \/ connection'.status = "none" /\ steps = NoSteps
    BY <1>1, <1>3, <2>1 DEF Keeps, Connection, NoConnection, Quarantined
  <2>4. StructureTypeOK'
    BY <1>1, <1>2, <2>1, <2>2, <2>3 DEF StructureInv, StructureTypeOK
  <2>5. BoundReads'
    <3>1. connection'.status = "none" \/ connection'.revision = connection.revision
      BY <1>1, <2>1 DEF Connection, NoConnection
    <3>2. steps = NoSteps => \A i \in Step : steps[i].status # "confirmed"
      BY DEF NoSteps, NoStep
    <3>3. QED
      BY <1>2, <2>2, <2>3, <3>1, <3>2 DEF StructureInv, BoundReads
  <2>6. CallChecked'
    BY <1>2 DEF StructureInv, CallChecked, ReviewSteps, Confirmed
  <2>7. RootlessFenced'
    <3>1. steps = NoSteps => ~Rootless(steps)
      BY StepFacts DEF Rootless, NoSteps, NoStep
    <3>2. QED
      BY <1>2, <2>2, <2>3, <3>1 DEF StructureInv, RootlessFenced, Rootless
  <2>8. RootRecorded'
    BY <1>2, <2>1, <2>2 DEF StructureInv, RootRecorded, RootDue
  <2>9. QED
    BY <1>2, <2>2, <2>4, <2>5, <2>6, <2>7, <2>8 DEF StructureInv, Blank, MadeOnce
<1>6. QED
  BY <1>4, <1>5

----------------------------------------------------------------------------
LEMMA StructureInductive == StructureInv /\ [WorkspaceNext]_workspaceVars => StructureInv'
<1> SUFFICES ASSUME StructureInv, [WorkspaceNext]_workspaceVars PROVE StructureInv'
  OBVIOUS
<1>1. CASE Advance \/ \E i \in Step, k \in 1..2 : Reconcile(i, k)
  BY <1>1, AdvanceMoves
<1>2. CASE RecordAttempt
  BY <1>2, RecordMoves
<1>3. CASE ReadStep \/ Review \/ EnterReconnect
  BY <1>3, LookMoves
<1>4. CASE Look
  <2>1. CASE call' # Idle
    BY <1>4, <2>1, LookMoves
  <2>2. CASE call' = Idle
    <3>1. call \in Working /\ call.phase = "attempted"
      BY <1>4, CallFacts DEF Look, StructureInv
    <3>2. MarkReview(FALSE)
      BY <1>4, <2>2, <3>1 DEF Look, Working, Idle
    <3>3. QED
      BY <3>1, <3>2, MarkReviewMoves
  <2>3. QED
    BY <2>1, <2>2
<1>5. CASE Create
  BY <1>5, CreateMoves
<1>6. CASE Fail
  <2>1. call \in Working
    BY <1>6, CallFacts DEF Fail, StructureInv
  <2>2. PICK wait \in BOOLEAN : MarkReview(wait)
    BY <1>6 DEF Fail
  <2>3. QED
    BY <2>1, <2>2, MarkReviewMoves
<1>7. CASE Confirm
  BY <1>7, ConfirmMoves
<1>8. CASE ConfirmRefused
  <2>1. call \in Working
    BY <1>8, CallFacts DEF ConfirmRefused, StructureInv
  <2>2. QED
    BY <1>8, <2>1, MarkReviewMoves DEF ConfirmRefused
<1>9. CASE \E i \in Step : DeadlinePasses(i)
  BY <1>9, DeadlineMoves
<1>10. CASE Rebind
  BY <1>10, RebindMoves
<1>11. CASE MarkCredentialChanged \/ Disconnect \/ RestartStructure \/ CheckRebound
  BY <1>11, FenceMoves
<1>12. CASE GrantLease \/ WithdrawLease
  BY <1>12, LeaseMoves
<1>13. CASE Export
  BY <1>13, ExportMoves
<1>14. CASE \E b \in {EmptyBackup, saved} : Restore(b)
  BY <1>14, RestoreMoves
<1>15. CASE SendUnknown \/ Resume
  BY <1>15, SendMoves
<1>16. CASE UNCHANGED workspaceVars
  <2>1. /\ UNCHANGED <<lease, issued, changed, connection, steps, epoch, call, tries, objects, made,
                       saved, blank>>
        /\ connection \in Connection /\ lease \in Nat /\ issued \in Nat
    BY <1>16 DEF workspaceVars, structureVars, leaseVars, rows, StructureInv, StructureTypeOK
  <2>2. changed' \in BOOLEAN
    BY <2>1 DEF StructureInv, StructureTypeOK
  <2>3. QED
    BY <2>1, <2>2, ConnectionMoves
<1>17. QED
  BY <1>1, <1>2, <1>3, <1>4, <1>5, <1>6, <1>7, <1>8, <1>9, <1>10, <1>11, <1>12, <1>13, <1>14,
     <1>15, <1>16 DEF WorkspaceNext, StructureStep, BackupStep

(* The rows of a workspace, the call in progress and the backup keep their *)
(* types through every step, restart and restore.                          *)
THEOREM WorkspaceTyped == WorkspaceSpec => []StructureTypeOK
<1>1. StructureInv => StructureTypeOK
  BY DEF StructureInv
<1>2. QED
  BY Start, StructureInductive, <1>1, PTL DEF WorkspaceSpec

(* Whenever the connection is active, every step was read with the         *)
(* credential it is bound to: a rebind covers all confirmed steps, a       *)
(* confirmation belongs to the same credential, and what a restore brings  *)
(* is fenced until it is reviewed (confirm, reconnect).                    *)
THEOREM ReviewedWhenActive == WorkspaceSpec => []ActiveReviewed
<1>1. StructureInv => ActiveReviewed
  <2> SUFFICES ASSUME StructureInv, connection.status = "active", NEW i \in Step
               PROVE  steps[i].status = "confirmed" /\ steps[i].read = connection.revision
    BY DEF ActiveReviewed
  <2>1. Ready(steps)
    BY DEF StructureInv, BoundReads
  <2>2. steps[i].status = "confirmed"
    BY <2>1 DEF Ready, Confirmed
  <2>3. QED
    BY <2>2 DEF StructureInv, BoundReads
<1>2. QED
  BY Start, StructureInductive, <1>1, PTL DEF WorkspaceSpec

(* No table and no relation is made twice; a root page again only after a  *)
(* restore of a backup that does not know the first (recordAttempt and the *)
(* search before each creation).                                           *)
THEOREM CreatedOnce == WorkspaceSpec => []OneCreate
<1>1. StructureInv => OneCreate
  <2> SUFFICES ASSUME StructureInv, NEW i \in Step
               PROVE  made[i] <= 1 + (IF i = Root THEN blank ELSE 0)
    BY DEF OneCreate
  <2>1. made[i] \in Nat /\ made[Root] \in Nat /\ blank \in Nat /\ RootDue \in {0, 1}
    BY StepFacts DEF StructureInv, StructureTypeOK, RootDue
  <2>2. CASE i = Root
    BY <2>1, <2>2 DEF StructureInv, RootRecorded
  <2>3. CASE i # Root
    BY <2>1, <2>3 DEF StructureInv, MadeOnce
  <2>4. QED
    BY <2>2, <2>3
<1>2. QED
  BY Start, StructureInductive, <1>1, PTL DEF WorkspaceSpec
=============================================================================
