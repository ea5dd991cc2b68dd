--------------------------- MODULE NotionStructure ---------------------------
(***************************************************************************)
(* The tables and relations that NewDay makes in a Notion workspace, one   *)
(* step after the other.  Each step is recorded before its object is made; *)
(* a step found recorded is only read.  The operations of a workspace run  *)
(* one at a time, but a restore, a claim and a refresh do not wait for     *)
(* them.                                                                   *)
(***************************************************************************)
EXTENDS NotionLease, FiniteSets

CONSTANTS
    Tables,         \* the number of tables
    Relations,      \* the number of relations between them
    MaxRevision,    \* bound: revisions of the credential
    MaxEpoch        \* bound: restores

ASSUME StructureAssumption ==
    Tables \in Nat /\ Relations \in Nat /\ MaxRevision \in Nat /\ MaxEpoch \in Nat

VARIABLES
    connection,   \* the row of the workspace, [status, revision]
    steps,        \* step -> its row; "read" is the revision it was read under
    epoch,        \* the epoch of the dataset
    changed,      \* a new credential the structure has not been told of
    call,         \* the operation under way
    tries,        \* step -> the attempts recorded so far, which tells them apart
    objects,      \* Notion: step -> how many of them have its title
    made,         \* history variable: step -> objects this program has made
    saved,        \* an earlier backup, [connection, steps]
    blank         \* history variable: restores of a backup that knows no step

rows == <<connection, steps, epoch>>
structureVars == <<rows, changed, call, tries, objects, made, saved, blank>>
workspaceVars == <<leaseVars, structureVars>>

Step == 1..(1 + Tables + Relations)
Root == 1
IsTable(i) == i \in 2..(1 + Tables)

NoConnection == [status |-> "none", revision |-> 0]
NoStep == [status |-> "none", try |-> 0, wait |-> FALSE, read |-> 0]
NoSteps == [i \in Step |-> NoStep]
Idle == [phase |-> "idle"]

StructureInit ==
    /\ connection = NoConnection /\ steps = NoSteps /\ epoch = 0
    /\ changed = FALSE /\ call = Idle /\ tries = [i \in Step |-> 0]
    /\ objects = [i \in Step |-> 0] /\ made = [i \in Step |-> 0]
    /\ saved = [connection |-> NoConnection, steps |-> NoSteps] /\ blank = 0

Confirmed(s) == {i \in Step : s[i].status = "confirmed"}
Ready(s) == Confirmed(s) = Step
NextStep == CHOOSE i \in Step \ Confirmed(steps) : \A j \in Step \ Confirmed(steps) : i <= j

Quarantined == {"paused_after_restore", "paused_unknown"}

\* A credential that the connection is not bound to fences it off.
Mismatched(c) == c.status \notin {"none", "disconnected"} \cup Quarantined

Disconnected(c) == [c EXCEPT !.status = "disconnected"]
Leave == call' = Idle

(***************************************************************************)
(* Advancing by one step, and reading a doubtful one again.                *)
(***************************************************************************)

\* The connection as an operation under revision r finds or makes it.
Bound(r) ==
    CASE connection.status = "none" -> [status |-> "paused", revision |-> r]
      [] connection.status = "disconnected" -> [status |-> "paused", revision |-> r]
      [] OTHER -> connection

\* A fault: steps that were made before the disconnect are taken as they are.
MayAdvanceUnreviewed(review, r) ==
    /\ connection.status \notin Quarantined
    /\ connection.status \in {"none", "disconnected"} => ~review
    /\ connection.status \notin {"none", "disconnected"} => connection.revision = r

MayAdvance(review, r) ==
    /\ connection.status \notin Quarantined
    /\ connection.status = "disconnected" => ~review /\ steps = NoSteps
    /\ connection.status = "none" => ~review
    /\ connection.status \notin {"none", "disconnected"} => connection.revision = r

\* review is the step and the attempt a browser shows, or no one's.
Enter(review, i, k) ==
    /\ call = Idle /\ lease # 0
    /\ LET r == lease
       IN  IF Mismatched(connection) /\ connection.revision # r
           THEN connection' = Disconnected(connection) /\ UNCHANGED call
           ELSE /\ MayAdvance(review, r)
                /\ connection' = Bound(r)
                /\ ~Ready(steps)
                /\ ~steps[NextStep].wait
                /\ review => /\ i = NextStep /\ steps[i].try = k
                             /\ steps[i].status = "needs_review"
                /\ call' = [phase |-> "entered", revision |-> r,
                            review |-> review, step |-> i, try |-> k]
    /\ UNCHANGED <<leaseVars, changed, steps, epoch, tries, objects, made, saved, blank>>

Advance == ~Ready(steps) /\ Enter(FALSE, NextStep, 0)
Reconcile(i, k) == Enter(TRUE, i, k)

\* An attempt is recorded once; the call that records it may create.
Recordable ==
    /\ connection.status # "none" /\ connection.revision = call.revision
    /\ lease = call.revision
    /\ call.review => steps[call.step].status = "needs_review" /\ steps[call.step].try = call.try

\* A fault: a step whose outcome is unknown is made once more.
RecordAttemptAnew ==
    /\ call.phase = "entered"
    /\ LET i == call.step
       IN  IF ~Recordable
           THEN Leave /\ UNCHANGED <<steps, tries>>
           ELSE /\ steps' = [steps EXCEPT ![i] = [NoStep EXCEPT !.status = "attempted", !.try = tries[i] + 1]]
                /\ tries' = [tries EXCEPT ![i] = @ + 1]
                /\ call' = [phase |-> "attempted", revision |-> call.revision,
                            step |-> i, try |-> tries[i] + 1]
    /\ UNCHANGED <<leaseVars, changed, connection, epoch, objects, made, saved, blank>>

RecordAttempt ==
    /\ call.phase = "entered"
    /\ LET i == call.step
           first == steps[i].status = "none"
           k == IF first THEN tries[i] + 1 ELSE steps[i].try
       IN  IF ~Recordable
           THEN Leave /\ UNCHANGED <<steps, tries>>
           ELSE /\ steps' = IF first
                            THEN [steps EXCEPT ![i] = [NoStep EXCEPT !.status = "attempted", !.try = k]]
                            ELSE steps
                /\ tries' = [tries EXCEPT ![i] = IF first THEN k ELSE @]
                /\ call' = [phase |-> IF first THEN "attempted" ELSE "reading",
                            revision |-> call.revision, step |-> i, try |-> k]
    /\ UNCHANGED <<leaseVars, changed, connection, epoch, objects, made, saved, blank>>

MarkReview(wait) ==
    /\ Leave
    /\ LET i == call.step
       IN  steps' = IF steps[i].status \in {"attempted", "needs_review"} /\ steps[i].try = call.try
                    THEN [steps EXCEPT ![i].status = "needs_review", ![i].wait = wait]
                    ELSE steps
    /\ UNCHANGED <<leaseVars, changed, connection, epoch, tries, objects, made, saved, blank>>

\* The objects with the title of a step.  A search or a list that ends early,
\* or an object that cannot be read, fails the call instead.
Found(i) == objects[i]

\* Before it makes a table or a relation the call looks for one.
Look ==
    /\ call.phase = "attempted"
    /\ IF call.step = Root \/ Found(call.step) = 0
       THEN /\ call' = [call EXCEPT !.phase = "creating"]
            /\ UNCHANGED <<leaseVars, changed, rows, tries, objects, made, saved, blank>>
       ELSE IF IsTable(call.step)
       THEN MarkReview(FALSE)
       ELSE /\ call' = [call EXCEPT !.phase = "reading"]
            /\ UNCHANGED <<leaseVars, changed, rows, tries, objects, made, saved, blank>>

\* The object is made; the answer may be lost.
Create ==
    /\ call.phase = "creating"
    /\ objects' = [objects EXCEPT ![call.step] = @ + 1]
    /\ made' = [made EXCEPT ![call.step] = @ + 1]
    /\ call' \in {[call EXCEPT !.phase = "reading"], [call EXCEPT !.phase = "failed"]}
    /\ UNCHANGED <<leaseVars, changed, rows, tries, saved, blank>>

\* The call learns what is there: one object, or none or several.
ReadStep ==
    /\ call.phase = "reading"
    /\ call' = [call EXCEPT !.phase = IF Found(call.step) = 1 THEN "read" ELSE "failed"]
    /\ UNCHANGED <<leaseVars, changed, rows, tries, objects, made, saved, blank>>

\* Any request may fail, with or without a deadline to wait for.
Fail ==
    /\ call.phase \in {"attempted", "creating", "reading", "failed"}
    /\ \E wait \in BOOLEAN : MarkReview(wait)

Confirmable ==
    /\ connection.status \notin {"none"} \cup Quarantined
    /\ connection.revision = call.revision /\ lease = call.revision
    /\ steps[call.step].status # "none" /\ steps[call.step].try = call.try

Confirm ==
    /\ call.phase = "read" /\ Confirmable
    /\ steps' = [steps EXCEPT ![call.step].status = "confirmed", ![call.step].wait = FALSE,
                              ![call.step].read = call.revision]
    /\ connection' = IF connection.status # "disconnected" /\ Ready(steps')
                     THEN [connection EXCEPT !.status = "active"] ELSE connection
    /\ Leave
    /\ UNCHANGED <<leaseVars, changed, epoch, tries, objects, made, saved, blank>>

ConfirmRefused == call.phase = "read" /\ ~Confirmable /\ MarkReview(FALSE)

DeadlinePasses(i) ==
    /\ steps[i].wait /\ steps' = [steps EXCEPT ![i].wait = FALSE]
    /\ UNCHANGED <<leaseVars, changed, connection, epoch, call, tries, objects, made, saved, blank>>

(***************************************************************************)
(* Reconnecting after a new authorization: every confirmed step is read    *)
(* again, and nothing may have moved since.                                *)
(***************************************************************************)

\* The steps a review reads: the confirmed ones, if they form a prefix.
ReviewSteps(s) ==
    LET n == CHOOSE n \in 0..Cardinality(Step) :
               (1..n) \subseteq Confirmed(s) /\ n + 1 \notin Confirmed(s)
    IN  IF \A i \in Step : i > n + 1 => s[i].status = "none" THEN 1..n ELSE Step

EnterReconnect ==
    /\ call = Idle /\ connection.status = "disconnected" /\ lease # 0
    /\ call' = [phase |-> "reviewing", revision |-> lease,
                connection |-> connection, steps |-> steps, epoch |-> epoch]
    /\ UNCHANGED <<leaseVars, changed, rows, tries, objects, made, saved, blank>>

Unmoved ==
    /\ connection = call.connection /\ steps = call.steps /\ epoch = call.epoch
    /\ lease = call.revision

\* Every read may also find a difference, which ends the review.
Review ==
    /\ call.phase = "reviewing"
    /\ \/ /\ Unmoved /\ ReviewSteps(steps) \subseteq Confirmed(steps)
          /\ \A i \in ReviewSteps(steps) : Found(i) > 0
          /\ call' = [call EXCEPT !.phase = "matching"]
       \/ Leave
    /\ UNCHANGED <<leaseVars, changed, rows, tries, objects, made, saved, blank>>

Rebind ==
    /\ call.phase = "matching"
    /\ IF Unmoved
       THEN /\ connection' = [status |-> IF Ready(steps) THEN "active" ELSE "paused",
                              revision |-> call.revision]
            /\ steps' = [i \in Step |-> IF i \in ReviewSteps(steps)
                                        THEN [steps[i] EXCEPT !.read = call.revision]
                                        ELSE steps[i]]
            /\ call' = [phase |-> "rebound", revision |-> call.revision]
       ELSE Leave /\ UNCHANGED <<connection, steps>>
    /\ UNCHANGED <<leaseVars, changed, epoch, tries, objects, made, saved, blank>>

FenceConnection ==
    connection' = IF Mismatched(connection) THEN Disconnected(connection) ELSE connection

\* The vault is another database: it is read once more after the commit.
CheckRebound ==
    /\ call.phase = "rebound" /\ Leave
    /\ IF lease = call.revision THEN UNCHANGED connection ELSE FenceConnection
    /\ UNCHANGED <<leaseVars, changed, steps, epoch, tries, objects, made, saved, blank>>

(***************************************************************************)
(* Changes of the credential.                                              *)
(***************************************************************************)

\* A claim or a refresh has committed a new credential.
GrantLease ==
    /\ issued < MaxRevision /\ Grant
    /\ changed' = TRUE
    /\ UNCHANGED <<rows, call, tries, objects, made, saved, blank>>

\* A refresh begins.
WithdrawLease ==
    /\ lease # 0 /\ Withdraw /\ issued' = issued
    /\ UNCHANGED structureVars

MarkCredentialChanged ==
    /\ call = Idle /\ changed
    /\ changed' = FALSE
    /\ FenceConnection
    /\ UNCHANGED <<leaseVars, steps, epoch, call, tries, objects, made, saved, blank>>

Disconnect ==
    /\ call = Idle /\ Withdraw /\ issued' = issued
    /\ connection.status # "none" /\ connection' = Disconnected(connection)
    /\ UNCHANGED <<steps, epoch, changed, call, tries, objects, made, saved, blank>>

\* The process ends and starts again, and fences stale bindings first.
RestartStructure ==
    /\ changed' = FALSE /\ Leave
    /\ connection' = IF Mismatched(connection) /\ connection.revision # lease
                     THEN Disconnected(connection) ELSE connection
    /\ UNCHANGED <<leaseVars, steps, epoch, tries, objects, made, saved, blank>>

(***************************************************************************)
(* Backups, and what the sending of tasks does to the connection.          *)
(***************************************************************************)

Export ==
    /\ saved' = [connection |-> connection, steps |-> steps]
    /\ saved' # saved
    /\ UNCHANGED <<leaseVars, changed, rows, call, tries, objects, made, blank>>

EmptyBackup == [connection |-> NoConnection, steps |-> NoSteps]

\* A backup without the workspace leaves its structure, fenced.
Keeps == steps # NoSteps \/ connection.status \in Quarantined

Restore(b) ==
    /\ epoch < MaxEpoch /\ epoch' = epoch + 1
    /\ LET fenced == [connection EXCEPT !.status = "paused_after_restore"]
       IN  IF b.connection.status # "none"
           THEN /\ connection' = [b.connection EXCEPT !.status = "paused_after_restore"]
                /\ steps' = b.steps
                /\ blank' = IF b.steps = NoSteps THEN blank + 1 ELSE blank
           ELSE /\ connection' = IF Keeps THEN fenced ELSE NoConnection
                /\ steps' = IF Keeps THEN steps ELSE NoSteps
                /\ UNCHANGED blank
    /\ UNCHANGED <<leaseVars, changed, call, tries, objects, made, saved>>

\* A send whose outcome is unknown fences the workspace until it is settled,
\* whatever fence came after the request left.  It left an active workspace, so
\* every step is confirmed.
SendUnknown ==
    /\ connection.status # "none" /\ Ready(steps)
    /\ connection' = [connection EXCEPT !.status = "paused_unknown"]
    /\ UNCHANGED <<leaseVars, changed, steps, epoch, call, tries, objects, made, saved, blank>>

Resume ==
    /\ connection.status = "paused_unknown"
    /\ connection' = [connection EXCEPT !.status = "active"]
    /\ UNCHANGED <<leaseVars, changed, steps, epoch, call, tries, objects, made, saved, blank>>

StructureStep ==
    \/ Advance \/ (\E i \in Step, k \in 1..2 : Reconcile(i, k))
    \/ RecordAttempt \/ Look \/ Create \/ ReadStep \/ Fail \/ Confirm \/ ConfirmRefused
    \/ \E i \in Step : DeadlinePasses(i)
    \/ EnterReconnect \/ Review \/ Rebind \/ CheckRebound
    \/ GrantLease \/ WithdrawLease \/ MarkCredentialChanged \/ Disconnect \/ RestartStructure

BackupStep == Export \/ (\E b \in {EmptyBackup, saved} : Restore(b)) \/ SendUnknown \/ Resume

(***************************************************************************)
(* Properties.                                                             *)
(***************************************************************************)

(* No object of the structure is made twice, whatever answers are lost and *)
(* whenever the process ends, the user retries, disconnects or restores;   *)
(* but for the root page, once for each restore of a backup that knows the *)
(* workspace and none of its steps.                                        *)
OneCreate == \A i \in Step : made[i] <= 1 + (IF i = Root THEN blank ELSE 0)

(* An active connection stands on a structure that was read, step by step, *)
(* with the very credential the connection is bound to.                    *)
ActiveReviewed ==
    connection.status = "active" =>
        \A i \in Step : steps[i].status = "confirmed" /\ steps[i].read = connection.revision

WorkspaceInit == LeaseInit /\ StructureInit
WorkspaceNext == StructureStep \/ BackupStep
WorkspaceSpec == WorkspaceInit /\ [][WorkspaceNext]_workspaceVars

=============================================================================
