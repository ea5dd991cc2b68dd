\* Runs with crashes, executions against every change, and cleared histories.
SPECIFICATION PartsSpec
CONSTANTS
  Runs = {r1, r2}
  Tasks = {t1}
  Inputs <- OneInput
  OpIds = {o1, o2}
  Requests = {q1, q2}
  Zones = {0, 1}
  NoRow = NoRow
  MaxEpoch = 1
  MaxRev = 3
  MaxGen = 1
  MaxPref = 1
  MaxCtx = 1
  MaxDay = 1
INVARIANTS
  OneCurrentPlan
  CallCap
  ExecutedOnce
  RunningHasJob
PROPERTIES
  EndedRunStays
  AppliedUntouched
  RevertedUntouched
\* The bounds on runs and changes stop the system.
CHECK_DEADLOCK FALSE
