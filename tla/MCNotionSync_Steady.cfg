\* Liveness, without symmetry.
SPECIFICATION SteadySpec
CONSTANTS
  Field = {f1}
  Value = {a, b}
  Task = {t1}
  Sender = {s1, s2}
  Copy = {c1, c2}
  NoFields = NoFields
  NoCopy = NoCopy
  NoSender = NoSender
  MaxOps = 2
  MaxEpoch = 0
  MaxRemote = 1
PROPERTIES
  AttemptEnds
  ActiveDrains
\* The bounds on operations, restores and restarts stop the system.
CHECK_DEADLOCK FALSE
