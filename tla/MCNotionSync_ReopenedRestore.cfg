\* Disconnecting and reconnecting lifts the fence of a restore.
SPECIFICATION Spec
CONSTANTS
  Field = {f1}
  Value = {a, b}
  Task = {t1}
  Sender = {s1}
  Copy = {c1, c2}
  NoFields = NoFields
  NoCopy = NoCopy
  NoSender = NoSender
  MaxOps = 1
  MaxEpoch = 1
  MaxRemote = 0
INVARIANTS
  RestoreFenceHolds
SYMMETRY Symmetric
\* The bounds on operations, restores and restarts stop the system.
CHECK_DEADLOCK FALSE
