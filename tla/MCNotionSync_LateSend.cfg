\* A send checked before a restore of another process leaves after it.
SPECIFICATION Spec
CONSTANTS
  Field = {f1}
  Value = {a, b}
  Task = {t1}
  Sender = {s1, s2}
  Copy = {c1}
  NoFields = NoFields
  NoCopy = NoCopy
  NoSender = NoSender
  MaxOps = 1
  MaxEpoch = 1
  MaxRemote = 0
PROPERTIES
  OldEpochSilent
SYMMETRY Symmetric
\* The bounds on operations, restores and restarts stop the system.
CHECK_DEADLOCK FALSE
