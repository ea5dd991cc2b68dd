\* Two processes and three edits between a check and the merge.
SPECIFICATION UndisturbedSpec
CONSTANTS
  Field = {f1}
  Value = {a, b, c}
  Task = {t1}
  Sender = {s1, s2}
  Copy = {c1, c2}
  NoFields = NoFields
  NoCopy = NoCopy
  NoSender = NoSender
  MaxOps = 4
  MaxEpoch = 0
  MaxRemote = 1
INVARIANTS
  PendingMatchesTask
SYMMETRY Symmetric
\* The bounds on operations, restores and restarts stop the system.
CHECK_DEADLOCK FALSE
