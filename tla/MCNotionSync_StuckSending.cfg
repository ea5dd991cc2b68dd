\* A send that nobody works on: the refused pause.
SPECIFICATION Spec
CONSTANTS
  Field = {f1}
  Value = {a, b}
  Task = {t1}
  Sender = {s1}
  Copy = {c1, c2}
  NoFields = NoFields
  NoCopy = NoCopy
  NoSender = NoSender
  MaxOps = 2
  MaxEpoch = 0
  MaxRemote = 0
INVARIANTS
  SendingHasWorker
SYMMETRY Symmetric
\* The bounds on operations, restores and restarts stop the system.
CHECK_DEADLOCK FALSE
