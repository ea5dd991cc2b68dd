\* One process after the other, with restores.
SPECIFICATION SerialSpec
CONSTANTS
  Field = {f1}
  Value = {a, b}
  Task = {t1}
  Sender = {s1, s2}
  Copy = {c1, c2}
  NoFields = NoFields
  NoCopy = NoCopy
  NoSender = NoSender
  MaxOps = 2
  MaxEpoch = 1
  MaxRemote = 0
INVARIANTS
  AtMostOneCreate
  NeverResent
PROPERTIES
  ImplementsIntent
  WriteFence
SYMMETRY Symmetric
\* The bounds on operations, restores and restarts stop the system.
CHECK_DEADLOCK FALSE
