\* Two processes at once on one database, without and with restores.
SPECIFICATION SeveralSpec
CONSTANTS
  Field = {f1}
  Value = {a, b}
  Task = {t1}
  Sender = {s1, s2}
  Copy = {c1, c2}
  NoFields = NoFields
  NoCopy = NoCopy
  NoSender = NoSender
  MaxOps = 3
  MaxEpoch = 1
  MaxRemote = 0
INVARIANTS
  SingleInFlight
  BaselineIsRemote
  LiveOpsCurrentEpoch
PROPERTIES
  LateSendsHeld
SYMMETRY Symmetric
\* The bounds on operations, restores and restarts stop the system.
CHECK_DEADLOCK FALSE
