\* One process, with restores: a task, three intents, one restore,
\* one edit in Notion.
SPECIFICATION Spec
CONSTANTS
  Field = {f1}
  Value = {a, b}
  Task = {t1}
  Sender = {s1}
  Copy = {c1, c2}
  NoFields = NoFields
  NoCopy = NoCopy
  NoSender = NoSender
  MaxOps = 3
  MaxEpoch = 1
  MaxRemote = 1
INVARIANTS
  TaskSyncedOrOwed
  PendingMatchesTask
  UndoCurrent
SYMMETRY Symmetric
\* The bounds on operations, restores and restarts stop the system.
CHECK_DEADLOCK FALSE
