\* Credentials, structure, scans, comparison and reviews.
SPECIFICATION MCSpec
CONSTANTS
  Auth = {a1, a2}
  MaxToken = 3
  MaxAttempt = 1
  Tables = 1
  Relations = 1
  MaxRevision = 2
  MaxEpoch = 1
  Day = {1, 2}
  Reader = {p1, p2}
  p1 = p1
  p2 = p2
  MaxEdits = 1
  MaxRuleEdits = 1
  MaxScans = 2
  Auditor = {p1, p2}
  MaxTime = 2
  MaxReplacements = 1
  MaxPageChanges = 1
  Field = {title, date, completed}
  Value = {a, b, c}
  a = a
INVARIANTS
  DisconnectHolds
  LeaseUnrotated
  OneCreate
  ActiveReviewed
  EditsKept
  SecondPatchAgrees
  ConflictsAreLosses
  OnePagePerOccurrence
  LatestReview
PROPERTIES
  ImplementsLease
  ReadsInOrder
\* The bounds stop the system.
CHECK_DEADLOCK FALSE
