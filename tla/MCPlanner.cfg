SPECIFICATION StartedSpec
CONSTANTS
  Calendar <- EndOfFebruary
  Pattern <- DailyOrMonthly
  Task = {t1}
  t1 = t1
  s1 = s1
  Slot <- Slots
  End <- Ends
  s2 = s2
  s3 = s3
  Series = {s1, s2, s3}
  None = None
  MaxFocus = 1
  Ahead = 1
  MaxChanges = 3
INVARIANTS
  DeletedStays
  ChainIntact
  FocusUsable
PROPERTIES
  UndoRestores
  CommitsOnShown
CHECK_DEADLOCK FALSE
