SPECIFICATION FairSpec
CONSTANTS
    Captures = {c1}
    Ops = {o1, o2}
    Drafts = {d1}
    Days = {0, 1}
    NoRow = NoRow
    MaxEpoch = 1
    MaxLine = 2
INVARIANTS CapturedOnce StoppedMeansNothing
PROPERTIES LetGoIsOver CapturesEnd
CHECK_DEADLOCK FALSE
