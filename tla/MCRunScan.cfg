SPECIFICATION FairSpec
CONSTANTS
    Word = 8
    DefaultMax = 3
    ParameterSets <- MCThreeWays
    TipDacs <- MCTipDacs
    LoopCounts = {1, 2}
    NoTask = NoTask
    MeasureTask = {m1}
    AdjustTask = {a1}
    QueueLength = 2
    CommandLength = 1
    TipLength = 1
    Commands <- MCScanning
    Patient = TRUE
INVARIANT NothingLost
INVARIANT DeliveredInOrder
INVARIANT DoneIsComplete
INVARIANT NoOverlap
INVARIANT GuardIsOwned
PROPERTY ImplementsSession
PROPERTY RunFinishes
