SPECIFICATION FairSpec
CONSTANTS
    Word = 8
    DefaultMax = 3
    ParameterSets <- MCOneRow
    TipDacs <- MCTipDacs
    LoopCounts = {1, 2}
    NoTask = NoTask
    MeasureTask = {m1, m2}
    AdjustTask = {a1}
    QueueLength = 2
    CommandLength = 1
    TipLength = 1
    Commands <- MCMeasureOnly
    Patient = FALSE
PROPERTY RunFinishes
CHECK_DEADLOCK FALSE
