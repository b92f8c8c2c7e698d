SPECIFICATION FairSpec
CONSTANTS
    Word = 8
    DefaultMax = 3
    ParameterSets <- MCOneRow
    TipDacs <- MCTipDacs
    LoopCounts = {1, 2}
    NoTask = NoTask
    MeasureTask = {m1}
    AdjustTask = {a1}
    QueueLength = 2
    CommandLength = 1
    TipLength = 1
    Commands <- MCAllModes
    Patient = TRUE
INVARIANT TypeOK
INVARIANT TunnelIsExact
INVARIANT LinesLabelled
INVARIANT WaitingIsServed
INVARIANT IdleIsOff
PROPERTY RunFinishes
