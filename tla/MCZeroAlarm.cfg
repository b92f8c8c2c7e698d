SPECIFICATION Spec
CONSTANTS
    Caller = {"measure", "tunnel", "adjust", "dispatcher"}
    Dispatcher = "dispatcher"
    MeasureMs = {0, 1}
    Word = 16
    Byte = 4
    HalfInt = 2
    kPNum = 3
    kPDen = 2
    kINum = 2
    kIDen = 1
    GridDac <- MCGridDac
    WaveSize = 2
    Wave <- MCWave
    Errors <- MCErrors
    TipDacs <- MCTips
CONSTRAINTS OneMissAtATime SinusComesLast
INVARIANT ErrorCheckHolds
