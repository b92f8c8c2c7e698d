SPECIFICATION FairSpec
CONSTANTS
    Word = 8
    DefaultMax = 3
    TipDacs <- MCTipDacs
    ParameterSets <- MCParameterSets
INVARIANT TypeOK
INVARIANT RasterOrder
INVARIANT Complete
INVARIANT MovedAxisIsPlaced
PROPERTY NoPointTwice
PROPERTY ScanEnds
