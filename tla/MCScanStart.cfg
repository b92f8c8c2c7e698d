SPECIFICATION Spec
CONSTANTS
    Word = 8
    DefaultMax = 3
    TipDacs <- MCTipDacs
    ParameterSets <- MCOneGrid
INVARIANT StartsAtGridMin
