SPECIFICATION Spec
CONSTANTS
    KeyCount = 3
    Value = {default, other}
    Default = default
    NotANumber = NotANumber
    Missing = Missing
    Unset = Unset
    Ssid = {home, lab}
    Pass = {p1}
    Empty = Empty
INVARIANT TypeOK
INVARIANT NothingMissing
INVARIANT RamIsFlash
INVARIANT CommandTakesEffect
PROPERTY SsidKept
