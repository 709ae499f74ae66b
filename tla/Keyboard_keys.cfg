SPECIFICATION Spec
CONSTANTS
    CTRL = CTRL
    SHIFT = SHIFT
    ALT = ALT
    DEL = DEL
    OneLevel = {S}
    TwoLevel = {A}
    ThreeLevel = {E}
    Keys = {CTRL, SHIFT, ALT, DEL, A, E, S}
    F0 = F0
    Debounce = 1
    MaxTyped = 2
    MaxDown = 3
    SlowController = FALSE
VIEW View
INVARIANTS
    KeysAreWhatTheUserHolds
    NothingIsReadTwice
    TypedAsMeant
