SPECIFICATION Spec
CONSTANTS
    Main = main
    a = a
    b = b
    Procs = {main, a, b}
    NULL = NULL
    Channels = {c1}
    NoChannel = NoChannel
    Values = {v1}
    NoValue = NoValue
    MaxId = 2
    TickPoints = {"readNext", "permit", "return", "numberIt", "readValue"}
SYMMETRY Symmetry
INVARIANTS
    CallsAreSane
    RingIntact
    NobodyIsLost
    OwnStack
