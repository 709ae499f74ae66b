SPECIFICATION RestSpec
CONSTANTS
    Main = main
    a = a
    b = b
    Procs = {main, a, b}
    NULL = NULL
    Channels = {c1}
    NoChannel = NoChannel
    Values = {v1, v2}
    NoValue = NoValue
    MaxId = 2
    TickPoints = {}
SYMMETRY Symmetry
PROPERTY
    KernelSpec
