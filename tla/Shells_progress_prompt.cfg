SPECIFICATION PrSpec
CONSTANTS
    Main = 0
    Procs = {0, 1, 2, 3, 4, 5}
    NULL = NULL
    NoChannel = NoChannel
    NoValue = NoValue
    Values = {2, Zero, E5D, DEAD, ArgsMsg, Echo}
    Channels = {0, 1, 2, 12, 42, 43}
    MaxTimeSlices = 1
    MaxId = 5
    BootTicks = 0
    LastMayBlock = TRUE
    NumShells = 1
    Consoles = {}
    Game = Game
    Functions = {Echo}
    Echo = Echo
    Sleep = Sleep
    GameCmd = GameCmd
    ExitCmd = ExitCmd
    MayBackground = TRUE
    MayCtrlC = FALSE
    Zero = Zero
    E5D = E5D
    DEAD = DEAD
    ArgsMsg = ArgsMsg
PROPERTY
    PromptReturns
