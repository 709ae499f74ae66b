SPECIFICATION PrSpec
CONSTANTS
    Main = 0
    Procs = {0, 1, 2, 3, 4}
    NULL = NULL
    NoChannel = NoChannel
    NoValue = NoValue
    Values = {2, 3, Zero, E5D, DEAD, ArgsMsg, Echo, Sleep, ExitCmd}
    Channels = {0, 1, 2, 3, 12, 13, 42, 43}
    MaxTimeSlices = 1
    MaxId = 4
    BootTicks = 0
    LastMayBlock = TRUE
    NumShells = 2
    Consoles = {2, 3}
    Game = Game
    Functions = {Echo, Sleep, ExitCmd}
    Echo = Echo
    Sleep = Sleep
    GameCmd = GameCmd
    ExitCmd = ExitCmd
    MayBackground = TRUE
    MayCtrlC = TRUE
    Zero = Zero
    E5D = E5D
    DEAD = DEAD
    ArgsMsg = ArgsMsg
INVARIANTS
    OneConsole
    HandshakeReachesItsCommand
    WaitingProcessDoesNotRun
PROPERTY
    SwitchCompletes
