SPECIFICATION ShSpec
CONSTANTS
    Main = 0
    Procs = {0, 1, 2, 3, 4}
    NULL = NULL
    NoChannel = NoChannel
    NoValue = NoValue
    Values = {2, Zero, E5D, DEAD, ArgsMsg, Echo, GameCmd, Sleep, ExitCmd}
    Channels = {0, 1, 2, 12, 42, 43}
    MaxTimeSlices = 1
    MaxId = 4
    BootTicks = 0
    LastMayBlock = FALSE
    NumShells = 1
    Consoles = {2, Game}
    Game = Game
    Functions = {Echo, GameCmd, Sleep, ExitCmd}
    Echo = Echo
    Sleep = Sleep
    GameCmd = GameCmd
    ExitCmd = ExitCmd
    MayBackground = FALSE
    MayCtrlC = TRUE
    Zero = Zero
    E5D = E5D
    DEAD = DEAD
    ArgsMsg = ArgsMsg
VIEW View
INVARIANTS
    HandshakeReachesItsCommand
PROPERTIES
    DeadMeansPrinted
