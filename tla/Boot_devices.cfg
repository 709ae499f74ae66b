SPECIFICATION Spec
CONSTANTS
    Checks = 2
    Sends = 2
    MaxComing = 2
    Size = 64
    KernelFrames = 25
    Dirs = {boot, p, q}
    BootDir = boot
    Virtual <- MCVirtual
    StackTop <- MCStackTop
    StackPage <- MCStackPage
    NoFrame = NoFrame
    FreshEntry = NoFrame
    Beyond = 34
\* The kernel waits for a key for ever if there is no keyboard.
CHECK_DEADLOCK FALSE
INVARIANTS
    LeavesWhenFull
    SmoothBootFindsTheKeyboard
    FramesAreExclusive
    StackIsMapped
PROPERTIES
    BootGetsThrough
