SPECIFICATION FairSpec
CONSTANTS
    Main = main
    Procs = {main, a, b}
    NULL = NULL
    Channels = {c1, c2}
    NoChannel = NoChannel
    Values = {v1}
    NoValue = NoValue
    MaxTimeSlices = 2
    MaxId = 2
    BootTicks = 0
    LastMayBlock = FALSE
INVARIANTS
    TypeOK
    IdsIndexTheList
    RunQueueIsOneRing
    ChannelsKnowTheirWaiters
    BlockedCanBeWoken
    WokenReceiverRunsAtOnce
PROPERTIES
    RendezvousSpec
    EveryRunnableProcessRuns
