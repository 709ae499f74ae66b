SPECIFICATION Spec
CONSTANTS
    Bottom = 100
    MaxTop = 182
    Room = 200
    MaxClass = 8
    FirstArray = 1
    MaxArrays = 3
    Sizes = {34}
    PageSizes = {16}
    Align = 16
    Data = 7
    MaxLen = 3
    MaxLists = 2
    Texts = {2}
VIEW View
INVARIANTS
    TypeOK
    BlocksAreDisjoint
    DataIsKeptUntilMisled
    ListsAreSequences
    FreeListIsSorted
PROPERTIES
    HeapGrowsWhenFull
CHECK_DEADLOCK FALSE
