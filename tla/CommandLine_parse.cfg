SPECIFICATION Spec
CONSTANTS
    Chars <- MCChars
    Pieces <- MCPieces
    MaxPieces = 5
    Wrap = 256
    Unset = Unset
    NULL = NULL
\* A line that is lost is the end.
CHECK_DEADLOCK FALSE
INVARIANTS
    LookupIsByName
    ArgumentsFollowTheConvention
    CalcIsInOrder
