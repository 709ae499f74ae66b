SPECIFICATION Spec
CONSTANTS
    Width = 6
    Height = 3
    Blank = Blank
    Chars = {A, B}
    Block = Block
    Output = Output
    Mark = Mark
    Message = Message
    PromptLen = 3
    Commands = {c1, c2}
    NoReport = NoReport
    MaxLine = 3
VIEW View
INVARIANTS
    LineIsOnScreen
    PromptIsKept
