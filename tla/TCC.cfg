\* Bytes of four values, so words of 256; the tables of the compiler hold a handful.
CONSTANTS
    Radix = 4
    MaxTokens = 110
    StrMax = 6
    IdentMax = 7
    NameMax = 2
    SymMax = 4
    Disp8 = 9
    MaxFuncs = 1
    MaxRelocs = 1
    MaxArgs = 2
    Sources <- MCSources
    CodeSize = 260
    Slack = 60
    StrTable = 10
    PatchMax = 4
    FrameAlign = 4
    StackBytes = 48
    MaxOut = 24
SPECIFICATION Spec
INVARIANTS StackBalanced JumpsLand
PROPERTY PrintsWhatItMeans
CHECK_DEADLOCK FALSE
