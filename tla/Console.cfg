\* A ring with room for two keys, a history of three lines, an editor with a
\* buffer of seven characters on a screen of two rows.
CONSTANTS
    MaxFile = 7
    Wrap = 4
    Cols = 3
    Height = 2
    TabSize = 2
    MaxTerm = 2
    MaxClip = 2
    KbdSize = 3
    HistSize = 3
    LineMax = 2
    MatchMax = 2
    Commands <- MCCommands
    Files <- MCFiles
    Sessions = {"prompt", "hasty", "files", "edit", "move", "find"}
    MaxKeys = 5
    MaxFailures = 1
    Halts = {"no_history", "unsaved", "overrun", "missing"}
SPECIFICATION Spec
INVARIANTS RingIsQueue  CursorIsOnePlace
 
CHECK_DEADLOCK FALSE
