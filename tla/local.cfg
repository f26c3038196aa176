SPECIFICATION LocalSpec
CONSTANTS
    pa = pa
    pb = pb
    x = x
    y = y
    Projects = {pa, pb}
    None = None
    MaxStrings = 2
    MaxCheckpoints = 2
    Languages = 2
    Savers = {x, y}
    Default = Default
    Askers = {x, y}
    MaxTools = 2
    MaxRuns = 2
    MaxChunks = 1
    Bridge = 8
    Layouts <- Shapes
    MaxEdits = 2
INVARIANTS TerminalInv ChatInv TurnsTogether PatchInv
PROPERTIES SettingsKept NothingLost
SYMMETRY Symmetry
CHECK_DEADLOCK FALSE
