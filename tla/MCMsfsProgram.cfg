SPECIFICATION Spec
CONSTANTS
    Keys = {"general", "logging", "maps"}
    Defaults <- MCDefaults
    Null = Null
    Hollow = Hollow
    DirChoices <- MCDirs
    FileChoices <- MCFiles
    TileChoices <- MCTiles
    SortedNames <- MCSortedNames
    MaxRuns = 2
    MaxEdits = 1
    MaxFrames = 1
    MaxFlights = 1
    MaxOther = 1
INVARIANTS
    LoggedOnce
    NoGhostPlanes
PROPERTY
    UrlAsConfigured
    SettingsKept
CHECK_DEADLOCK FALSE
