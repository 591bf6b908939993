SPECIFICATION Spec
CONSTANTS
    about = about
    map = map
    NoMode = NoMode
    Apps <- TwoApps
    Launched <- about
    Modes <- SomeModes
    Tool <- Tools
    AppTools <- ToolsOf
    Repeating <- RepeatingOf
    Points <- SomePoints
    PenPoints <- SomePenPoints
    Width = 8
    Height = 6
    BarHeight = 1
    IconWidth = 3
    ItemSize = 2
    KeypadHeight = 1
    SizeRange = 64
    MaxPresses = 2
    MaxEvents = 2
    MaxJobs = 2
INVARIANTS
    PointerConsistent
    OnePartHeld
PROPERTIES
    ModeSelectedWherePressed
    ClicksAgainOnlyRepeating
    HoldsEnd
