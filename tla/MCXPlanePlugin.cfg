SPECIFICATION Spec
CONSTANTS
    Parts = {"CANVAS", "TOOLBAR"}
    Sizes = {5}
    Lefts <- MCLefts
    MinSize = 2
    StdSize = 3
    MaxSize = 5
    Screen = 12
    Grab = 1
    PollEvery = 1
    WatchdogLimit = 1
    MaxJobs = 1
    MaxEvents = 4
INVARIANT
    HandlesLive
PROPERTIES
    WindowRemembered
    ContentFitsWindow
    CloseIsNoticed
CHECK_DEADLOCK FALSE
