SPECIFICATION Spec
CONSTANTS
    about = about
    map = map
    NoApp = NoApp
    Apps <- TwoApps
    About <- about
    MaxFlights = 1
    MaxTimers = 1
    MaxEvents = 0
INVARIANTS
    TimerJobsHaveManager
    DirtyIsRedrawn
    PaintersFirst
PROPERTY
    StopReturns
