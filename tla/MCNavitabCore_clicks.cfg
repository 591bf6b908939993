SPECIFICATION SafeSpec
CONSTANTS
    about = about
    map = map
    NoApp = NoApp
    Apps <- TwoApps
    About <- about
    MaxFlights = 1
    MaxTimers = 0
    MaxEvents = 1
INVARIANTS
    ToolsCurrent
    FaultsOnlyKnown
