SPECIFICATION SafeSpec
CONSTANTS
    about = about
    map = map
    NoApp = NoApp
    Apps <- TwoApps
    About <- about
    MaxFlights = 0
    MaxTimers = 1
    MaxEvents = 0
INVARIANTS
    CleanStop
