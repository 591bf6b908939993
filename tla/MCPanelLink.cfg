SPECIFICATION Spec
CONSTANTS
    NumPorts = 2
    MaxStarts = 2
    MaxChanges = 1
    FailedLimit = 4
    MaxInFlight = 2
PROPERTY
    PanelFollowsServer
