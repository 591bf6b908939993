SPECIFICATION Spec
CONSTANTS
    sim = sim
    main = main
    worker = worker
    Callers <- ThreeCallers
    Main <- main
    Worker <- worker
    MaxPosts = 2
INVARIANTS
    NoLostWakeup
    TakeHasJob
PROPERTIES
    EveryJobRuns
    ServiceSpec
