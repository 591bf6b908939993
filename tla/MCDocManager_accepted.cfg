SPECIFICATION Spec
CONSTANTS
    u1 = u1
    u2 = u2
    NoJob = NoJob
    Torn = Torn
    Urls <- TwoUrls
    TornWrites = FALSE
    CurlMayFail = FALSE
    BadServers = FALSE
PROPERTIES
    AcceptedJobEnds
