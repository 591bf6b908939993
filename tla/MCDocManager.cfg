SPECIFICATION Spec
CONSTANTS
    u1 = u1
    u2 = u2
    NoJob = NoJob
    Torn = Torn
    Urls <- TwoUrls
    TornWrites = TRUE
    CurlMayFail = TRUE
    BadServers = TRUE
INVARIANTS
    NoJobDisplaced
    FiledUnderItsUrl
    AtMostOneRefetch
    NothingOutlivesMuPDF
PROPERTY
    StartedJobEnds
