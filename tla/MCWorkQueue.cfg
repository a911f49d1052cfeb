SPECIFICATION FairSpec
CONSTANTS
    r1 = r1
    r2 = r2
    Releaser <- OneReleaser
    Worker = Worker
    Server = Server
    Periodic = TRUE
    Strict = FALSE
    MaxQueue = 2
INVARIANTS
    TypeOK
    FlagMeansPending
    RequestPending
PROPERTIES
    Served
    StopEnds
