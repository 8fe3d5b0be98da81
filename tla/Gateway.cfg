SPECIFICATION FairSpec
CONSTANTS
    Order <- HttpFirst
    Http <- OneOfEach
    Conns = {c1, c2}
    NoConn = NoConn
INVARIANTS
    TypeOK
    EndsOnlyWhenAsked
    AllOrNothing
    SocketsReleased
    HttpDrainsOnStop
    HttpQuietAfterShutdown
    LogLinesCorrelate
PROPERTIES
    StopTerminates
    StopIsParallel
    NobodyWaitsForOthers
CHECK_DEADLOCK FALSE
