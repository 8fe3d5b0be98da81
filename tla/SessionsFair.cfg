SPECIFICATION FairSpec
CONSTANTS
    Kinds = {"postgres", "mysql", "oracle", "redis", "http"}
    ScriptsOf <- AllScripts
    ModesOf <- HonestModes
    ConfigsOf <- AllConfigs
    FreeOf <- AllFree
    MaxFreeOf <- None
    MaxAhead = 1
INVARIANTS
    UpstreamSeesConfig
    NumbersInStep
    ClientBytesOnce
    RepliesMatch
PROPERTIES
    SessionsSettle
    QueriesAnswered
CHECK_DEADLOCK FALSE
