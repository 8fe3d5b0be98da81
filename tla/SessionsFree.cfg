SPECIFICATION Spec
CONSTANTS
    Kinds = {"postgres", "mysql", "oracle", "redis", "http"}
    ScriptsOf <- Talking
    ModesOf <- FreeModes
    ConfigsOf <- OneConfig
    FreeOf <- AllFree
    MaxFreeOf <- Free
    MaxAhead = 1
INVARIANTS
    TypeOK
    ClientSeesOnlySession
    UpstreamSeesConfig
    GrantNeedsSignature
    AnswersChallenges
PROPERTY
    ImplementsSession
CHECK_DEADLOCK FALSE
