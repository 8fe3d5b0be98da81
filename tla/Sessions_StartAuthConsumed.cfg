SPECIFICATION Spec
CONSTANTS
    Kinds = {"redis"}
    ScriptsOf <- Named
    ModesOf <- HonestModes
    ConfigsOf <- AllConfigs
    FreeOf <- AllFree
    MaxFreeOf <- None
    MaxAhead = 1
INVARIANT
    StartAuthConsumed
CHECK_DEADLOCK FALSE
