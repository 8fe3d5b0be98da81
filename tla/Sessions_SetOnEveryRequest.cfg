SPECIFICATION Spec
CONSTANTS
    Kinds = {"http"}
    ScriptsOf <- AllScripts
    ModesOf <- HonestModes
    ConfigsOf <- AllConfigs
    FreeOf <- AllFree
    MaxFreeOf <- None
    MaxAhead = 1
INVARIANT
    SetOnEveryRequest
CHECK_DEADLOCK FALSE
