SPECIFICATION Spec
CONSTANTS
    Nothing = Nothing
    Files <- MCFiles
    Sockets <- MCSockets
    Takens <- MCTakens
    MaxChanges = 2
INVARIANTS
    TypeOK
    SafeWhenChecked
    LoadMatchesReference
    RunsComplete
CHECK_DEADLOCK FALSE
