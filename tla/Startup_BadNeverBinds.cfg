SPECIFICATION Spec
CONSTANTS
    Nothing = Nothing
    Files <- MCFiles
    Sockets <- MCSockets
    Takens <- NoTakens
    MaxChanges = 0
INVARIANT BadNeverBinds
CHECK_DEADLOCK FALSE
