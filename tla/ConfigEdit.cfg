SPECIFICATION FairSpec
CONSTANTS
    Listeners <- MCListeners
    Text <- MCText
    Docs <- MCDocs
    Seeds <- Installed
    Savers = {s1, s2}
    MaxSaves = 2
INVARIANTS
    TypeOK
    BytesFromAccepted
    SavedIsDurable
    WholeWhenQuiet
PROPERTY GatewayComesBack
