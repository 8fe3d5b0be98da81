SPECIFICATION Spec
CONSTANTS
    Listeners <- MCListeners
    Text <- MCText
    Docs <- MCDocs
    Seeds <- Edited
    Savers = {s1, s2}
    MaxSaves = 2
INVARIANT ErrorMeansUnchanged
