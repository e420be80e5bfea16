SPECIFICATION Spec
CONSTANTS
    Keys = {k1, k2}
    Syncs = {s1}
    Editors = {e1}
    HandWritten = {"hand"}
    Answers <- MCAnswers
    MaxOps = 2
    MaxTries = 3
    Blank = Blank
    NoKey = NoKey
    Keep = Keep
    MaxIds = 2
    MaxChapters = 2
INVARIANTS
    TypeOK
PROPERTIES
    EntriesLiveOnce
    CurrentListMakesNoTwin
    TouchesOnlyTargets
    StatusMovesByUpdate
SYMMETRY Symmetry
CHECK_DEADLOCK FALSE
