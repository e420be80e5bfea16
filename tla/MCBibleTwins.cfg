SPECIFICATION Spec
CONSTANTS
    Keys = {k1}
    Syncs = {s1, s2}
    Editors = {}
    HandWritten = {"hand"}
    Answers <- MCAnswers
    MaxOps = 2
    MaxTries = 1
    Blank = Blank
    NoKey = NoKey
    Keep = Keep
    MaxIds = 2
    MaxChapters = 1
PROPERTIES
    SyncMakesNoTwin
CHECK_DEADLOCK FALSE
