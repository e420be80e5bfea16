SPECIFICATION Spec
CONSTANTS
    Jobs = {j1, j2}
    Chapters = {c1}
    Editors = {e1}
    Edited = {hand}
    NoChapter = NoChapter
    NoText = NoText
    Keep = Keep
    MaxRestarts = 1
INVARIANTS
    FailedJobFreesChapter
CHECK_DEADLOCK FALSE
