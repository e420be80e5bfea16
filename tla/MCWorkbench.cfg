SPECIFICATION Spec
CONSTANTS
    Jobs = {j1, j2}
    Chapters = {c1, c2}
    Editors = {e1}
    NoChapter = NoChapter
    NoText = NoText
    Keep = Keep
    NoJob = NoJob
    MaxRestarts = 1
    MaxMoves = 4
INVARIANTS
    TypeOK
    ChaptersAreSeparate
    TypedIsKept
    IdleIsQuiet
    LockIsAwaited
SYMMETRY Symmetry
CHECK_DEADLOCK FALSE
