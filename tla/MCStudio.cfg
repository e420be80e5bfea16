SPECIFICATION Spec
CONSTANTS
    Projects = {p1, p2}
    NoProject = NoProject
    NoRoute = NoRoute
    MaxMoves = 4
    FrameMoves = 3
    MaxLogins = 3
    Entries = {e1, e2}
    NoEntry = NoEntry
    Nodes = {n1, n2}
    NoNode = NoNode
    Decked = {1, 2, 3, 4}
    Decks = {{}, {2, 3}, {1, 2, 3, 4}}
    Dims = {d1, d2}
    Slots = 3
    Asked = {{}, {1, 2, 3}, {4}}
    Raw = {0, 45}
    Cards = {a, b}
    NoCard = NoCard
    MaxVersion = 2
    Chapters = {c1, c2}
    NoChapter = NoChapter
    Assets = {s1, s2}
    Limit = 1
    Jobs = {j1, j2}
    NoJob = NoJob
    Tabs = {t1, t2}
    Followed = {j1}
SYMMETRY Symmetry
INVARIANTS
    TypeOK
    SaveGoesToItsEntry
    SuggestionsAppliedOnce
    WritesAreBound
    OneExtraction
    EndsAreToldOnce
PROPERTIES
    DeletedStaysDeleted
    WeightsStayWhole
    ReturnsToWhereItWas
CHECK_DEADLOCK FALSE
