SPECIFICATION Spec
CONSTANTS
    Jobs = {j1, j2}
    Workers = {w1, w2}
    NoJob = NoJob
    Full = 1
    MaxCrashes = 1
SYMMETRY Symmetry
INVARIANTS
    TypeOK
    OneWorkerPerJob
    RunningIsAccounted
    CanceledIsSignalled
PROPERTIES
    NoStartAfterEnd
    RefinesLifecycle
