SPECIFICATION FairSpec
CONSTANTS
    Jobs = {j1, j2}
    Workers = {w1}
    NoJob = NoJob
    Full = 0
    MaxCrashes = 0
PROPERTIES
    CanceledIsNotLeftRunning
