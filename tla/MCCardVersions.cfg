SPECIFICATION Spec
CONSTANTS
    Editors = {e1, e2}
    Fusions = {f1}
    Requested <- MCRequested
    MinParents = 2
    MaxParents = 2
    MaxCards = 3
    MaxVersions = 3
SYMMETRY Symmetry
INVARIANTS
    TypeOK
    CurrentIsLast
    EditsBuildOnLast
    LineageIsBlended
PROPERTIES
    VersionsAreFixed
CHECK_DEADLOCK FALSE
