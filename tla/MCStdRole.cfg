CONSTANTS
    g1 = g1
    g2 = g2
    Nil = Nil
    New = New
    Goroutine <- MCGoroutine
    Permission <- MCPermission
    PermID <- MCPermID
    IdOfPerm <- MCIdOfPerm
    Matching <- MCMatching
    HasCEL <- MCHasCEL
    Starts <- MCShared
    RoleRequests <- Locked
SYMMETRY MCSymmetry
SPECIFICATION Spec
INVARIANTS
    TypeOK
    CacheMatches
    NoDataRace
PROPERTIES
    LinearizesRoleCalls
