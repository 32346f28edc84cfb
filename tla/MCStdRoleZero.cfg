CONSTANTS
    g1 = g1
    g2 = g2
    Nil = Nil
    New = New
    Goroutine <- MCGoroutine
    Permission <- MCPermission
    PermID <- MCPermID
    IdOfPerm <- MCIdOfPerm
    Matching <- MCMatching
    HasCEL <- MCHasCEL
    Starts <- MCZero
    RoleRequests <- MCAssigns
SPECIFICATION Spec
INVARIANT
    NoFatalUnlock
