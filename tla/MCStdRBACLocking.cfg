CONSTANTS
    c1 = c1
    c2 = c2
    a = a
    b = b
    d = d
    ra = ra
    rb = rb
    rd = rd
    p = p
    WithCycle = TRUE
    MaxDepth = 4
    Client <- MCClient
    ID <- MCID
    Role <- MCRole
    IdOf <- MCIdOf
    Perm <- MCPerm
    Requests <- MCRequests
SYMMETRY MCSymmetry
SPECIFICATION Spec
INVARIANTS
    TypeOK
    OverflowOnlyOnCycle
    EditsExclude
PROPERTIES
    LinearizesCalls
\* A crashed program stops; whether a goroutine can be left waiting is the
\* question of the liveness run.
CHECK_DEADLOCK FALSE
