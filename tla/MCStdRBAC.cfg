CONSTANTS
    c1 = c1
    a = a
    b = b
    d = d
    ra = ra
    ra2 = ra2
    rb = rb
    rd = rd
    p = p
    Client <- MCClient
    ID <- MCID
    Role <- MCRole
    IdOf <- MCIdOf
    Perm <- MCPerm
    Requests <- MCRequests
SYMMETRY MCSymmetry
SPECIFICATION Spec
INVARIANTS
    TypeOK
    NoDanglingParents
PROPERTIES
    ErrorsChangeNothing
    RemovalNarrows
    AddIsolated
    SetParentsExact
CHECK_DEADLOCK TRUE
