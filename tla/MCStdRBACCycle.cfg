CONSTANTS
    c1 = c1
    c2 = c2
    a = a
    b = b
    d = d
    ra = ra
    rb = rb
    rd = rd
    p = p
    WithCycle = TRUE
    MaxDepth = 4
    Client <- MCClient
    ID <- MCID
    Role <- MCRole
    IdOf <- MCIdOf
    Perm <- MCPerm
    Requests <- MCRequests
SYMMETRY MCSymmetry
SPECIFICATION Spec
INVARIANT
    NeverCrashes
CHECK_DEADLOCK FALSE
