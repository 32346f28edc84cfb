CONSTANTS
    a = a
    b = b
    d = d
    e = e
    ra = ra
    re = re
    rb = rb
    rd = rd
    None = None
    Perm = {}
    ID <- MCID
    Role <- MCRole
    IdOf <- MCIdOf
    Roots = {d}
    Edits <- MCEdits
SPECIFICATION Spec
INVARIANTS
    TypeOK
    WalkComplete
    NotExistMeansRemoved
    CircleExact
    CircleWasLinked
    ClosureExact
PROPERTIES
    HelpersReturn
