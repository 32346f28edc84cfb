CONSTANTS
    a = a
    b = b
    nobody = nobody
    ra = ra
    rb = rb
    rn = rn
    read = read
    readText = readText
    x = x
    y = y
    ID <- MCID
    Role <- MCRole
    IdOf <- MCIdOf
    Perm = {read, readText}
    Keys <- MCKeys
    Nobody = nobody
    ReadText = readText
    InputRoles <- MCInputRoles
    InputInher <- MCInputInher
    End = End
    Garbled = Garbled
    Missing = Missing
    MaxEdits = 1
    MaxFaults = 1
    Client = {x, y}
    Calls <- MCCalls
    None = None
    MaxFails = 1
SPECIFICATION Spec
SYMMETRY Symmetry
INVARIANTS
    ExamplesTypeOK
    SavedReadsBack
    RunKeepsEverything
    MixedPairLoads
    WrapperAgrees
