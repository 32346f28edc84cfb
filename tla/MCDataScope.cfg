CONSTANTS
    staff = staff
    team = team
    guest = guest
    rstaff = rstaff
    rteam = rteam
    rguest = rguest
    read = read
    list = list
    mine = mine
    open = open
    hidden = hidden
    owner = owner
    public = public
    late = late
    opening = opening
    closing = closing
    calling = calling
    unknown = unknown
    None = None
    Plain = Plain
    Perm = {read, list}
    ID <- MCID
    Role <- MCRole
    IdOf <- MCIdOf
    Row <- MCRow
    Atom <- MCAtom
    Inner <- MCInner
    Opens = {}
    Closes <- MCCloses
    Holds <- MCHolds
    Roots <- MCID
    Asks <- MCAsks
    Edits <- MCEdits
    Grants <- MCGrants
SPECIFICATION ScopeSpec
INVARIANTS
    ScopeTypeOK
    CheckExact
    AllGrantedWasGranted
    ScopeExact
    RowsWereAllowed
