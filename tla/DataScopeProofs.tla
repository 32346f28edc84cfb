--------------------------- MODULE DataScopeProofs ---------------------------
(***************************************************************************)
(* What AllGranted and AnyGranted answer, and the rows that are selected,  *)
(* are right for every set of roles, permissions, filters and requests,    *)
(* whatever other goroutines do meanwhile.                                 *)
(***************************************************************************)
EXTENDS DataScope, HelpersProofs, FilterTextProofs

-----------------------------------------------------------------------------
(***************************************************************************)
(* The inductive invariant.                                                *)
(***************************************************************************)
\* A check is at one of its roles and permissions, and a search runs only
\* while the filters of a role are collected.
PhaseInv ==
    /\ phase \in {"idle", "checking", "scoping", "done"}
    /\ phase = "idle" => permAt = 1 /\ roleAt = 1 /\ missed = {}
    /\ phase # "idle" => ask \in Asks
    /\ phase = "checking" =>
          /\ ask.check \in {"AllGranted", "AnyGranted"}
          /\ ask.perms # <<>> => permAt \in 1 .. Len(ask.perms)
          /\ ask.roles # <<>> => roleAt \in 1 .. Len(ask.roles)
    /\ op # "none" => phase = "scoping" /\ ask.perms # <<>> /\ toRead = {}

\* The history has what is granted now, and AllGranted goes on to a permission
\* only when each one before it was granted to some role.
PassedInv ==
    /\ phase = "checking" =>
          /\ GrantedNow \subseteq granted
          /\ ask.check = "AllGranted" =>
                \A i \in 1 .. permAt - 1 : \E x \in Asking : <<x, ask.perms[i]>> \in granted
    /\ AllGrantedWasGranted

\* In an instance that is left alone, the permissions that the check has done
\* with are granted to a role (AllGranted) or to none (AnyGranted), the roles
\* it has done with are not granted the one it is at, and neither do the role
\* objects it has seen.
ExactInv ==
    still =>
        /\ phase = "checking" =>
              /\ \A i \in 1 .. permAt - 1 :
                    ask.check = "AllGranted" <=> \E x \in Asking : <<x, ask.perms[i]>> \in GrantedNow
              /\ \A j \in 1 .. roleAt - 1 : <<ask.roles[j], ask.perms[permAt]>> \notin GrantedNow
              /\ \A r \in missed : ask.perms[permAt] \notin perms[r]
        /\ CheckExact

ScopeIInv == PhaseInv /\ PassedInv /\ ExactInv
-----------------------------------------------------------------------------
(***************************************************************************)
(* What the steps change.                                                  *)
(***************************************************************************)
\* What GrantedNow holds.
LEMMA GrantedPair ==
    \A x, p : <<x, p>> \in GrantedNow <=> x \in Asking /\ p \in Required /\ p \in GrantSet(x)
BY DEF GrantedNow

\* A request has a list of roles and a list of permissions.
LEMMA AskKinds ==
    ASSUME ask \in Asks
    PROVE  /\ ask.roles \in Seq(ID) /\ ask.perms \in Seq(Perm)
           /\ DOMAIN ask.roles = 1 .. Len(ask.roles) /\ Len(ask.roles) \in Nat
           /\ DOMAIN ask.perms = 1 .. Len(ask.perms) /\ Len(ask.perms) \in Nat
BY DataScopeAssumption

\* The steps by which filters are collected and compiled.
Scope == ScopeNothing \/ SearchRole \/ SearchStep \/ SearchDone \/ ReadFilters \/ Compile

\* The steps, by what they are part of.
LEMMA ScopeCases ==
    ASSUME [Change \/ Request]_scopevars
    PROVE  \/ UNCHANGED scopevars
           \/ Change \/ Begin \/ End
           \/ CheckNothing \/ Miss \/ Grant \/ Deny \/ Scope
BY DEF Request, Scope

\* The rows of an answer are no denial.
LEMMA ProgramIsNoDenial ==
    /\ Status("error") # Status("denied")
    /\ Program # Status("denied")
<1>1. Status("error") # Status("denied")
    BY DEF Status
<1>2. \A s : Selected(s) # Status("denied")
    <2>1. \A s : DOMAIN Selected(s) = {"rows"}
        BY DEF Selected
    <2>2. DOMAIN Status("denied") = {"status"}
        BY DEF Status
    <2>3. "rows" # "status"
        OBVIOUS
    <2> QED
        BY <2>1, <2>2, <2>3
<1>3. (\E s : Program = Selected(s)) \/ Program = Status("error")
    <2> DEFINE extra == ExtraFilterCEL(ask.extra)
               rows == UNION { RowsWhere(exprs[i]) : i \in DOMAIN exprs }
    <2>1. Program = CASE exprs = <<>> -> Selected({})
                      [] \E i \in DOMAIN exprs : ~Compiles(exprs[i]) -> Status("error")
                      [] OTHER -> IF extra = Blank THEN Selected(rows)
                                  ELSE IF Compiles(extra) THEN Selected(rows \cap RowsWhere(extra))
                                  ELSE Status("error")
        BY DEF Program
    <2> HIDE DEF extra, rows
    <2> QED
        BY <2>1
<1> QED
    BY <1>1, <1>2, <1>3

\* Collecting filters leaves the instance, the request and its history alone.
LEMMA ScopeKeeps ==
    ASSUME PhaseInv, Scope
    PROVE  /\ UNCHANGED <<hvars, ask, still, loosened, granted, allowed, missed, permAt>>
           /\ phase = "scoping" /\ phase' \in {"scoping", "done"}
           /\ phase' = "done" => answer' # Status("denied") /\ op' = "none"
           /\ op' # "none" => ask.perms # <<>> /\ toRead' = {}
<1>1. CASE ScopeNothing
    BY <1>1, ProgramIsNoDenial DEF ScopeNothing, Reply, search, past, PhaseInv
<1>2. CASE SearchRole
    BY <1>2 DEF SearchRole, Scoping, Idle, Start, request, past
<1>3. CASE SearchStep
    <2>1. op = "closure" /\ UNCHANGED <<request, past>>
        BY <1>3 DEF SearchStep, Running
    <2>2. UNCHANGED <<hvars, op>>
        BY <1>3 DEF SearchStep, ClosureGet, ClosureExpand, Ascend, Complete, Fetch, Skip, Return, fixed
    <2> QED
        BY <2>1, <2>2 DEF request, past, PhaseInv
<1>4. CASE SearchDone
    BY <1>4 DEF SearchDone, Finish, past, PhaseInv
<1>5. CASE ReadFilters
    <2>1. /\ phase = "scoping" /\ toRead # {} /\ UNCHANGED <<hvars, search, still, loosened, granted, allowed>>
          /\ Reply(Status("error")) \/ UNCHANGED <<phase, ask, permAt, missed>>
        BY <1>5 DEF ReadFilters, Scoping
    <2>2. op = "none" /\ op' = "none"
        BY <2>1 DEF PhaseInv, search
    <2> QED
        BY <2>1, <2>2, ProgramIsNoDenial DEF Reply
<1>6. CASE Compile
    BY <1>6, ProgramIsNoDenial DEF Compile, Scoping, Idle, Reply, search, past
<1> QED
    BY <1>1, <1>2, <1>3, <1>4, <1>5, <1>6 DEF Scope

-----------------------------------------------------------------------------
\* The check stays within its lists.
LEMMA PhaseStep ==
    ASSUME PhaseInv, [Change \/ Request]_scopevars
    PROVE  PhaseInv'
<1>1. CASE UNCHANGED scopevars \/ Change
    <2>1. UNCHANGED <<op, request>>
        BY <1>1 DEF scopevars, search, Change
    <2> QED
        BY <2>1 DEF PhaseInv, request
<1>2. CASE Begin
    <2>1. ask' \in Asks /\ ask'.check \in {"AllGranted", "AnyGranted", "unchecked"}
        BY <1>2, DataScopeAssumption DEF Begin
    <2>2. ask'.roles \in Seq(ID) /\ ask'.perms \in Seq(Perm)
        BY <2>1, DataScopeAssumption
    <2>3. /\ ask'.roles # <<>> => 1 \in 1 .. Len(ask'.roles)
          /\ ask'.perms # <<>> => 1 \in 1 .. Len(ask'.perms)
        BY <2>2
    <2> QED
        BY <1>2, <2>1, <2>3 DEF Begin, PhaseInv, search
<1>3. CASE End
    BY <1>3 DEF End, PhaseInv, search
<1>4. ASSUME phase = "checking", UNCHANGED <<search, ask, toRead>>,
             \/ \E ok \in BOOLEAN : Conclude(ok)
             \/ UNCHANGED <<phase, permAt, roleAt>>
             \/ ~LastRole /\ ask.roles # <<>> /\ NextRole
             \/ ~LastPermission /\ ask.perms # <<>> /\ NextPermission
      PROVE  PhaseInv'
    <2>1. op = "none" /\ op' = "none" /\ ask \in Asks /\ ask' = ask
        BY <1>4 DEF PhaseInv, search
    <2>2. CASE \E ok \in BOOLEAN : Conclude(ok)
        <3>1. phase' \in {"scoping", "done"}
            BY <2>2 DEF Conclude
        <3> QED
            BY <2>1, <3>1 DEF PhaseInv
    <2>3. CASE UNCHANGED <<phase, permAt, roleAt>>
        BY <1>4, <2>1, <2>3 DEF PhaseInv
    <2>4. CASE ~LastRole /\ ask.roles # <<>> /\ NextRole
        <3>1. phase' = "checking" /\ permAt' = permAt /\ roleAt' = roleAt + 1
            BY <1>4, <2>4 DEF NextRole, Continue
        <3>2. roleAt \in 1 .. Len(ask.roles) /\ roleAt # Len(ask.roles) /\ Len(ask.roles) \in Nat
            BY <1>4, <2>1, <2>4, AskKinds DEF PhaseInv, LastRole
        <3>3. roleAt + 1 \in 1 .. Len(ask.roles)
            BY <3>2
        <3> QED
            BY <1>4, <2>1, <3>1, <3>3 DEF PhaseInv
    <2>5. CASE ~LastPermission /\ ask.perms # <<>> /\ NextPermission
        <3>1. phase' = "checking" /\ permAt' = permAt + 1 /\ roleAt' = 1
            BY <1>4, <2>5 DEF NextPermission, Continue
        <3>2. permAt \in 1 .. Len(ask.perms) /\ permAt # Len(ask.perms) /\ Len(ask.perms) \in Nat
            BY <1>4, <2>1, <2>5, AskKinds DEF PhaseInv, LastPermission
        <3>3. permAt + 1 \in 1 .. Len(ask.perms)
            BY <3>2
        <3>4. ask.roles # <<>> => 1 \in 1 .. Len(ask.roles)
            BY <2>1, AskKinds
        <3> QED
            BY <1>4, <2>1, <3>1, <3>3, <3>4 DEF PhaseInv
    <2> QED
        BY <1>4, <2>2, <2>3, <2>4, <2>5
<1>5. CASE CheckNothing
    BY <1>4, <1>5 DEF CheckNothing, Conclude
<1>6. CASE Miss
    BY <1>4, <1>6 DEF Miss, Checking
<1>7. CASE Grant
    BY <1>4, <1>7 DEF Grant, Checking, Conclude, NextPermission, Continue
<1>8. CASE Deny
    BY <1>4, <1>8 DEF Deny, Checking, Conclude, NextPermission, NextRole, Continue
<1>9. CASE Scope
    BY <1>9, ScopeKeeps DEF PhaseInv
<1> QED
    BY ScopeCases, <1>1, <1>2, <1>3, <1>5, <1>6, <1>7, <1>8, <1>9
-----------------------------------------------------------------------------
(***************************************************************************)
(* The steps of a check.                                                   *)
(***************************************************************************)
\* Where the check is, and what Required and Asking are.
LEMMA CheckAt ==
    ASSUME PhaseInv, Checking
    PROVE  /\ ask.check \in {"AllGranted", "AnyGranted"} /\ ask \in Asks
           /\ permAt \in 1 .. Len(ask.perms) /\ roleAt \in 1 .. Len(ask.roles)
           /\ Len(ask.perms) \in Nat /\ Len(ask.roles) \in Nat
           /\ ask.perms[permAt] \in Required /\ ask.roles[roleAt] \in Asking
           /\ \A p : p \in Required <=> \E i \in 1 .. Len(ask.perms) : p = ask.perms[i]
           /\ \A x : x \in Asking <=> \E j \in 1 .. Len(ask.roles) : x = ask.roles[j]
<1>1. ask.check \in {"AllGranted", "AnyGranted"} /\ ask \in Asks
      /\ permAt \in 1 .. Len(ask.perms) /\ roleAt \in 1 .. Len(ask.roles)
    BY DEF Checking, PhaseInv
<1> QED
    BY <1>1, AskKinds DEF Required, Asking

\* What is granted depends on the instance and the request.
LEMMA SameGranted ==
    ASSUME UNCHANGED <<hvars, ask>>
    PROVE  /\ GrantedNow' = GrantedNow /\ Asking' = Asking /\ Required' = Required
           /\ \A x : GrantSet(x)' = GrantSet(x)
BY DEF GrantedNow, GrantSet, Ancestors, Live, Asking, Required, hvars

\* A permission is passed when it is granted.
LEMMA PassedStep ==
    ASSUME PhaseInv, PassedInv, [Change \/ Request]_scopevars
    PROVE  PassedInv'
<1>1. CASE UNCHANGED scopevars
    <2>1. UNCHANGED <<hvars, request, granted>>
        BY <1>1 DEF scopevars, past
    <2> QED
        BY <2>1, SameGranted DEF PassedInv, AllGrantedWasGranted, request
<1>2. CASE Change
    <2>1. /\ UNCHANGED request /\ Asking' = Asking /\ Required' = Required
          /\ phase = "checking" => granted' = granted \cup GrantedNow'
          /\ phase = "scoping" => granted' = granted
        BY <1>2 DEF Change, request, Asking, Required, past
    <2> QED
        BY <2>1 DEF PassedInv, AllGrantedWasGranted, request
<1>3. CASE Begin
    <2>1. phase' = "checking" \/ (phase' = "scoping" /\ ask'.check = "unchecked")
        BY <1>3 DEF Begin
    <2>2. permAt' = 1 /\ granted' = GrantedNow'
        BY <1>3 DEF Begin, PhaseInv
    <2> QED
        BY <2>1, <2>2 DEF PassedInv, AllGrantedWasGranted
<1>4. CASE End
    BY <1>4 DEF End, PassedInv, AllGrantedWasGranted
<1>5. CASE CheckNothing
    BY <1>5 DEF CheckNothing, Conclude, PassedInv, AllGrantedWasGranted
<1>6. CASE Miss
    <2>1. UNCHANGED <<hvars, phase, ask, permAt, granted>>
        BY <1>6 DEF Miss, Checking, past
    <2> QED
        BY <2>1, SameGranted DEF PassedInv, AllGrantedWasGranted
<1>7. CASE Grant
    <2> DEFINE x == ask.roles[roleAt]
    <2>1. Checking /\ ask.perms[permAt] \in GrantSet(x) /\ UNCHANGED <<hvars, ask, granted>>
        BY <1>7 DEF Grant, Checking, Conclude, NextPermission, Continue, past
    <2>2. x \in Asking /\ <<x, ask.perms[permAt]>> \in granted
        BY <2>1, CheckAt, GrantedPair DEF PassedInv, Checking
    <2> HIDE DEF x
    <2>3. ask.check = "AllGranted" =>
             \A i \in 1 .. permAt : \E y \in Asking : <<y, ask.perms[i]>> \in granted
        <3>1. \A i \in 1 .. permAt : i \in 1 .. permAt - 1 \/ i = permAt
            BY <2>1, CheckAt
        <3> QED
            BY <2>1, <2>2, <3>1 DEF PassedInv, Checking
    <2>4. CASE (ask.check = "AnyGranted" \/ LastPermission) /\ Conclude(TRUE)
        <3>1. ask.check = "AllGranted" => \A p \in Required : \E y \in Asking : <<y, p>> \in granted
            <4>1. ask.check = "AllGranted" => permAt = Len(ask.perms)
                BY <2>4 DEF LastPermission
            <4> QED
                BY <2>1, <2>3, <4>1, CheckAt
        <3>2. phase' = "scoping"
            BY <2>4 DEF Conclude
        <3> QED
            BY <2>1, <3>1, <3>2, SameGranted DEF PassedInv, AllGrantedWasGranted
    <2>5. CASE ask.check = "AllGranted" /\ ~LastPermission /\ NextPermission
        <3>1. phase' = "checking" /\ permAt' = permAt + 1
            BY <2>1, <2>5 DEF NextPermission, Continue, Checking
        <3>2. permAt' - 1 = permAt
            BY <2>1, <3>1, CheckAt
        <3> QED
            BY <2>1, <2>3, <3>1, <3>2, SameGranted DEF PassedInv, AllGrantedWasGranted, Checking
    <2> QED
        BY <1>7, <2>4, <2>5 DEF Grant
<1>8. CASE Deny
    <2>1. Checking /\ UNCHANGED <<hvars, ask, granted>>
        BY <1>8 DEF Deny, Checking, Conclude, NextPermission, NextRole, Continue, past
    <2>2. CASE Conclude(FALSE)
        BY <2>2 DEF Conclude, PassedInv, AllGrantedWasGranted
    <2>3. CASE NextRole
        <3>1. phase' = "checking" /\ permAt' = permAt
            BY <2>1, <2>3 DEF NextRole, Continue, Checking
        <3> QED
            BY <2>1, <3>1, SameGranted DEF PassedInv, AllGrantedWasGranted, Checking
    <2>4. CASE ask.check = "AnyGranted" /\ NextPermission
        <3>1. phase' = "checking"
            BY <2>1, <2>4 DEF NextPermission, Continue, Checking
        <3> QED
            BY <2>1, <2>4, <3>1, SameGranted DEF PassedInv, AllGrantedWasGranted, Checking
    <2> QED
        BY <1>8, <2>2, <2>3, <2>4 DEF Deny
<1>9. CASE Scope
    <2>1. UNCHANGED <<hvars, ask, granted>> /\ phase = "scoping" /\ phase' \in {"scoping", "done"}
        BY <1>9, ScopeKeeps DEF past
    <2> QED
        BY <2>1, SameGranted DEF PassedInv, AllGrantedWasGranted
<1> QED
    BY ScopeCases, <1>1, <1>2, <1>3, <1>4, <1>5, <1>6, <1>7, <1>8, <1>9

-----------------------------------------------------------------------------
\* Some role of the request is granted p; what the check asks is granted.
Has(p) == \E x \in Asking : <<x, p>> \in GrantedNow
Good ==
    /\ Required # {}
    /\ \/ ask.check = "AllGranted" /\ \A p \in Required : Has(p)
       \/ ask.check = "AnyGranted" /\ \E p \in Required : Has(p)

\* CheckExact in these words.
LEMMA CheckParts ==
    CheckExact <=>
        ((still /\ ask.check # "unchecked" /\ phase \in {"scoping", "done"}) =>
            (Answered(Status("denied")) <=> ~Good))
BY DEF CheckExact, Good, Has

\* It depends on the instance and the request.
LEMMA SameGood ==
    ASSUME UNCHANGED <<hvars, ask>>
    PROVE  Good' = Good /\ \A p : Has(p)' = Has(p)
BY SameGranted DEF Good, Has

\* Left alone, a check is right about what it has done with.
LEMMA ExactStep ==
    ASSUME PhaseInv, ExactInv, [Change \/ Request]_scopevars
    PROVE  ExactInv'
<1> SUFFICES ASSUME still'
             PROVE  ExactInv'
    BY DEF ExactInv
<1>1. CASE UNCHANGED scopevars \/ Change
    <2>1. CASE phase = "idle"
        <3>1. phase' = "idle"
            BY <1>1, <2>1 DEF Change, scopevars, request
        <3> QED
            BY <3>1 DEF ExactInv, CheckExact
    <2>2. CASE phase # "idle"
        <3>1. still /\ UNCHANGED <<hvars, request>>
            BY <1>1, <2>2 DEF Change, scopevars, past
        <3> QED
            BY <3>1, SameGranted DEF ExactInv, CheckExact, Answered, request, hvars
    <2> QED
        BY <2>1, <2>2
<1>2. CASE Begin
    <2>1. CASE phase' = "scoping"
        <3>1. ask'.check = "unchecked"
            BY <1>2, <2>1 DEF Begin
        <3> QED
            BY <2>1, <3>1 DEF ExactInv, CheckExact
    <2>2. CASE phase' = "checking"
        <3>1. permAt' = 1 /\ roleAt' = 1 /\ missed' = {}
            BY <1>2 DEF Begin, PhaseInv
        <3> QED
            BY <2>2, <3>1 DEF ExactInv, CheckExact
    <2> QED
        BY <1>2, <2>1, <2>2 DEF Begin
<1>3. CASE End
    BY <1>3 DEF End, ExactInv, CheckExact
<1> DEFINE x == ask.roles[roleAt]
           p == ask.perms[permAt]
<1>4. ASSUME phase = "checking", UNCHANGED <<hvars, ask, still>>,
             \/ Conclude(FALSE) /\ ~Good
             \/ Conclude(TRUE) /\ Good
      PROVE  ExactInv'
    <2>1. phase' \in {"scoping", "done"} /\ Good' = Good
        BY <1>4, SameGood DEF Conclude
    <2>2. Answered(Status("denied"))' <=> ~Good
        BY <1>4 DEF Conclude, Answered
    <2>3. CheckExact'
        BY <2>1, <2>2 DEF CheckExact, Good, Has
    <2> QED
        BY <2>1, <2>3 DEF ExactInv
<1>5. CASE CheckNothing
    <2>1. ask \in Asks /\ phase = "checking" /\ Conclude(FALSE) /\ UNCHANGED <<hvars, ask, still>>
          /\ (ask.roles = <<>> \/ ask.perms = <<>>)
        BY <1>5 DEF CheckNothing, Conclude, PhaseInv
    <2>2. Asking = {} \/ Required = {}
        BY <2>1 DEF Asking, Required
    <2> QED
        BY <1>4, <2>1, <2>2 DEF Good, Has
<1>6. CASE Miss
    <2>1. UNCHANGED <<hvars, phase, ask, permAt, roleAt, still>> /\ phase = "checking"
          /\ \E r : missed' = missed \cup {r} /\ p \notin perms[r]
        BY <1>6 DEF Miss, Checking, past
    <2>2. GrantedNow' = GrantedNow /\ Asking' = Asking /\ perms' = perms
        BY <2>1, SameGranted DEF hvars
    <2> QED
        BY <2>1, <2>2 DEF ExactInv, CheckExact
<1>7. ASSUME Grant \/ Deny
      PROVE  /\ Checking /\ phase = "checking" /\ still
             /\ UNCHANGED <<hvars, ask, still>>
             /\ GrantedNow' = GrantedNow /\ Asking' = Asking
    BY <1>7, SameGranted DEF Grant, Deny, Checking, Conclude, NextPermission, NextRole, Continue, past
\* The check goes on with the next permission.
<1>8. ASSUME Checking, still, UNCHANGED <<hvars, ask, still>>, NextPermission,
             ask.check = "AllGranted" <=> Has(p)
      PROVE  ExactInv'
    <2>1. phase' = "checking" /\ permAt' = permAt + 1 /\ roleAt' = 1 /\ missed' = {}
        BY <1>8 DEF NextPermission, Continue, Checking
    <2>2. \A i \in 1 .. permAt' - 1 : i \in 1 .. permAt - 1 \/ i = permAt
        BY <1>8, <2>1, CheckAt
    <2>3. \A i \in 1 .. permAt' - 1 : ask.check = "AllGranted" <=> \E y \in Asking : <<y, ask.perms[i]>> \in GrantedNow
        BY <1>8, <2>2 DEF ExactInv, Checking, Has
    <2> QED
        BY <1>8, <2>1, <2>3, SameGranted DEF ExactInv, CheckExact
<1>9. CASE Grant
    <2>1. p \in GrantSet(x) /\ Checking
        BY <1>9 DEF Grant
    <2>2. Has(p)
        BY <2>1, CheckAt, GrantedPair DEF Has
    <2>3. CASE (ask.check = "AnyGranted" \/ LastPermission) /\ Conclude(TRUE)
        <3>1. Required # {} /\ p \in Required /\ ask.check \in {"AllGranted", "AnyGranted"}
            BY <2>1, CheckAt
        <3>2. ASSUME ask.check = "AllGranted", NEW q \in Required
              PROVE  Has(q)
            <4>1. PICK i \in 1 .. Len(ask.perms) : q = ask.perms[i]
                BY <2>1, CheckAt
            <4>2. i \in 1 .. permAt - 1 \/ i = permAt
                BY <2>1, <2>3, <3>2, CheckAt DEF LastPermission
            <4> QED
                BY <1>7, <1>9, <2>2, <3>2, <4>1, <4>2 DEF ExactInv, Has
        <3>3. Good
            BY <2>2, <3>1, <3>2 DEF Good
        <3> QED
            BY <1>4, <1>7, <1>9, <2>3, <3>3
    <2>4. CASE ask.check = "AllGranted" /\ ~LastPermission /\ NextPermission
        BY <1>7, <1>8, <1>9, <2>2, <2>4
    <2> QED
        BY <1>9, <2>3, <2>4 DEF Grant
<1>10. CASE Deny
    <2>1. Checking /\ still /\ phase = "checking" /\ \A y \in Ancestors(x) : roles[y] \in missed
        BY <1>7, <1>10 DEF Deny
    <2>2. p \notin GrantSet(x)
        BY <2>1 DEF GrantSet, ExactInv
    <2>3. <<x, p>> \notin GrantedNow
        BY <2>2, GrantedPair
    <2> HIDE DEF x, p
    <2>4. \A j \in 1 .. roleAt : <<ask.roles[j], p>> \notin GrantedNow
        <3>1. \A j \in 1 .. roleAt : j \in 1 .. roleAt - 1 \/ j = roleAt
            BY <2>1, CheckAt
        <3> QED
            BY <2>1, <2>3, <3>1 DEF ExactInv, x, p
    <2>5. LastRole => ~Has(p)
        BY <2>1, <2>4, CheckAt DEF LastRole, Has
    <2>6. CASE ~LastRole /\ NextRole
        <3>1. phase' = "checking" /\ permAt' = permAt /\ roleAt' = roleAt + 1 /\ missed' = {}
            BY <2>1, <2>6 DEF NextRole, Continue
        <3>2. roleAt' - 1 = roleAt
            BY <2>1, <3>1, CheckAt
        <3> QED
            BY <1>7, <1>10, <2>1, <2>4, <3>1, <3>2 DEF ExactInv, CheckExact, p
    <2>7. CASE LastRole /\ ask.check = "AnyGranted" /\ ~LastPermission /\ NextPermission
        BY <1>7, <1>8, <1>10, <2>1, <2>5, <2>7 DEF p
    <2>8. CASE LastRole /\ (ask.check = "AllGranted" \/ LastPermission) /\ Conclude(FALSE)
        <3>1. p \in Required
            BY <2>1, CheckAt DEF p
        <3>2. ASSUME ask.check = "AnyGranted", NEW q \in Required
              PROVE  ~Has(q)
            <4>1. PICK i \in 1 .. Len(ask.perms) : q = ask.perms[i]
                BY <2>1, CheckAt
            <4>2. i \in 1 .. permAt - 1 \/ i = permAt
                BY <2>1, <2>8, <3>2, CheckAt DEF LastPermission
            <4>3. CASE i = permAt
                BY <2>5, <2>8, <4>1, <4>3 DEF p
            <4>4. CASE i \in 1 .. permAt - 1
                BY <2>1, <3>2, <4>1, <4>4 DEF ExactInv, Has
            <4> QED
                BY <4>2, <4>3, <4>4
        <3>3. ~Good
            BY <2>5, <2>8, <3>1, <3>2 DEF Good
        <3> QED
            BY <1>4, <1>7, <1>10, <2>8, <3>3
    <2> QED
        BY <1>10, <2>6, <2>7, <2>8 DEF Deny
<1>11. CASE Scope
    <2>1. UNCHANGED <<hvars, ask, still>> /\ phase = "scoping" /\ phase' \in {"scoping", "done"}
          /\ (phase' = "done" => answer' # Status("denied"))
        BY <1>11, ScopeKeeps DEF past
    <2>2. GrantedNow' = GrantedNow /\ Asking' = Asking /\ Required' = Required /\ Good' = Good
        BY <2>1, SameGranted, SameGood
    <2>3. CheckExact
        BY <2>1 DEF ExactInv
    <2>4. ask.check # "unchecked" => Good
        BY <2>1, <2>3, CheckParts DEF Answered
    <2>5. ~Answered(Status("denied"))'
        BY <2>1 DEF Answered
    <2>6. CheckExact'
        BY <2>1, <2>2, <2>4, <2>5 DEF CheckExact, Good, Has
    <2> QED
        BY <2>1, <2>6 DEF ExactInv
<1> QED
    BY ScopeCases, <1>1, <1>2, <1>3, <1>5, <1>6, <1>9, <1>10, <1>11

-----------------------------------------------------------------------------
(***************************************************************************)
(* The inductive invariant of what is selected.                            *)
(***************************************************************************)
\* The variables of a search hold values of their kinds.
SearchKinds ==
    /\ op \in {"none", "closure"} /\ root \in ID \cup {None}
    /\ ids \subseteq ID /\ seen \subseteq ID
    /\ Stack(frames)
    /\ held \in (ID \cup {None}) \X (Role \cup {None})
    /\ out \subseteq Role \X SUBSET ID
    /\ result \in {"running", "nil"}
    /\ begun \subseteq ID /\ gone \subseteq ID
    /\ linked \subseteq ID \X ID /\ lived \subseteq Role /\ quiet \in BOOLEAN

\* A search is for the role that the request is at, visits an id once, and has
\* an object for each id that it has visited; between two searches nothing is
\* left over.
VisitInv ==
    /\ op = "none" =>
          /\ result = "running" /\ ids = {} /\ frames = <<>> /\ seen = {}
          /\ held = Nothing /\ out = {}
    /\ op = "closure" => roleAt \in 1 .. Len(ask.roles) /\ root = ask.roles[roleAt]
    /\ result = "nil" => frames = <<>> /\ ids = {} /\ held = Nothing
    /\ \A i \in DOMAIN frames : frames[i].id \in seen
    /\ held # Nothing => held \in ID \X Role /\ IdOf[held[2]] = held[1] /\ held[1] \notin seen
    /\ seen = { IdOf[pair[1]] : pair \in out }

\* A role object has filters on permissions that it has.
FiltersInv ==
    /\ DOMAIN filters = Role
    /\ \A r \in Role : /\ DOMAIN filters[r] \subseteq perms[r]
                       /\ \A p \in DOMAIN filters[r] : filters[r][p] \in Expression

\* The variables of a request hold values of their kinds, and what is collected
\* for one role is gone when the next one is begun.
RequestInv ==
    /\ ask \in Asks \cup {NoAsk}
    /\ permAt \in 1 .. Len(ask.perms) + 1 /\ roleAt \in 1 .. Len(ask.roles) + 1
    /\ missed \subseteq Role /\ toRead \subseteq Role
    /\ variants \in [Perm -> Seq(Filters)] /\ exprs \in Seq(Filters)
    /\ answer \in [status : {"none", "denied", "error"}] \cup [rows : SUBSET Row]
    /\ toRead # {} => roleAt \in 1 .. Len(ask.roles) /\ phase \in {"scoping", "done"}
    /\ phase \in {"idle", "checking"} => exprs = <<>>
    /\ phase # "done" /\ toRead = {} => variants = NoVariants

KindsInv == HierarchyTypeOK /\ Consistent /\ SearchKinds /\ VisitInv /\ FiltersInv /\ RequestInv

\* What is allowed now is in the history, and what takes something away is a
\* change.
AllowedInv ==
    /\ still => ~loosened
    /\ phase = "scoping" => AllowedNow \subseteq allowed

\* The ids that a search has still to look at.
Waiting == ids \cup Lists(frames) \cup {held[1]}

\* All rows were allowed to role x by the filters on p at some moment.
AllWereAllowed(x, p) == \A row \in Row : <<x, p, row>> \in allowed

\* The roles were live and linked by links when the search visited its root.
\* It visits, or will, what it reached then; and where no filter was on a
\* permission then, all rows were allowed.
Snapshot(live, links) ==
    /\ root \in live \cap seen /\ live \subseteq Live
    /\ \A y \in live : Up(links, y) \subseteq Up(parents, y)
    /\ still => live = Live /\ links = parents
    /\ \A y \in seen \cap live : Up(links, y) \cap live \subseteq seen \cup Waiting
    /\ \A p \in Required :
          \/ AllWereAllowed(root, p)
          \/ \E y \in Reach(live, links, root) : p \in DOMAIN filters[roles[y]]

\* As long as nothing is taken away, what a search has visited and what it will
\* is inherited by its root, and the objects that it has are registered.
GrowingInv ==
    /\ seen \subseteq Ancestors(root)
    /\ Waiting \subseteq Ancestors(root) \cup {root, None}
    /\ held # Nothing => held[1] \in Live /\ held[2] = roles[held[1]]
    /\ \A pair \in out : pair[1] = roles[IdOf[pair[1]]]
    /\ seen = {} => /\ Waiting \subseteq {root, None}
                    /\ still /\ root \in Live => root \in Waiting
    /\ seen # {} => \E live, links : Snapshot(live, links)

ClosingInv == op = "closure" /\ ~loosened => GrowingInv

\* The filters of S on p.
FiltersIn(S, p) == { filters[r][p] : r \in { q \in S : p \in DOMAIN filters[q] } }

\* As long as nothing is taken away, the objects S still to be read belong to
\* the role x; where nothing has been found on a permission all rows were allowed,
\* unless something is still to be found; and what vs has of it was allowed.
Collected(x, S, vs) ==
    /\ S \subseteq { roles[y] : y \in Ancestors(x) }
    /\ \A p \in Required :
          /\ vs[p] = <<>> => AllWereAllowed(x, p) \/ \E r \in S : p \in DOMAIN filters[r]
          /\ \A i \in DOMAIN vs[p] : \A row \in Granting(vs[p][i]) : <<x, p, row>> \in allowed
    /\ still => \A p \in Perm : ToSet(vs[p]) \cup FiltersIn(S, p) = FiltersOn(x, p)

FoundInv ==
    phase = "scoping" /\ toRead # {} /\ ~loosened => Collected(ask.roles[roleAt], toRead, variants)

\* Text E selects what was allowed to one role on every permission.
Restricts(E) ==
    Compiles(E) /\ ~(misread /\ Len(ask.perms) > 1) =>
        \E x \in Asking : \A row \in RowsWhere(E) : \A p \in Required : <<x, p, row>> \in allowed

\* Text E means what the policy says of role x.
TextOf(E, x) ==
    /\ \A p \in Perm : Blank \notin FiltersOn(x, p)
    /\ Compiles(E) <=>
          \/ \E p \in Required : FiltersOn(x, p) = {False}
          \/ \A p \in Required : True \in FiltersOn(x, p) \/ \A f \in FiltersOn(x, p) : Compiles(f)
    /\ Compiles(E) /\ ~(misread /\ Len(ask.perms) > 1) =>
          RowsWhere(E) = { row \in Row : \A p \in Required : row \in AllowedRows(x, p) }

\* The texts are of the roles before the one that the request is at.
TextsInv ==
    phase = "scoping" =>
        /\ ~loosened => \A i \in DOMAIN exprs : Restricts(exprs[i])
        /\ still =>
              /\ \A j \in 1 .. roleAt - 1 :
                    ask.roles[j] \in Live => \E i \in DOMAIN exprs : TextOf(exprs[i], ask.roles[j])
              /\ \A i \in DOMAIN exprs :
                    \E j \in 1 .. roleAt - 1 : ask.roles[j] \in Live /\ TextOf(exprs[i], ask.roles[j])

RowsInv == AllowedInv /\ ClosingInv /\ FoundInv /\ TextsInv /\ ScopeExact /\ RowsWereAllowed
-----------------------------------------------------------------------------
(***************************************************************************)
(* The steps of a search, and what other goroutines do.                    *)
(***************************************************************************)
\* The steps of a search, one for each way through its code.
LEMMA SearchCases ==
    ASSUME SearchStep
    PROVE  /\ op = "closure" /\ result = "running"
           /\ UNCHANGED <<fixed, filters, request, past>>
           /\ \/ \E x : ClosureFetch(x) \/ ClosurePass(x)
              \/ ClosureVisit \/ ClosureLost \/ Ascend \/ Complete
<1>1. op = "closure" /\ result = "running" /\ UNCHANGED <<filters, request, past>>
    BY DEF SearchStep, Running
<1>2. UNCHANGED fixed
    BY DEF SearchStep, ClosureGet, ClosureExpand, Ascend, Complete, Fetch, Skip, Return
<1>3. ClosureGet => \E x : ClosureFetch(x) \/ ClosurePass(x)
    BY DEF ClosureGet, ClosureFetch, ClosurePass
<1>4. ClosureExpand => ClosureVisit \/ ClosureLost
    BY DEF ClosureExpand, ClosureVisit, ClosureLost, Known, Mark
<1> QED
    BY <1>1, <1>2, <1>3, <1>4 DEF SearchStep

\* What another goroutine does: it edits the hierarchy, or sets or revokes a
\* permission with its filter.
LEMMA ChangeCases ==
    ASSUME Change
    PROVE  /\ UNCHANGED <<search, request>> /\ phase # "done" /\ AnyEdit
           /\ \/ EditHierarchy /\ UNCHANGED <<filters, perms>>
              \/ \E r \in Role, p \in Perm, f \in Expression \cup {Plain} : AssignFilter(r, p, f)
              \/ \E r \in Role, p \in Perm : RevokeFilter(r, p)
<1>1. UNCHANGED <<search, request>> /\ phase # "done"
    BY DEF Change
<1>2. CASE EditHierarchy /\ UNCHANGED filters
    <2>1. UNCHANGED perms
        BY <1>2 DEF EditHierarchy, AddRole, RemoveRole, BindParents, UnbindParents
    <2> QED
        BY <1>1, <1>2, <2>1, EditIsOne
<1>3. ASSUME NEW g \in Grants, g.op = "Assign", AssignFilter(g.role, g.perm, g.filter)
      PROVE  AnyEdit /\ \E r \in Role, p \in Perm, f \in Expression \cup {Plain} : AssignFilter(r, p, f)
    <2>1. g.role \in Role /\ g.perm \in Perm /\ g.filter \in Expression \cup {Plain}
        BY <1>3, DataScopeAssumption
    <2>2. {g.perm} \in SUBSET Perm /\ AssignPerms(g.role, {g.perm})
        BY <1>3, <2>1 DEF AssignFilter
    <2> QED
        BY <1>3, <2>1, <2>2 DEF AnyEdit
<1>4. ASSUME NEW g \in Grants, g.op = "Revoke", RevokeFilter(g.role, g.perm)
      PROVE  AnyEdit /\ \E r \in Role, p \in Perm : RevokeFilter(r, p)
    <2>1. g.role \in Role /\ g.perm \in Perm
        BY <1>4, DataScopeAssumption
    <2>2. {g.perm} \in SUBSET Perm /\ RevokePerms(g.role, {g.perm})
        BY <1>4, <2>1 DEF RevokeFilter
    <2> QED
        BY <1>4, <2>1, <2>2 DEF AnyEdit
<1> QED
    BY <1>1, <1>2, <1>3, <1>4 DEF Change

\* The steps of a request leave the instance and its filters alone.
LEMMA RequestKeeps ==
    ASSUME Request
    PROVE  UNCHANGED <<hvars, filters>>
<1>1. CASE SearchStep
    BY <1>1, SearchCases DEF fixed
<1>2. CASE Begin \/ End
    BY <1>2 DEF Begin, End
<1>3. CASE CheckNothing \/ Miss \/ Grant \/ Deny
    BY <1>3 DEF CheckNothing, Miss, Grant, Deny, Checking
<1>4. CASE ScopeNothing \/ SearchRole \/ SearchDone \/ ReadFilters \/ Compile
    BY <1>4 DEF ScopeNothing, SearchRole, Start, SearchDone, Finish, ReadFilters, Compile
<1> QED
    BY <1>1, <1>2, <1>3, <1>4 DEF Request

\* A filter that is set or forgotten is one on a permission of its role object.
LEMMA FiltersStep ==
    ASSUME HierarchyTypeOK, FiltersInv, [Change \/ Request]_scopevars
    PROVE  FiltersInv'
<1>1. CASE UNCHANGED <<filters, perms>>
    BY <1>1 DEF FiltersInv
<1>2. ASSUME NEW r \in Role, NEW p \in Perm, NEW f \in Expression \cup {Plain}, AssignFilter(r, p, f)
      PROVE  FiltersInv'
    <2> DEFINE D == IF f = Plain THEN DOMAIN filters[r] \ {p} ELSE DOMAIN filters[r] \cup {p}
               G == [x \in D |-> IF x = p THEN f ELSE filters[r][x]]
    <2>1. filters' = [filters EXCEPT ![r] = G]
        BY <1>2 DEF AssignFilter
    <2>2. perms' = [perms EXCEPT ![r] = @ \cup {p}] /\ DOMAIN perms = Role
        BY <1>2 DEF AssignFilter, AssignPerms, HierarchyTypeOK
    <2>3. D \subseteq perms[r] \cup {p}
        BY DEF FiltersInv
    <2>4. \A x \in D : G[x] \in Expression
        BY <1>2 DEF FiltersInv
    <2>5. DOMAIN G = D
        OBVIOUS
    <2> HIDE DEF D, G
    <2> QED
        BY <2>1, <2>2, <2>3, <2>4, <2>5 DEF FiltersInv
<1>3. ASSUME NEW r \in Role, NEW p \in Perm, RevokeFilter(r, p)
      PROVE  FiltersInv'
    <2> DEFINE G == [x \in DOMAIN filters[r] \ {p} |-> filters[r][x]]
    <2>1. filters' = [filters EXCEPT ![r] = G]
        BY <1>3 DEF RevokeFilter
    <2>2. perms' = [perms EXCEPT ![r] = @ \ {p}] /\ DOMAIN perms = Role
        BY <1>3 DEF RevokeFilter, RevokePerms, HierarchyTypeOK
    <2>3. DOMAIN G \subseteq perms[r] \ {p} /\ \A x \in DOMAIN G : G[x] \in Expression
        BY DEF FiltersInv
    <2> HIDE DEF G
    <2> QED
        BY <2>1, <2>2, <2>3 DEF FiltersInv
<1> QED
    BY <1>1, <1>2, <1>3, ChangeCases, RequestKeeps DEF scopevars, hvars
\* Every step keeps the variables of the search, with what they say of it.
LEMMA SearchInvStep ==
    ASSUME HierarchyTypeOK, Consistent, PhaseInv, SearchKinds, VisitInv, RequestInv,
           [Change \/ Request]_scopevars
    PROVE  SearchKinds' /\ VisitInv'
<1>1. ASSUME UNCHANGED search, op = "none" \/ UNCHANGED <<ask, roleAt>>
      PROVE  SearchKinds' /\ VisitInv'
    <2>1. UNCHANGED <<op, root, ids, frames, seen, held, out, result, begun, gone, linked, lived, quiet>>
        BY <1>1 DEF search, history
    <2>2. SearchKinds'
        BY <2>1 DEF SearchKinds, Stack
    <2>3. VisitInv'
        BY <1>1, <2>1 DEF VisitInv
    <2> QED
        BY <2>2, <2>3
<1>2. CASE UNCHANGED scopevars \/ Change
    BY <1>1, <1>2, ChangeCases DEF scopevars, request
<1>3. CASE Begin \/ End \/ CheckNothing \/ Miss \/ Grant \/ Deny
    <2>1. UNCHANGED search /\ phase \in {"idle", "done", "checking"}
        BY <1>3 DEF Begin, End, CheckNothing, Miss, Grant, Deny, Checking
    <2>2. op = "none"
        BY <2>1 DEF PhaseInv, SearchKinds
    <2> QED
        BY <1>1, <2>1, <2>2
<1>4. CASE ScopeNothing \/ ReadFilters \/ Compile
    <2>1. UNCHANGED search /\ (ask.perms = <<>> \/ toRead # {} \/ op = "none")
        BY <1>4 DEF ScopeNothing, ReadFilters, Compile, Idle
    <2>2. op = "none"
        BY <2>1 DEF PhaseInv, SearchKinds
    <2> QED
        BY <1>1, <2>1, <2>2
<1>5. CASE SearchRole
    <2> DEFINE x == ask.roles[roleAt]
    <2>1. phase = "scoping" /\ op = "none" /\ Start("closure", x) /\ roleAt <= Len(ask.roles)
          /\ UNCHANGED <<ask, roleAt>>
        BY <1>5 DEF SearchRole, Scoping, Idle, request
    <2>2. ask \in Asks
        BY <2>1 DEF PhaseInv
    <2>3. roleAt \in 1 .. Len(ask.roles) /\ x \in ID
        BY <2>1, <2>2, AskKinds DEF RequestInv
    <2>4. /\ op' = "closure" /\ root' = x /\ ids' = {x}
          /\ begun' = Live /\ linked' = Links /\ lived' = Objects
          /\ UNCHANGED <<hvars, gone, quiet, frames, seen, held, out, result>>
        BY <2>1 DEF Start
    <2>5. Live \subseteq ID /\ Links \subseteq ID \X ID /\ Objects \subseteq Role
        BY DEF HierarchyTypeOK, Links, Objects
    <2> HIDE DEF x
    <2>6. SearchKinds'
        BY <2>3, <2>4, <2>5 DEF SearchKinds, Stack
    <2>7. VisitInv'
        BY <2>1, <2>3, <2>4 DEF VisitInv, x
    <2> QED
        BY <2>6, <2>7
<1>6. CASE SearchDone
    <2>1. /\ op' = "none" /\ root' = None /\ result' = "running"
          /\ ids' = {} /\ frames' = <<>> /\ seen' = {} /\ held' = Nothing /\ out' = {}
          /\ begun' = {} /\ gone' = {} /\ linked' = {} /\ lived' = {} /\ quiet' = TRUE
        BY <1>6 DEF SearchDone, Finish
    <2>2. SearchKinds'
        BY <2>1 DEF SearchKinds, Stack, Nothing
    <2>3. VisitInv'
        BY <2>1 DEF VisitInv
    <2> QED
        BY <2>2, <2>3
<1>7. CASE SearchStep
    <2>1. /\ op = "closure" /\ result = "running"
          /\ UNCHANGED <<op, root, ask, roleAt, begun, gone, linked, lived, quiet>>
        BY <1>7, SearchCases DEF fixed, history, request
    <2>2. Stack(frames) /\ ids \subseteq ID
        BY DEF SearchKinds
    <2>3. /\ frames \in Seq(Frame) /\ DOMAIN frames = 1 .. Len(frames) /\ Len(frames) \in Nat
        BY <2>2 DEF Stack
    \* It is enough to show what the step does to the variables of the search.
    <2>4. ASSUME Stack(frames'), ids' \subseteq ID, seen' \subseteq ID, out' \subseteq Role \X SUBSET ID,
                 held' \in (ID \cup {None}) \X (Role \cup {None}), result' \in {"running", "nil"},
                 result' = "nil" => frames' = <<>> /\ ids' = {} /\ held' = Nothing,
                 \A i \in DOMAIN frames' : frames'[i].id \in seen',
                 held' # Nothing => held' \in ID \X Role /\ IdOf[held'[2]] = held'[1] /\ held'[1] \notin seen',
                 seen' = { IdOf[pair[1]] : pair \in out' }
          PROVE  SearchKinds' /\ VisitInv'
        <3>1. SearchKinds'
            BY <2>1, <2>4 DEF SearchKinds, Stack
        <3>2. VisitInv'
            BY <2>1, <2>4 DEF VisitInv
        <3> QED
            BY <3>1, <3>2
    <2>5. ASSUME NEW x, Take(x)
          PROVE  /\ Stack(FramesWithout(x)) /\ ids' \subseteq ID /\ x \in ID
                 /\ \A i \in DOMAIN FramesWithout(x) : FramesWithout(x)[i].id \in seen
        <3>1. ids' \subseteq ID /\ x \in ID
            BY <2>2, <2>5, TakeKinds
        <3>2. Stack(FramesWithout(x))
            BY <2>2, StackSteps
        <3>3. DOMAIN FramesWithout(x) = DOMAIN frames
              /\ \A i \in DOMAIN frames : FramesWithout(x)[i].id = frames[i].id
            BY <2>2, <2>3, <2>5, TakenFrom, TakenLists
        <3>4. \A i \in DOMAIN frames : frames[i].id \in seen
            BY DEF VisitInv
        <3> QED
            BY <3>1, <3>2, <3>3, <3>4
    <2>6. ASSUME NEW x, ClosureFetch(x)
          PROVE  SearchKinds' /\ VisitInv'
        <3>1. /\ Take(x) /\ x \in Live \ seen /\ held' = <<x, roles[x]>>
              /\ frames' = FramesWithout(x) /\ UNCHANGED <<seen, out, result>>
            BY <2>6 DEF ClosureFetch, Fetch
        <3>2. roles[x] \in Role /\ IdOf[roles[x]] = x
            BY <3>1 DEF HierarchyTypeOK, Consistent
        <3>3. x \in ID
            BY <3>1, <2>5
        <3> QED
            BY <2>1, <2>4, <2>5, <3>1, <3>2, <3>3 DEF SearchKinds, VisitInv
    <2>7. ASSUME NEW x, ClosurePass(x)
          PROVE  SearchKinds' /\ VisitInv'
        <3>1. /\ Take(x) /\ frames' = FramesWithout(x) /\ held = Nothing
              /\ UNCHANGED <<held, seen, out, result>>
            BY <2>7 DEF ClosurePass, Skip
        <3> QED
            BY <2>1, <2>4, <2>5, <3>1 DEF SearchKinds, VisitInv
    <2>8. CASE ClosureVisit
        <3> DEFINE x == held[1]
        <3>1. /\ held # Nothing /\ held' = Nothing
              /\ seen' = seen \cup {x} /\ out' = out \cup {<<held[2], Up(parents, x)>>}
              /\ frames' = Searching(x) \o frames /\ UNCHANGED <<ids, result>>
            BY <2>8 DEF ClosureVisit
        <3>2. held \in ID \X Role /\ IdOf[held[2]] = x /\ x \notin seen /\ x \in ID /\ held[2] \in Role
            BY <3>1 DEF VisitInv
        <3>3. Up(parents, x) \in SUBSET ID
            BY ParentsAreIDs
        <3>4. \A i \in DOMAIN frames : frames[i].id \in seen
            BY DEF VisitInv
        <3>5. ~OnStack(x)
            BY <3>2, <3>4 DEF OnStack
        <3>6. Stack(Searching(x) \o frames)
            BY <2>2, <3>2, <3>5, StackSteps
        <3> DEFINE f == [id |-> x, todo |-> Up(parents, x)]
        <3>7. f \in Frame /\ f.id = x
            BY <3>2, <3>3 DEF Frame
        <3>8. frames' = <<f>> \o frames
            BY <3>1 DEF Searching
        <3> HIDE DEF f, x
        <3>9. /\ frames' \in Seq(Frame) /\ Len(frames') = Len(frames) + 1 /\ frames'[1] = f
              /\ \A i \in 1 .. Len(frames) : frames'[i+1] = frames[i]
            BY <2>3, <3>7, <3>8, Pushed
        <3>10. \A i \in DOMAIN frames' : frames'[i].id \in seen'
            <4> SUFFICES ASSUME NEW i \in DOMAIN frames'
                         PROVE  frames'[i].id \in seen'
                OBVIOUS
            <4>1. i \in 1 .. Len(frames) + 1
                BY <2>3, <3>9
            <4>2. CASE i = 1
                BY <3>1, <3>7, <3>9, <4>2
            <4>3. CASE i # 1
                <5>1. i - 1 \in DOMAIN frames /\ (i - 1) + 1 = i
                    BY <2>3, <4>1, <4>3
                <5>2. frames'[i] = frames[i-1]
                    BY <2>3, <3>9, <5>1
                <5> QED
                    BY <3>1, <3>4, <5>1, <5>2
            <4> QED
                BY <4>2, <4>3
        <3>11. seen' = { IdOf[pair[1]] : pair \in out' }
            <4> DEFINE new == <<held[2], Up(parents, x)>>
            <4>1. seen = { IdOf[pair[1]] : pair \in out }
                BY DEF VisitInv
            <4>2. new[1] = held[2] /\ out' = out \cup {new}
                BY <3>1
            <4> HIDE DEF new
            <4>3. IdOf[new[1]] = x
                BY <3>2, <4>2
            <4> QED
                BY <3>1, <4>1, <4>2, <4>3
        <3>12. seen' \subseteq ID /\ out' \subseteq Role \X SUBSET ID /\ ids' \subseteq ID
               /\ held' \in (ID \cup {None}) \X (Role \cup {None}) /\ result' = "running" /\ Stack(frames')
            BY <2>1, <3>1, <3>2, <3>3, <3>6 DEF SearchKinds, Nothing
        <3> QED
            BY <2>4, <3>1, <3>10, <3>11, <3>12
    <2>9. CASE ClosureLost
        <3>1. held' = Nothing /\ UNCHANGED <<ids, result, seen, out, frames>>
            BY <2>9 DEF ClosureLost
        <3> QED
            BY <2>1, <2>4, <3>1 DEF SearchKinds, VisitInv, Nothing
    <2>10. CASE Ascend
        <3>1. frames # <<>> /\ frames' = Tail(frames) /\ UNCHANGED <<ids, seen, held, out, result>>
            BY <2>10 DEF Ascend
        <3>2. Stack(Tail(frames))
            BY <2>2, <3>1, StackSteps
        <3>3. /\ Tail(frames) \in Seq(Frame) /\ Len(Tail(frames)) = Len(frames) - 1
              /\ \A i \in 1 .. Len(frames) - 1 : Tail(frames)[i] = frames[i+1]
            BY <2>3, <3>1, Popped
        <3>4. \A i \in DOMAIN Tail(frames) : Tail(frames)[i].id \in seen
            <4> SUFFICES ASSUME NEW i \in DOMAIN Tail(frames)
                         PROVE  Tail(frames)[i].id \in seen
                OBVIOUS
            <4>1. i \in 1 .. Len(frames) - 1 /\ i + 1 \in DOMAIN frames
                BY <2>3, <3>3
            <4> QED
                BY <3>3, <4>1 DEF VisitInv
        <3> QED
            BY <2>1, <2>4, <3>1, <3>2, <3>4 DEF SearchKinds, VisitInv
    <2>11. CASE Complete
        <3>1. held = Nothing /\ frames = <<>> /\ ids = {} /\ result' = "nil"
              /\ UNCHANGED <<held, frames, ids, seen, out>>
            BY <2>11 DEF Complete, Return
        <3> QED
            BY <2>1, <2>2, <2>4, <3>1 DEF SearchKinds, VisitInv
    <2> QED
        BY <1>7, <2>6, <2>7, <2>8, <2>9, <2>10, <2>11, SearchCases
<1> QED
    BY ScopeCases, <1>2, <1>3, <1>4, <1>5, <1>6, <1>7 DEF Scope
-----------------------------------------------------------------------------
(***************************************************************************)
(* The variables of the request.                                           *)
(***************************************************************************)
\* What is found once r is read, when none of its filters is blank.
LEMMA FoundKinds ==
    ASSUME FiltersInv, NEW r \in Role, ~Refused(r), variants \in [Perm -> Seq(Filters)]
    PROVE  /\ Found(r) \in [Perm -> Seq(Filters)]
           /\ \A p \in Perm :
                 Found(r)[p] = IF p \in DOMAIN filters[r] THEN Append(variants[p], filters[r][p]) ELSE variants[p]
<1>1. \A p \in DOMAIN filters[r] : filters[r][p] \in Filters
    BY DEF FiltersInv, Refused, Filters
<1>2. \A p \in Perm : variants[p] \in Seq(Filters)
    OBVIOUS
<1>3. \A p \in Perm : p \in DOMAIN filters[r] => Append(variants[p], filters[r][p]) \in Seq(Filters)
    BY <1>1, <1>2
<1> QED
    BY <1>2, <1>3 DEF Found

\* The text of a role.
LEMMA RoleTextKinds ==
    ASSUME NEW vs \in [Perm -> Seq(Filters)], ask \in Asks
    PROVE  BuildSingleRoleExpr(vs, ask.perms) \in Filters
BY AskKinds, RoleTextMeans

\* What the compiled program selects are rows.
LEMMA ProgramKinds ==
    ASSUME exprs \in Seq(Filters)
    PROVE  Program \in [status : {"none", "denied", "error"}] \cup [rows : SUBSET Row]
<1> DEFINE extra == ExtraFilterCEL(ask.extra)
           rows == UNION { RowsWhere(exprs[i]) : i \in DOMAIN exprs }
<1>1. rows \subseteq Row
    <2>1. \A i \in DOMAIN exprs : exprs[i] \in Seq(Token)
        BY DEF Filters, Expression
    <2> QED
        BY <2>1, MeansRows
<1>2. Program = CASE exprs = <<>> -> Selected({})
                  [] \E i \in DOMAIN exprs : ~Compiles(exprs[i]) -> Status("error")
                  [] OTHER -> IF extra = Blank THEN Selected(rows)
                              ELSE IF Compiles(extra) THEN Selected(rows \cap RowsWhere(extra))
                              ELSE Status("error")
    BY DEF Program
<1> HIDE DEF extra, rows
<1>3. \A s : s \subseteq Row => Selected(s) \in [rows : SUBSET Row]
    BY DEF Selected
<1>4. Status("error") \in [status : {"none", "denied", "error"}]
    BY DEF Status
<1>5. Program \in {Selected({}), Selected(rows), Selected(rows \cap RowsWhere(extra)), Status("error")}
    BY <1>2
<1> QED
    BY <1>1, <1>3, <1>4, <1>5

\* Every step keeps the variables of the request.
LEMMA RequestInvStep ==
    ASSUME HierarchyTypeOK, PhaseInv, SearchKinds, VisitInv, FiltersInv, RequestInv,
           [Change \/ Request]_scopevars
    PROVE  RequestInv'
<1>1. CASE UNCHANGED request
    BY <1>1 DEF request, RequestInv
<1>2. CASE Begin
    <2>1. /\ ask' \in Asks /\ phase = "idle" /\ phase' \in {"scoping", "checking"}
          /\ UNCHANGED <<permAt, roleAt, missed, toRead, variants, exprs, answer>>
        BY <1>2 DEF Begin
    <2>2. permAt = 1 /\ roleAt = 1 /\ toRead = {} /\ exprs = <<>> /\ variants = NoVariants
        BY <2>1 DEF PhaseInv, RequestInv
    <2>3. Len(ask'.perms) \in Nat /\ Len(ask'.roles) \in Nat
        BY <2>1, DataScopeAssumption
    <2>4. 1 \in 1 .. Len(ask'.perms) + 1 /\ 1 \in 1 .. Len(ask'.roles) + 1
        BY <2>3
    <2> QED
        BY <2>1, <2>2, <2>4 DEF RequestInv, NoVariants
<1>3. CASE End
    <2>1. /\ phase' = "idle" /\ ask' = NoAsk /\ permAt' = 1 /\ roleAt' = 1
          /\ missed' = {} /\ toRead' = {} /\ variants' = NoVariants /\ exprs' = <<>>
          /\ answer' = Status("none")
        BY <1>3 DEF End
    <2>2. ask'.perms = <<>> /\ ask'.roles = <<>>
        BY <2>1 DEF NoAsk
    <2>3. NoVariants \in [Perm -> Seq(Filters)]
        BY DEF NoVariants
    <2>4. Status("none") \in [status : {"none", "denied", "error"}]
        BY DEF Status
    <2> QED
        BY <2>1, <2>2, <2>3, <2>4 DEF RequestInv, NoVariants
<1>4. ASSUME phase = "checking", UNCHANGED <<ask, toRead, variants, exprs>>, missed' \subseteq Role,
             \/ \E ok \in BOOLEAN : Conclude(ok)
             \/ UNCHANGED <<phase, permAt, roleAt, answer>>
             \/ ~LastRole /\ ask.roles # <<>> /\ NextRole
             \/ ~LastPermission /\ ask.perms # <<>> /\ NextPermission
      PROVE  RequestInv'
    <2>1. toRead = {} /\ exprs = <<>> /\ variants = NoVariants /\ ask \in Asks
        BY <1>4 DEF RequestInv, PhaseInv
    <2>2. Len(ask.perms) \in Nat /\ Len(ask.roles) \in Nat
        BY <2>1, AskKinds
    <2>3. permAt \in 1 .. Len(ask.perms) + 1 /\ roleAt \in 1 .. Len(ask.roles) + 1
        BY DEF RequestInv
    <2>4. permAt' \in 1 .. Len(ask.perms) + 1 /\ roleAt' \in 1 .. Len(ask.roles) + 1
        <3>1. CASE \E ok \in BOOLEAN : Conclude(ok)
            BY <2>2, <3>1 DEF Conclude
        <3>2. CASE UNCHANGED <<phase, permAt, roleAt, answer>>
            BY <2>3, <3>2
        <3>3. CASE ~LastRole /\ ask.roles # <<>> /\ NextRole
            <4>1. roleAt \in 1 .. Len(ask.roles) /\ roleAt' = roleAt + 1 /\ permAt' = permAt
                BY <1>4, <3>3 DEF PhaseInv, NextRole, Continue
            <4> QED
                BY <2>2, <2>3, <4>1
        <3>4. CASE ~LastPermission /\ ask.perms # <<>> /\ NextPermission
            <4>1. permAt \in 1 .. Len(ask.perms) /\ roleAt' = 1 /\ permAt' = permAt + 1
                BY <1>4, <3>4 DEF PhaseInv, NextPermission, Continue
            <4> QED
                BY <2>2, <2>3, <4>1
        <3> QED
            BY <1>4, <3>1, <3>2, <3>3, <3>4
    <2>5. answer' \in {answer, Status("denied")}
        BY <1>4 DEF Conclude, NextRole, NextPermission, Continue
    <2>6. Status("denied") \in [status : {"none", "denied", "error"}]
        BY DEF Status
    <2>7. answer' \in [status : {"none", "denied", "error"}] \cup [rows : SUBSET Row]
        BY <2>5, <2>6 DEF RequestInv
    <2> QED
        BY <1>4, <2>1, <2>4, <2>7 DEF RequestInv, NoVariants
<1>5. CASE CheckNothing
    BY <1>4, <1>5 DEF CheckNothing, Conclude
<1>6. CASE Miss
    <2>1. missed' \subseteq Role /\ phase = "checking" /\ UNCHANGED <<phase, ask, permAt, roleAt, toRead, variants, exprs, answer>>
        <3>1. PICK r \in { roles[y] : y \in Ancestors(ask.roles[roleAt]) } : ask.perms[permAt] \notin perms[r] /\ missed' = missed \cup {r}
            BY <1>6 DEF Miss
        <3>2. r \in Role
            <4>1. PICK y \in Ancestors(ask.roles[roleAt]) : r = roles[y]
                BY <3>1
            <4>2. y \in Live
                BY <4>1, ReachSelf DEF Ancestors
            <4> QED
                BY <4>1, <4>2 DEF HierarchyTypeOK
        <3>3. missed \subseteq Role
            BY DEF RequestInv
        <3> QED
            BY <1>6, <3>1, <3>2, <3>3 DEF Miss, Checking
    <2> QED
        BY <1>4, <2>1
<1>7. CASE Grant
    BY <1>4, <1>7 DEF Grant, Checking, Conclude, NextPermission, Continue
<1>8. CASE Deny
    BY <1>4, <1>8 DEF Deny, Checking, Conclude, NextPermission, NextRole, Continue
<1>9. ASSUME NEW a, Reply(a), a \in [status : {"none", "denied", "error"}] \cup [rows : SUBSET Row]
      PROVE  RequestInv'
    <2>1. phase' = "done" /\ answer' = a
          /\ UNCHANGED <<ask, permAt, roleAt, missed, toRead, variants, exprs>>
        BY <1>9 DEF Reply
    <2> QED
        BY <1>9, <2>1 DEF RequestInv
<1>10. Status("error") \in [status : {"none", "denied", "error"}] \cup [rows : SUBSET Row]
    BY DEF Status
<1>11. CASE ScopeNothing
    BY <1>9, <1>10, <1>11 DEF ScopeNothing
<1>12. CASE SearchDone
    <2>1. /\ op = "closure" /\ toRead' = Closure /\ roleAt' = IF out = {} THEN roleAt + 1 ELSE roleAt
          /\ UNCHANGED <<phase, ask, permAt, missed, variants, exprs, answer>>
        BY <1>12 DEF SearchDone
    <2>2. phase = "scoping" /\ toRead = {} /\ variants = NoVariants /\ roleAt \in 1 .. Len(ask.roles)
        BY <2>1 DEF PhaseInv, RequestInv, VisitInv
    <2>3. Closure \subseteq Role /\ (out = {} => Closure = {})
        BY DEF Closure, SearchKinds
    <2>4. roleAt' \in 1 .. Len(ask.roles) + 1
        <3>1. ask \in Asks
            BY <2>2 DEF PhaseInv
        <3>2. Len(ask.roles) \in Nat
            BY <3>1, AskKinds
        <3> QED
            BY <2>1, <2>2, <3>2
    <2> QED
        BY <2>1, <2>2, <2>3, <2>4 DEF RequestInv
<1>13. CASE ReadFilters
    <2>1. phase = "scoping" /\ ask \in Asks /\ toRead # {} /\ roleAt \in 1 .. Len(ask.roles)
        BY <1>13 DEF ReadFilters, Scoping, PhaseInv, RequestInv
    <2>2. Len(ask.roles) \in Nat
        BY <2>1, AskKinds
    <2>3. CASE Reply(Status("error"))
        BY <1>9, <1>10, <2>3
    <2>4. ASSUME NEW r \in toRead, ~Refused(r), toRead # {r},
                 toRead' = toRead \ {r}, variants' = Found(r),
                 UNCHANGED <<phase, ask, permAt, roleAt, missed, exprs, answer>>
          PROVE  RequestInv'
        <3>1. r \in Role /\ variants \in [Perm -> Seq(Filters)]
            BY <2>4 DEF RequestInv
        <3>2. variants' \in [Perm -> Seq(Filters)]
            BY <2>4, <3>1, FoundKinds
        <3>3. toRead' # {}
            BY <2>4
        <3> QED
            BY <2>1, <2>4, <3>2, <3>3 DEF RequestInv
    <2>5. ASSUME NEW r \in toRead, ~Refused(r), toRead' = {}, variants' = NoVariants,
                 exprs' = Append(exprs, BuildSingleRoleExpr(Found(r), ask.perms)),
                 roleAt' = roleAt + 1, UNCHANGED <<phase, ask, permAt, missed, answer>>
          PROVE  RequestInv'
        <3>1. r \in Role /\ variants \in [Perm -> Seq(Filters)] /\ exprs \in Seq(Filters)
            BY <2>5 DEF RequestInv
        <3>2. Found(r) \in [Perm -> Seq(Filters)]
            BY <2>5, <3>1, FoundKinds
        <3>3. BuildSingleRoleExpr(Found(r), ask.perms) \in Filters
            BY <2>1, <3>2, RoleTextKinds
        <3>4. exprs' \in Seq(Filters)
            BY <2>5, <3>1, <3>3
        <3>5. roleAt' \in 1 .. Len(ask.roles) + 1
            BY <2>1, <2>2, <2>5
        <3>6. NoVariants \in [Perm -> Seq(Filters)]
            BY DEF NoVariants
        <3> QED
            BY <2>1, <2>5, <3>4, <3>5, <3>6 DEF RequestInv, NoVariants
    <2> QED
        BY <1>13, <2>3, <2>4, <2>5 DEF ReadFilters
<1>14. CASE Compile
    <2>1. Reply(Program)
        BY <1>14 DEF Compile
    <2>2. exprs \in Seq(Filters)
        BY DEF RequestInv
    <2> QED
        BY <1>9, <2>1, <2>2, ProgramKinds
<1>15. CASE UNCHANGED scopevars \/ Change \/ SearchRole \/ SearchStep
    BY <1>1, <1>15, ChangeCases, SearchCases DEF scopevars, SearchRole
<1> QED
    BY ScopeCases, <1>2, <1>3, <1>5, <1>6, <1>7, <1>8, <1>11, <1>12, <1>13, <1>14, <1>15 DEF Scope

\* Every step keeps the types, and what the variables say of one another.
LEMMA KindsStep ==
    ASSUME PhaseInv, KindsInv, [Change \/ Request]_scopevars
    PROVE  KindsInv'
<1>1. HierarchyTypeOK' /\ Consistent'
    <2>1. AnyEdit
        BY ChangeCases, RequestKeeps DEF scopevars, AnyEdit
    <2> QED
        BY <2>1, EditKeepsType, EditKeepsConsistent DEF KindsInv
<1> QED
    BY <1>1, SearchInvStep, FiltersStep, RequestInvStep DEF KindsInv
-----------------------------------------------------------------------------
(***************************************************************************)
(* What the policy says, as the instance and the request change.           *)
(***************************************************************************)
\* It depends on the instance, its filters and the request.
LEMMA SamePolicy ==
    ASSUME UNCHANGED <<hvars, filters, ask>>
    PROVE  /\ Live' = Live /\ Asking' = Asking /\ Required' = Required
           /\ \A x : Ancestors(x)' = Ancestors(x)
           /\ \A x, p : FiltersOn(x, p)' = FiltersOn(x, p) /\ AllowedRows(x, p)' = AllowedRows(x, p)
           /\ AllowedNow' = AllowedNow
<1>1. Live' = Live /\ Asking' = Asking /\ Required' = Required
    BY DEF hvars, Live, Asking, Required
<1>2. \A x : Ancestors(x)' = Ancestors(x)
    BY <1>1 DEF Ancestors, hvars
<1>3. \A x, p : FiltersOn(x, p)' = FiltersOn(x, p)
    BY <1>2 DEF FiltersOn, hvars
<1>4. \A x, p : AllowedRows(x, p)' = AllowedRows(x, p)
    BY <1>1, <1>3 DEF AllowedRows
<1>5. AllowedNow' = AllowedNow
    BY <1>1, <1>4 DEF AllowedNow
<1> QED
    BY <1>1, <1>2, <1>3, <1>4, <1>5

\* What AllowedNow holds.
LEMMA AllowedTriple ==
    \A x, p, row : <<x, p, row>> \in AllowedNow <=>
        x \in Asking /\ p \in Required /\ row \in AllowedRows(x, p)
<1> DEFINE Triples(x, p) == { <<x, p, row>> : row \in AllowedRows(x, p) }
<1>1. AllowedNow = UNION { Triples(x, p) : x \in Asking, p \in Required }
    BY DEF AllowedNow
<1>2. \A x, p, row, x2, p2 : <<x, p, row>> \in Triples(x2, p2) <=> x = x2 /\ p = p2 /\ row \in AllowedRows(x2, p2)
    OBVIOUS
<1> HIDE DEF Triples
<1> SUFFICES ASSUME NEW x, NEW p, NEW row
             PROVE  <<x, p, row>> \in AllowedNow <=>
                        x \in Asking /\ p \in Required /\ row \in AllowedRows(x, p)
    OBVIOUS
<1> DEFINE t == <<x, p, row>>
<1>3. \A x2, p2 : t \in Triples(x2, p2) <=> x = x2 /\ p = p2 /\ row \in AllowedRows(x2, p2)
    BY <1>2
<1>4. t \in AllowedNow <=> \E x2 \in Asking, p2 \in Required : t \in Triples(x2, p2)
    <2> HIDE DEF t
    <2> QED
        BY <1>1
<1> QED
    BY <1>3, <1>4

\* A change that takes nothing away: roles, links and filters only become more,
\* and each role keeps its object.
LEMMA ChangeGrows ==
    ASSUME KindsInv, Change, phase # "idle", ~loosened'
    PROVE  /\ ~loosened /\ Live \subseteq Live'
           /\ \A y \in Live : roles'[y] = roles[y]
           /\ \A y \in Live : Up(parents, y) \subseteq Up(parents', y)
           /\ \A r \in Role : DOMAIN filters[r] \subseteq DOMAIN filters'[r]
           /\ \A x : Ancestors(x) \subseteq Ancestors(x)'
           /\ still' => still /\ UNCHANGED <<hvars, filters>>
           /\ phase = "scoping" => allowed' = allowed \cup AllowedNow'
           /\ misread' = misread
<1>1. /\ still' = (still /\ UNCHANGED <<hvars, filters>>)
      /\ loosened' = (loosened \/ Loosens)
      /\ allowed' = IF phase = "scoping" THEN allowed \cup AllowedNow' ELSE allowed
      /\ misread' = misread
    BY DEF Change
<1>2. ~loosened /\ Live \subseteq Live' /\ Links \subseteq Links'
      /\ \A r \in Role : DOMAIN filters[r] \subseteq DOMAIN filters'[r]
    BY <1>1 DEF Loosens
<1>3. \A y \in Live : roles'[y] = roles[y]
    <2>1. AnyEdit
        BY ChangeCases
    <2>2. CASE \E r \in Role : AddRole(r)
        <3>1. PICK r \in Role : AddRole(r)
            BY <2>2
        <3> QED
            BY <3>1 DEF AddRole
    <2>3. CASE \E id \in ID : RemoveRole(id)
        <3>1. PICK id \in Live : Live' = Live \ {id}
            BY <2>3 DEF RemoveRole, Live
        <3> QED
            BY <1>2, <3>1
    <2>4. CASE UNCHANGED roles
        BY <2>4
    <2> QED
        BY <2>1, <2>2, <2>3, <2>4 DEF AnyEdit, hvars, BindParents, UnbindParents, AssignPerms, RevokePerms
<1>4. ASSUME NEW y \in Live, NEW p \in Up(parents, y)
      PROVE  p \in Up(parents', y)
    <2>1. p \in ID
        BY <1>4, ParentsAreIDs DEF KindsInv
    <2>2. <<y, p>> \in Links
        BY <1>4, <2>1 DEF Links
    <2>3. <<y, p>> \in Links'
        BY <1>2, <2>2
    <2> QED
        BY <2>3 DEF Links
<1>5. ASSUME NEW x
      PROVE  Ancestors(x) \subseteq Ancestors(x)'
    BY <1>2, <1>4, ReachMonotone DEF Ancestors
<1> QED
    BY <1>1, <1>2, <1>3, <1>4, <1>5

\* Whatever happens to the request, a step that is no change of the instance
\* keeps the rest of the history, unless a check ends or a request begins.
LEMMA HistoryKept ==
    ASSUME Miss \/ Scope
    PROVE  UNCHANGED <<hvars, filters, ask, still, loosened, allowed>>
<1>1. CASE SearchStep
    BY <1>1, SearchCases DEF fixed, request, past
<1>2. CASE Miss
    BY <1>2 DEF Miss, Checking, past
<1>3. CASE ScopeNothing \/ SearchRole \/ SearchDone \/ ReadFilters \/ Compile
    BY <1>3 DEF ScopeNothing, SearchRole, Start, SearchDone, Finish, ReadFilters, Compile, Reply, request, past
<1> QED
    BY <1>1, <1>2, <1>3 DEF Scope

\* A check ends, or goes on.
LEMMA CheckSteps ==
    ASSUME PhaseInv, KindsInv, CheckNothing \/ Miss \/ Grant \/ Deny
    PROVE  /\ UNCHANGED <<hvars, filters, search, ask, still, misread, toRead, variants, exprs>>
           /\ op = "none" /\ toRead = {} /\ exprs = <<>>
           /\ \/ phase' = "checking" /\ UNCHANGED <<loosened, allowed>>
              \/ /\ loosened' = FALSE /\ allowed' = AllowedNow /\ roleAt' = 1
                 /\ phase' = "scoping" \/ (phase' = "done" /\ answer' = Status("denied"))
<1>1. phase = "checking" /\ UNCHANGED <<hvars, filters, search>>
    BY DEF CheckNothing, Miss, Grant, Deny, Checking
<1>2. op = "none" /\ toRead = {} /\ exprs = <<>>
    BY <1>1 DEF PhaseInv, KindsInv, RequestInv, SearchKinds
<1>3. CASE CheckNothing
    BY <1>1, <1>2, <1>3 DEF CheckNothing, Conclude
<1>4. CASE Miss
    BY <1>1, <1>2, <1>4 DEF Miss, past
<1>5. CASE Grant
    BY <1>1, <1>2, <1>5 DEF Grant, Conclude, NextPermission, Continue, past
<1>6. CASE Deny
    BY <1>1, <1>2, <1>6 DEF Deny, Conclude, NextRole, NextPermission, Continue, past
<1> QED
    BY <1>3, <1>4, <1>5, <1>6

\* The history of what is allowed is kept up.
LEMMA AllowedStep ==
    ASSUME PhaseInv, KindsInv, AllowedInv, [Change \/ Request]_scopevars
    PROVE  AllowedInv'
<1>1. CASE UNCHANGED scopevars
    <2>1. UNCHANGED <<hvars, filters, phase, ask, still, loosened, allowed>>
        BY <1>1 DEF scopevars, request, past
    <2> QED
        BY <2>1, SamePolicy DEF AllowedInv
<1>2. CASE Change
    <2>1. UNCHANGED phase
        BY <1>2 DEF Change, request
    <2>2. CASE phase = "idle"
        <3>1. UNCHANGED <<still, loosened>>
            BY <1>2, <2>2 DEF Change, past
        <3> QED
            BY <2>1, <2>2, <3>1 DEF AllowedInv
    <2>3. CASE phase # "idle"
        <3>1. /\ still' = (still /\ UNCHANGED <<hvars, filters>>)
              /\ loosened' = (loosened \/ Loosens)
              /\ allowed' = IF phase = "scoping" THEN allowed \cup AllowedNow' ELSE allowed
            BY <1>2, <2>3 DEF Change
        <3>2. UNCHANGED <<hvars, filters>> => ~Loosens
            BY DEF Loosens, Live, Links, hvars
        <3> QED
            BY <2>1, <3>1, <3>2 DEF AllowedInv
    <2> QED
        BY <2>2, <2>3
<1>3. CASE Begin
    BY <1>3 DEF Begin, AllowedInv
<1>4. CASE End
    BY <1>4 DEF End, AllowedInv
<1>5. CASE CheckNothing \/ Miss \/ Grant \/ Deny
    <2>1. AllowedNow' = AllowedNow
        BY <1>5, CheckSteps, SamePolicy
    <2>2. CASE phase' = "checking" /\ UNCHANGED <<loosened, allowed>>
        BY <1>5, <2>2, CheckSteps DEF AllowedInv
    <2>3. CASE loosened' = FALSE /\ allowed' = AllowedNow
        BY <2>1, <2>3 DEF AllowedInv
    <2> QED
        BY <1>5, <2>2, <2>3, CheckSteps
<1>6. CASE Scope
    <2>1. phase = "scoping"
        BY <1>6, ScopeKeeps
    <2> QED
        BY <1>6, <2>1, HistoryKept, SamePolicy DEF AllowedInv
<1> QED
    BY ScopeCases, <1>1, <1>2, <1>3, <1>4, <1>5, <1>6
-----------------------------------------------------------------------------
(***************************************************************************)
(* What a search collects while nothing is taken away.                     *)
(***************************************************************************)
\* What the filters on a permission allow a role is in the history; all rows
\* are, where there is no filter.
LEMMA NowAllowed ==
    ASSUME AllowedInv, phase = "scoping", NEW x \in Asking, NEW p \in Required, x \in Live
    PROVE  /\ FiltersOn(x, p) = {} => AllWereAllowed(x, p)
           /\ \A f \in FiltersOn(x, p) : \A row \in Granting(f) : <<x, p, row>> \in allowed
<1>1. \A row \in AllowedRows(x, p) : <<x, p, row>> \in allowed
    BY AllowedTriple DEF AllowedInv
<1>2. FiltersOn(x, p) = {} => AllowedRows(x, p) = Row
    BY DEF AllowedRows
<1>3. \A f \in FiltersOn(x, p) : Granting(f) \subseteq AllowedRows(x, p)
    BY DEF AllowedRows
<1> QED
    BY <1>1, <1>2, <1>3 DEF AllWereAllowed

\* A search runs for a role of the request.
LEMMA SearchesAsked ==
    ASSUME PhaseInv, KindsInv, op = "closure"
    PROVE  root \in Asking /\ root \in ID /\ root # None /\ phase = "scoping" /\ ask \in Asks
<1>1. phase = "scoping" /\ ask \in Asks /\ roleAt \in 1 .. Len(ask.roles) /\ root = ask.roles[roleAt]
    BY DEF PhaseInv, KindsInv, VisitInv
<1> QED
    BY <1>1, AskKinds, HelpersAssumption DEF Asking

\* What a search had looked at keeps what it says when roles, links and filters
\* become more.
LEMMA ClosingChange ==
    ASSUME PhaseInv, KindsInv, ClosingInv, Change, op = "closure", ~loosened'
    PROVE  GrowingInv'
<1>1. /\ ~loosened /\ Live \subseteq Live'
      /\ \A y \in Live : roles'[y] = roles[y]
      /\ \A y \in Live : Up(parents, y) \subseteq Up(parents', y)
      /\ \A r \in Role : DOMAIN filters[r] \subseteq DOMAIN filters'[r]
      /\ \A x : Ancestors(x) \subseteq Ancestors(x)'
      /\ still' => still /\ UNCHANGED <<hvars, filters>>
      /\ allowed \subseteq allowed'
    BY ChangeGrows, SearchesAsked
<1>2. UNCHANGED <<op, root, ids, frames, seen, held, out>> /\ Required' = Required
    BY ChangeCases DEF search, request, Required
<1>3. Waiting' = Waiting
    BY <1>2 DEF Waiting, Lists
<1>4. GrowingInv
    BY <1>1 DEF ClosingInv
<1>5. \A x : Ancestors(x) \subseteq Live
    BY ReachSelf DEF Ancestors
<1>6. seen' \subseteq Ancestors(root)' /\ Waiting' \subseteq Ancestors(root)' \cup {root', None}
    BY <1>1, <1>2, <1>3, <1>4 DEF GrowingInv
<1>7. held' # Nothing => held'[1] \in Live' /\ held'[2] = roles'[held'[1]]
    BY <1>1, <1>2, <1>4 DEF GrowingInv
<1>8. \A pair \in out' : pair[1] = roles'[IdOf[pair[1]]]
    <2> SUFFICES ASSUME NEW pair \in out
                 PROVE  pair[1] = roles'[IdOf[pair[1]]]
        BY <1>2
    <2>1. IdOf[pair[1]] \in seen
        BY DEF KindsInv, VisitInv
    <2>2. IdOf[pair[1]] \in Live
        BY <1>4, <1>5, <2>1 DEF GrowingInv
    <2> QED
        BY <1>1, <1>4, <2>2 DEF GrowingInv
<1>9. seen' = {} => /\ Waiting' \subseteq {root', None}
                    /\ still' /\ root' \in Live' => root' \in Waiting'
    <2>1. still' => still /\ Live' = Live
        BY <1>1 DEF hvars, Live
    <2> QED
        BY <1>2, <1>3, <1>4, <2>1 DEF GrowingInv
<1>10. ASSUME NEW live, NEW links, Snapshot(live, links)
       PROVE  Snapshot(live, links)'
    <2>1. root' \in live \cap seen' /\ live \subseteq Live'
        BY <1>1, <1>2, <1>10 DEF Snapshot
    <2>2. \A y \in live : Up(links, y) \subseteq Up(parents', y)
        BY <1>1, <1>10 DEF Snapshot
    <2>3. still' => live = Live' /\ links = parents'
        BY <1>1, <1>10 DEF Snapshot, hvars, Live
    <2>4. \A y \in seen' \cap live : Up(links, y) \cap live \subseteq seen' \cup Waiting'
        BY <1>2, <1>3, <1>10 DEF Snapshot
    <2>5. ASSUME NEW p \in Required
          PROVE  \/ AllWereAllowed(root, p)'
                 \/ \E y \in Reach(live, links, root) : p \in DOMAIN filters'[roles'[y]]
        <3>1. CASE AllWereAllowed(root, p)
            BY <1>1, <1>2, <3>1 DEF AllWereAllowed
        <3>2. ASSUME NEW y \in Reach(live, links, root), p \in DOMAIN filters[roles[y]]
              PROVE  p \in DOMAIN filters'[roles'[y]]
            <4>1. y \in Live
                BY <1>10, ReachSelf DEF Snapshot
            <4>2. roles'[y] = roles[y] /\ roles[y] \in Role
                BY <1>1, <4>1 DEF KindsInv, HierarchyTypeOK
            <4> QED
                BY <1>1, <3>2, <4>2
        <3> QED
            BY <1>10, <3>1, <3>2 DEF Snapshot
    <2> QED
        BY <1>2, <2>1, <2>2, <2>3, <2>4, <2>5 DEF Snapshot
<1>11. seen' # {} => \E live, links : Snapshot(live, links)'
    BY <1>2, <1>4, <1>10 DEF GrowingInv
<1> QED
    BY <1>6, <1>7, <1>8, <1>9, <1>11 DEF GrowingInv
\* What a search says does not depend on what its steps leave alone.
LEMMA SameInstance ==
    ASSUME UNCHANGED <<fixed, filters, request, past>>
    PROVE  /\ UNCHANGED <<root, roles, parents, filters, ask, still, loosened, allowed, misread, phase>>
           /\ Live' = Live /\ Ancestors(root)' = Ancestors(root) /\ Required' = Required
           /\ \A p : AllWereAllowed(root, p)' = AllWereAllowed(root, p)
<1>1. UNCHANGED <<hvars, root, roles, parents, filters, ask, still, loosened, allowed, misread, phase>>
    BY DEF fixed, hvars, request, past
<1> QED
    BY <1>1, SamePolicy DEF AllWereAllowed

\* A search that has seen no more than before, and has the same to look at but
\* for what is no role or seen, says what it said.
LEMMA ClosingKept ==
    ASSUME GrowingInv, SearchKinds, Live \subseteq ID, root \in ID,
           UNCHANGED <<fixed, filters, request, past>>, seen' = seen, out' = out,
           Waiting' \subseteq Waiting \cup {None},
           \A y \in Live : y \in Waiting => y \in Waiting' \cup seen,
           held' # Nothing => held'[1] \in Live /\ held'[2] = roles[held'[1]]
    PROVE  GrowingInv'
<1>1. /\ UNCHANGED <<root, roles, parents, filters, ask, still, loosened, allowed, misread, phase>>
      /\ Live' = Live /\ Ancestors(root)' = Ancestors(root) /\ Required' = Required
      /\ \A p : AllWereAllowed(root, p)' = AllWereAllowed(root, p)
    BY SameInstance
<1>2. seen' \subseteq Ancestors(root)' /\ Waiting' \subseteq Ancestors(root)' \cup {root', None}
    BY <1>1 DEF GrowingInv
<1>3. \A pair \in out' : pair[1] = roles'[IdOf[pair[1]]]
    BY <1>1 DEF GrowingInv
<1>4. seen' = {} => /\ Waiting' \subseteq {root', None}
                    /\ still' /\ root' \in Live' => root' \in Waiting'
    BY <1>1 DEF GrowingInv
<1>5. ASSUME NEW live, NEW links, Snapshot(live, links)
      PROVE  Snapshot(live, links)'
    <2>1. \A y \in seen' \cap live : Up(links, y) \cap live \subseteq seen' \cup Waiting'
        BY <1>1, <1>5 DEF Snapshot
    <2> QED
        BY <1>1, <1>5, <2>1 DEF Snapshot
<1>6. seen' # {} => \E live, links : Snapshot(live, links)'
    BY <1>5 DEF GrowingInv
<1>7. held' # Nothing => held'[1] \in Live' /\ held'[2] = roles'[held'[1]]
    BY <1>1
<1> QED
    BY <1>2, <1>3, <1>4, <1>6, <1>7 DEF GrowingInv

\* When the search visits its root, what it reaches then is what it has to look
\* at, and it says of each permission without a filter that all rows are allowed.
LEMMA RootVisited ==
    ASSUME PhaseInv, KindsInv, AllowedInv, op = "closure", root \in Live,
           UNCHANGED <<fixed, filters, request, past>>,
           seen' = {root}, Up(parents, root) \subseteq Waiting'
    PROVE  Snapshot(Live, parents)'
<1>1. /\ UNCHANGED <<root, roles, parents, filters, ask, still, loosened, allowed, misread, phase>>
      /\ Live' = Live /\ Ancestors(root)' = Ancestors(root) /\ Required' = Required
      /\ \A p : AllWereAllowed(root, p)' = AllWereAllowed(root, p)
    BY SameInstance
<1>2. ASSUME NEW p \in Required
      PROVE  \/ AllWereAllowed(root, p)
             \/ \E y \in Reach(Live, parents, root) : p \in DOMAIN filters[roles[y]]
    <2>1. CASE FiltersOn(root, p) = {}
        BY <2>1, SearchesAsked, NowAllowed
    <2>2. CASE FiltersOn(root, p) # {}
        <3>1. PICK y \in Ancestors(root) : p \in DOMAIN filters[roles[y]]
            BY <2>2 DEF FiltersOn
        <3> QED
            BY <3>1 DEF Ancestors
    <2> QED
        BY <2>1, <2>2
<1>3. \A y \in seen' \cap Live : Up(parents, y) \cap Live \subseteq seen' \cup Waiting'
    OBVIOUS
<1> QED
    BY <1>1, <1>2, <1>3 DEF Snapshot

\* Visiting an id adds it to what is seen, and its parents to what is waiting.
LEMMA ClosingVisit ==
    ASSUME PhaseInv, KindsInv, AllowedInv, op = "closure", GrowingInv,
           UNCHANGED <<fixed, filters, request, past>>, ClosureVisit
    PROVE  GrowingInv'
<1> DEFINE x == held[1]
<1>1. /\ UNCHANGED <<root, roles, parents, filters, ask, still, loosened, allowed, misread, phase>>
      /\ Live' = Live /\ Ancestors(root)' = Ancestors(root) /\ Required' = Required
      /\ \A p : AllWereAllowed(root, p)' = AllWereAllowed(root, p)
    BY SameInstance
<1>2. /\ held # Nothing /\ x \in Live /\ held' = Nothing
      /\ seen' = seen \cup {x} /\ out' = out \cup {<<held[2], Up(parents, x)>>}
      /\ frames' = Searching(x) \o frames /\ UNCHANGED ids
    BY DEF ClosureVisit
<1>3. held \in ID \X Role /\ IdOf[held[2]] = x /\ x \notin seen /\ x \in ID /\ x # None
    BY <1>2, HelpersAssumption DEF KindsInv, VisitInv
<1>4. root \in ID /\ root # None
    BY SearchesAsked
<1>5. Lists(frames') = Up(parents, x) \cup Lists(frames)
    BY <1>2, <1>3, ListsSteps DEF KindsInv, SearchKinds
<1>6. held'[1] = None
    BY <1>2 DEF Nothing
<1>7. Waiting' = ids \cup Up(parents, x) \cup Lists(frames) \cup {None}
    BY <1>2, <1>5, <1>6 DEF Waiting
<1>8. Waiting = ids \cup Lists(frames) \cup {x}
    BY DEF Waiting
<1>9. root \in Live => root \in Ancestors(root)
    BY ReachSelf DEF Ancestors
<1>10. x \in Ancestors(root)
    BY <1>2, <1>3, <1>8, <1>9 DEF GrowingInv
<1>11. Up(parents, x) \subseteq Ancestors(root)
    <2>1. Up(parents, x) \subseteq Live
        BY DEF KindsInv, Consistent, Up
    <2>2. ClosedUpward(Live, parents, Ancestors(root))
        BY ReachClosed DEF Ancestors
    <2> QED
        BY <1>10, <2>1, <2>2 DEF ClosedUpward
<1> DEFINE new == <<held[2], Up(parents, x)>>
<1>12. new[1] = held[2] /\ out' = out \cup {new} /\ held[2] = roles[x]
    BY <1>2 DEF GrowingInv
<1> HIDE DEF new, x
<1>13. \A pair \in out' : pair[1] = roles'[IdOf[pair[1]]]
    BY <1>1, <1>3, <1>12 DEF GrowingInv
<1>14. seen' \subseteq Ancestors(root)' /\ Waiting' \subseteq Ancestors(root)' \cup {root', None}
    BY <1>1, <1>2, <1>7, <1>8, <1>10, <1>11 DEF GrowingInv
<1>15. \E live, links : Snapshot(live, links)'
    <2>1. CASE seen = {}
        <3>1. x = root
            BY <1>3, <1>8, <2>1 DEF GrowingInv
        <3>2. seen' = {root} /\ Up(parents, root) \subseteq Waiting' /\ root \in Live
            BY <1>2, <1>7, <2>1, <3>1
        <3>3. Snapshot(Live, parents)'
            BY <3>2, RootVisited
        <3> QED
            BY <1>1, <3>3
    <2>2. CASE seen # {}
        <3>1. PICK live, links : Snapshot(live, links)
            BY <2>2 DEF GrowingInv
        <3>2. \A y \in seen' \cap live : Up(links, y) \cap live \subseteq seen' \cup Waiting'
            BY <1>2, <1>7, <1>8, <3>1 DEF Snapshot
        <3>3. root' \in live \cap seen' /\ live \subseteq Live'
            BY <1>1, <1>2, <3>1 DEF Snapshot
        <3>4. Snapshot(live, links)'
            BY <1>1, <3>1, <3>2, <3>3 DEF Snapshot
        <3> QED
            BY <3>4
    <2> QED
        BY <2>1, <2>2
<1> QED
    BY <1>2, <1>13, <1>14, <1>15 DEF GrowingInv

\* The other steps of a search.
LEMMA ClosingSearch ==
    ASSUME PhaseInv, KindsInv, AllowedInv, ClosingInv, SearchStep, ~loosened'
    PROVE  GrowingInv'
<1>1. /\ op = "closure" /\ result = "running"
      /\ UNCHANGED <<fixed, filters, request, past>>
      /\ \/ \E x : ClosureFetch(x) \/ ClosurePass(x)
         \/ ClosureVisit \/ ClosureLost \/ Ascend \/ Complete
    BY SearchCases
<1>2. GrowingInv
    BY <1>1, SameInstance DEF ClosingInv
<1>3. root \in ID /\ root # None
    BY <1>1, SearchesAsked
<1>4. SearchKinds /\ Live \subseteq ID /\ HierarchyTypeOK /\ Stack(frames) /\ None \notin ID
    BY HelpersAssumption DEF KindsInv, HierarchyTypeOK, SearchKinds
<1>5. ASSUME NEW x, ClosureFetch(x)
      PROVE  GrowingInv'
    <2>1. /\ Take(x) /\ x \in Live /\ held = Nothing /\ held' = <<x, roles[x]>>
          /\ frames' = FramesWithout(x) /\ UNCHANGED <<seen, out>>
        BY <1>5 DEF ClosureFetch, Fetch
    <2>2. ids' \cup Lists(frames') \cup {x} = ids \cup Lists(frames)
        BY <1>4, <2>1, ListsTaken
    <2>3. Waiting' = ids \cup Lists(frames)
        BY <2>1, <2>2 DEF Waiting
    <2>4. Waiting = ids \cup Lists(frames) \cup {None}
        BY <2>1 DEF Waiting, Nothing
    <2>5. held'[1] \in Live /\ held'[2] = roles[held'[1]]
        BY <2>1
    <2> QED
        BY <1>1, <1>2, <1>3, <1>4, <2>1, <2>3, <2>4, <2>5, ClosingKept
<1>6. ASSUME NEW x, ClosurePass(x)
      PROVE  GrowingInv'
    <2>1. /\ Take(x) /\ x \notin Live \ seen /\ held = Nothing
          /\ frames' = FramesWithout(x) /\ UNCHANGED <<held, seen, out>>
        BY <1>6 DEF ClosurePass, Skip
    <2>2. ids' \cup Lists(frames') \cup {x} = ids \cup Lists(frames)
        BY <1>4, <2>1, ListsTaken
    <2>3. Waiting' \cup {x} = Waiting
        <3>1. Waiting' = ids' \cup Lists(frames') \cup {None}
            BY <2>1 DEF Waiting, Nothing
        <3>2. Waiting = ids \cup Lists(frames) \cup {None}
            BY <2>1 DEF Waiting, Nothing
        <3> QED
            BY <2>2, <3>1, <3>2
    <2>4. \A y \in Live : y \in Waiting => y \in Waiting' \cup seen
        BY <2>1, <2>3
    <2> QED
        BY <1>1, <1>2, <1>3, <1>4, <2>1, <2>3, <2>4, ClosingKept
<1>7. CASE ClosureVisit
    BY <1>1, <1>2, <1>7, ClosingVisit
<1>8. CASE ClosureLost
    BY <1>2, <1>8 DEF ClosureLost, GrowingInv
<1>9. CASE Ascend \/ Complete
    <2>1. UNCHANGED <<ids, seen, held, out>> /\ held = Nothing
        BY <1>9 DEF Ascend, Complete, Return
    <2>2. Lists(frames') = Lists(frames)
        <3>1. CASE Ascend
            <4>1. frames # <<>> /\ Head(frames).todo = {} /\ frames' = Tail(frames)
                BY <3>1 DEF Ascend
            <4>2. Head(frames) = frames[1]
                BY <1>4, <4>1 DEF Stack
            <4> QED
                BY <1>4, <4>1, <4>2, ListsSteps
        <3>2. CASE Complete
            BY <3>2 DEF Complete, Return
        <3> QED
            BY <1>9, <3>1, <3>2
    <2>3. Waiting' = Waiting
        BY <2>1, <2>2 DEF Waiting
    <2> QED
        BY <1>1, <1>2, <1>3, <1>4, <2>1, <2>3, ClosingKept
<1> QED
    BY <1>1, <1>5, <1>6, <1>7, <1>8, <1>9

\* Every step keeps what a search says.
LEMMA ClosingStep ==
    ASSUME PhaseInv, KindsInv, AllowedInv, ClosingInv, [Change \/ Request]_scopevars
    PROVE  ClosingInv'
<1> SUFFICES ASSUME op' = "closure", ~loosened'
             PROVE  GrowingInv'
    BY DEF ClosingInv
<1>1. CASE UNCHANGED scopevars
    <2>1. /\ UNCHANGED <<fixed, filters, request, past>> /\ UNCHANGED <<op, ids, frames, seen, held, out>>
        BY <1>1 DEF scopevars, search, fixed
    <2>2. GrowingInv /\ root \in ID
        BY <1>1, <2>1, SearchesAsked DEF ClosingInv, past
    <2>3. Waiting' = Waiting
        BY <2>1 DEF Waiting, Lists
    <2>4. roles' = roles
        BY <2>1 DEF fixed, hvars
    <2>5. SearchKinds /\ Live \subseteq ID
        BY DEF KindsInv, HierarchyTypeOK
    <2> QED
        BY <2>1, <2>2, <2>3, <2>5, ClosingKept DEF GrowingInv
<1>2. CASE Change
    <2>1. op = "closure"
        BY <1>2, ChangeCases DEF search
    <2> QED
        BY <1>2, <2>1, ClosingChange
<1>3. CASE Begin \/ End \/ CheckNothing \/ Miss \/ Grant \/ Deny
    <2>1. op' = op /\ phase \in {"idle", "done", "checking"}
        BY <1>3 DEF Begin, End, CheckNothing, Miss, Grant, Deny, Checking, search
    <2> QED
        BY <2>1 DEF PhaseInv
<1>4. CASE ScopeNothing \/ ReadFilters \/ Compile \/ SearchDone
    <2>1. op' = "none" \/ (op' = op /\ (ask.perms = <<>> \/ toRead # {} \/ op = "none"))
        BY <1>4 DEF ScopeNothing, ReadFilters, Compile, Idle, search, SearchDone, Finish
    <2> QED
        BY <2>1 DEF PhaseInv
<1>5. CASE SearchStep
    BY <1>5, ClosingSearch
<1>6. CASE SearchRole
    <2> DEFINE x == ask.roles[roleAt]
    <2>1. /\ op = "none" /\ root' = x /\ ids' = {x}
          /\ UNCHANGED <<frames, seen, held, out>>
        BY <1>6 DEF SearchRole, Start
    <2>2. frames = <<>> /\ seen = {} /\ held = Nothing /\ out = {}
        BY <2>1 DEF KindsInv, VisitInv
    <2>3. held'[1] = None /\ Lists(frames') = {}
        BY <2>1, <2>2, ListsSteps DEF Nothing, Lists
    <2>4. Waiting' = {root', None}
        BY <2>1, <2>3 DEF Waiting
    <2> QED
        BY <2>1, <2>2, <2>4 DEF GrowingInv
<1> QED
    BY ScopeCases, <1>1, <1>2, <1>3, <1>4, <1>5, <1>6 DEF Scope
-----------------------------------------------------------------------------
(***************************************************************************)
(* What is found while nothing is taken away.                              *)
(***************************************************************************)
\* A permission that is required is one.
LEMMA RequiredParts ==
    ASSUME ask \in Asks
    PROVE  /\ Required \subseteq Perm /\ Asking \subseteq ID
           /\ \A p : p \in Required <=> \E i \in 1 .. Len(ask.perms) : p = ask.perms[i]
           /\ \A x : x \in Asking <=> \E j \in 1 .. Len(ask.roles) : x = ask.roles[j]
BY AskKinds DEF Required, Asking

\* A search that has returned has the objects of all that its root reached when
\* it was visited.
LEMMA SearchEnds ==
    ASSUME PhaseInv, KindsInv, GrowingInv, op = "closure", result = "nil"
    PROVE  /\ Closure \subseteq { roles[y] : y \in Ancestors(root) }
           /\ out = {} /\ still => root \notin Live
           /\ out # {} => \A p \in Required : AllWereAllowed(root, p) \/ \E r \in Closure : p \in DOMAIN filters[r]
           /\ out # {} /\ still => Closure = { roles[y] : y \in Ancestors(root) }
<1>1. ids = {} /\ frames = <<>> /\ held = Nothing /\ seen = { IdOf[pair[1]] : pair \in out }
    BY DEF KindsInv, VisitInv
<1>2. Waiting = {None}
    BY <1>1, ListsSteps DEF Waiting, Nothing, Lists
<1>3. None \notin ID /\ root \in ID /\ Live \subseteq ID
    BY HelpersAssumption, SearchesAsked DEF KindsInv, HierarchyTypeOK
<1>4. Closure \subseteq { roles[y] : y \in Ancestors(root) }
    <2> SUFFICES ASSUME NEW pair \in out
                 PROVE  pair[1] \in { roles[y] : y \in Ancestors(root) }
        BY DEF Closure
    <2>1. IdOf[pair[1]] \in seen
        BY <1>1
    <2> QED
        BY <2>1 DEF GrowingInv
<1>5. \A y \in seen : roles[y] \in Closure
    <2> SUFFICES ASSUME NEW pair \in out
                 PROVE  roles[IdOf[pair[1]]] \in Closure
        BY <1>1
    <2>1. pair[1] = roles[IdOf[pair[1]]]
        BY DEF GrowingInv
    <2>2. pair[1] \in Closure
        BY DEF Closure
    <2> QED
        BY <2>1, <2>2
<1>6. out = {} /\ still => root \notin Live
    <2>1. out = {} => seen = {}
        BY <1>1
    <2> QED
        BY <1>2, <1>3, <2>1 DEF GrowingInv
<1>7. ASSUME out # {}
      PROVE  /\ \A p \in Required : AllWereAllowed(root, p) \/ \E r \in Closure : p \in DOMAIN filters[r]
             /\ still => Closure = { roles[y] : y \in Ancestors(root) }
    <2>1. seen # {}
        BY <1>1, <1>7
    <2>2. PICK live, links : Snapshot(live, links)
        BY <2>1 DEF GrowingInv
    <2>3. ClosedUpward(live, links, seen \cap live)
        BY <1>2, <1>3, <2>2 DEF Snapshot, ClosedUpward
    <2>4. root \in seen
        BY <2>2 DEF Snapshot
    <2>5. Reach(live, links, root) \subseteq seen
        BY <2>3, <2>4, ReachLeast
    <2>6. \A p \in Required : AllWereAllowed(root, p) \/ \E r \in Closure : p \in DOMAIN filters[r]
        BY <1>5, <2>2, <2>5 DEF Snapshot
    <2>7. still => Ancestors(root) \subseteq seen
        BY <2>2, <2>5 DEF Snapshot, Ancestors
    <2> QED
        BY <1>4, <1>5, <2>6, <2>7
<1> QED
    BY <1>4, <1>6, <1>7
\* What is found in one object more: what it has on each permission is found,
\* and it is no longer to be read.
LEMMA CollectMore ==
    ASSUME PhaseInv, KindsInv, AllowedInv, phase = "scoping", NEW x \in Asking,
           Collected(x, toRead, variants), NEW r \in toRead, ~Refused(r)
    PROVE  Collected(x, toRead \ {r}, Found(r))
<1> DEFINE vs == Found(r)
           rest == toRead \ {r}
<1>1. ask \in Asks /\ r \in Role /\ variants \in [Perm -> Seq(Filters)] /\ FiltersInv
    BY DEF PhaseInv, KindsInv, RequestInv
<1>2. \A p \in Perm : /\ variants[p] \in Seq(Filters)
                      /\ vs[p] = IF p \in DOMAIN filters[r] THEN Append(variants[p], filters[r][p]) ELSE variants[p]
    BY <1>1, FoundKinds
<1>3. PICK y \in Ancestors(x) : r = roles[y]
    BY DEF Collected
<1>4. x \in Live
    BY <1>3, ReachSelf DEF Ancestors
<1>5. \A p \in DOMAIN filters[r] : filters[r][p] \in FiltersOn(x, p)
    BY <1>3 DEF FiltersOn
<1>6. Required \subseteq Perm
    BY <1>1, RequiredParts
<1> HIDE DEF vs
<1>7. ASSUME NEW p \in Required
      PROVE  /\ vs[p] = <<>> => AllWereAllowed(x, p) \/ \E q \in rest : p \in DOMAIN filters[q]
             /\ \A i \in DOMAIN vs[p] : \A row \in Granting(vs[p][i]) : <<x, p, row>> \in allowed
    <2>1. variants[p] \in Seq(Filters)
        BY <1>2, <1>6
    <2>2. CASE p \in DOMAIN filters[r]
        <3>1. vs[p] = Append(variants[p], filters[r][p])
            BY <1>2, <1>6, <2>2
        <3>2. \A row \in Granting(filters[r][p]) : <<x, p, row>> \in allowed
            BY <1>4, <1>5, <2>2, NowAllowed
        <3> DEFINE f == filters[r][p]
        <3> HIDE DEF f
        <3>3. vs[p] # <<>> /\ \A i \in DOMAIN vs[p] : (i \in DOMAIN variants[p] /\ vs[p][i] = variants[p][i]) \/ vs[p][i] = f
            BY <2>1, <3>1 DEF f
        <3>4. \A i \in DOMAIN variants[p] : \A row \in Granting(variants[p][i]) : <<x, p, row>> \in allowed
            BY DEF Collected
        <3> QED
            BY <3>2, <3>3, <3>4 DEF f
    <2>3. CASE p \notin DOMAIN filters[r]
        BY <1>2, <1>6, <2>3 DEF Collected
    <2> QED
        BY <2>2, <2>3
<1>8. ASSUME still, NEW p \in Perm
      PROVE  ToSet(vs[p]) \cup FiltersIn(rest, p) = FiltersOn(x, p)
    <2>1. ToSet(variants[p]) \cup FiltersIn(toRead, p) = FiltersOn(x, p)
        BY <1>8 DEF Collected
    <2>2. CASE p \in DOMAIN filters[r]
        <3>1. vs[p] = Append(variants[p], filters[r][p])
            BY <1>2, <2>2
        <3>2. ToSet(vs[p]) = ToSet(variants[p]) \cup {filters[r][p]}
            <4> DEFINE f == filters[r][p]
                       s == variants[p]
            <4>1. s \in Seq(Filters)
                BY <1>2
            <4> HIDE DEF f, s
            <4>2. /\ DOMAIN s = 1 .. Len(s) /\ Len(s) \in Nat
                  /\ DOMAIN Append(s, f) = 1 .. Len(s) + 1
                  /\ \A i \in 1 .. Len(s) : Append(s, f)[i] = s[i]
                  /\ Append(s, f)[Len(s) + 1] = f
                BY <4>1
            <4>3. ToSet(Append(s, f)) = ToSet(s) \cup {f}
                <5>1. \A i \in 1 .. Len(s) + 1 : i \in 1 .. Len(s) \/ i = Len(s) + 1
                    BY <4>2
                <5>2. Len(s) + 1 \in 1 .. Len(s) + 1 /\ 1 .. Len(s) \subseteq 1 .. Len(s) + 1
                    BY <4>2
                <5> QED
                    BY <4>2, <5>1, <5>2 DEF ToSet
            <4> QED
                BY <3>1, <4>3 DEF f, s
        <3>3. FiltersIn(toRead, p) = FiltersIn(rest, p) \cup {filters[r][p]}
            BY <2>2 DEF FiltersIn
        <3> QED
            BY <2>1, <3>2, <3>3
    <2>3. CASE p \notin DOMAIN filters[r]
        <3>1. FiltersIn(toRead, p) = FiltersIn(rest, p)
            BY <2>3 DEF FiltersIn
        <3> QED
            BY <1>2, <2>1, <2>3, <3>1
    <2> QED
        BY <2>2, <2>3
<1>9. rest \subseteq { roles[z] : z \in Ancestors(x) }
    BY DEF Collected
<1> QED
    BY <1>7, <1>8, <1>9 DEF Collected, vs

\* What a search returned is what is to be read.
LEMMA CollectFirst ==
    ASSUME PhaseInv, KindsInv, ClosingInv, op = "closure", result = "nil", out # {}, ~loosened
    PROVE  Collected(root, Closure, NoVariants)
<1>1. GrowingInv /\ ask \in Asks
    BY SearchesAsked DEF ClosingInv
<1>2. Required \subseteq Perm
    BY <1>1, RequiredParts
<1>3. \A p \in Perm : NoVariants[p] = <<>> /\ ToSet(NoVariants[p]) = {}
    BY DEF NoVariants, ToSet
<1>4. still => \A p \in Perm : FiltersIn(Closure, p) = FiltersOn(root, p)
    BY <1>1, SearchEnds DEF FiltersIn, FiltersOn
<1>5. /\ Closure \subseteq { roles[y] : y \in Ancestors(root) }
      /\ \A p \in Required : AllWereAllowed(root, p) \/ \E r \in Closure : p \in DOMAIN filters[r]
    BY <1>1, SearchEnds
<1>6. \A p \in Required : /\ NoVariants[p] = <<>>
                          /\ \A i \in DOMAIN NoVariants[p] : \A row \in Granting(NoVariants[p][i]) : <<root, p, row>> \in allowed
    <2>1. DOMAIN <<>> = {}
        OBVIOUS
    <2> QED
        BY <1>2, <1>3, <2>1
<1> QED
    BY <1>3, <1>4, <1>5, <1>6 DEF Collected
\* Every step keeps what is said of what is found.
LEMMA FoundStep ==
    ASSUME PhaseInv, PhaseInv', KindsInv, AllowedInv, ClosingInv, FoundInv, [Change \/ Request]_scopevars
    PROVE  FoundInv'
<1> SUFFICES ASSUME phase' = "scoping", toRead' # {}, ~loosened'
             PROVE  Collected(ask.roles[roleAt], toRead, variants)'
    BY DEF FoundInv
\* What a step that leaves the instance and the history alone keeps.
<1>1. ASSUME UNCHANGED <<hvars, filters, ask, still, allowed, roleAt>>,
             NEW x, x = ask.roles[roleAt], NEW S, S = toRead', NEW vs, vs = variants', Collected(x, S, vs)
      PROVE  Collected(ask.roles[roleAt], toRead, variants)'
    <2>1. /\ roles' = roles /\ Ancestors(x)' = Ancestors(x) /\ Required' = Required
          /\ \A p : FiltersOn(x, p)' = FiltersOn(x, p)
        BY <1>1, SamePolicy DEF hvars
    <2>2. \A p : FiltersIn(S, p)' = FiltersIn(S, p) /\ AllWereAllowed(x, p)' = AllWereAllowed(x, p)
        BY <1>1 DEF FiltersIn, AllWereAllowed
    <2>3. Collected(x, S, vs)'
        BY <1>1, <2>1, <2>2 DEF Collected
    <2> QED
        BY <1>1, <2>3 DEF Collected, FiltersIn, FiltersOn, AllWereAllowed
<1>2. CASE UNCHANGED scopevars
    <2>1. UNCHANGED <<hvars, filters, ask, still, loosened, phase, allowed, roleAt, toRead, variants>>
        BY <1>2 DEF scopevars, request, past
    <2> QED
        BY <1>1, <2>1 DEF FoundInv
<1>3. CASE Change
    <2>0. PICK x : x = ask.roles[roleAt]
        OBVIOUS
    <2>1. UNCHANGED <<phase, ask, roleAt, toRead, variants>> /\ phase = "scoping" /\ Required' = Required
        BY <1>3, ChangeCases DEF request, Required
    <2>2. /\ ~loosened
          /\ \A y \in Live : roles'[y] = roles[y]
          /\ \A r \in Role : DOMAIN filters[r] \subseteq DOMAIN filters'[r]
          /\ Ancestors(x) \subseteq Ancestors(x)'
          /\ still' => still /\ UNCHANGED <<hvars, filters>>
          /\ allowed \subseteq allowed'
        BY <1>3, <2>1, ChangeGrows
    <2>3. Collected(x, toRead, variants)
        BY <2>0, <2>1, <2>2 DEF FoundInv
    <2>4. toRead \subseteq Role /\ Ancestors(x) \subseteq Live
        BY ReachSelf DEF KindsInv, RequestInv, Ancestors
    <2>5. toRead \subseteq { roles'[y] : y \in Ancestors(x)' }
        BY <2>2, <2>3, <2>4 DEF Collected
    <2>6. ASSUME NEW p \in Required
          PROVE  /\ variants[p] = <<>> => AllWereAllowed(x, p)' \/ \E r \in toRead : p \in DOMAIN filters'[r]
                 /\ \A i \in DOMAIN variants[p] : \A row \in Granting(variants[p][i]) : <<x, p, row>> \in allowed'
        <3>1. AllWereAllowed(x, p) => \A row \in Row : <<x, p, row>> \in allowed'
            BY <2>2 DEF AllWereAllowed
        <3> QED
            BY <2>2, <2>3, <2>4, <3>1 DEF Collected, AllWereAllowed
    <2>7. ASSUME still', NEW p \in Perm
          PROVE  ToSet(variants[p]) \cup FiltersIn(toRead, p)' = FiltersOn(x, p)'
        <3>1. FiltersOn(x, p)' = FiltersOn(x, p)
            BY <2>1, <2>2, <2>7, SamePolicy
        <3>2. FiltersIn(toRead, p)' = FiltersIn(toRead, p)
            BY <2>1, <2>2, <2>7 DEF FiltersIn
        <3> QED
            BY <2>2, <2>3, <2>7, <3>1, <3>2 DEF Collected
    <2>8. Collected(x, toRead, variants)'
        BY <2>1, <2>5, <2>6, <2>7 DEF Collected
    <2> QED
        BY <2>0, <2>1, <2>8 DEF Collected, AllWereAllowed, FiltersOn
<1>4. CASE Begin \/ End \/ CheckNothing \/ Miss \/ Grant \/ Deny
    <2>1. CASE Begin
        BY <2>1 DEF Begin, KindsInv, RequestInv
    <2>2. CASE End
        BY <2>2 DEF End
    <2> QED
        BY <1>4, <2>1, <2>2, CheckSteps
<1>5. CASE ScopeNothing \/ Compile
    BY <1>5 DEF ScopeNothing, Compile, Reply
<1>6. CASE SearchRole \/ SearchStep
    <2>1. op' # "none"
        BY <1>6, SearchCases DEF SearchRole, Start, fixed
    <2> QED
        BY <2>1 DEF PhaseInv
<1>7. CASE SearchDone
    <2>1. /\ op = "closure" /\ result # "running" /\ toRead' = Closure
          /\ roleAt' = IF out = {} THEN roleAt + 1 ELSE roleAt
          /\ UNCHANGED <<hvars, filters, ask, variants, still, loosened, allowed>>
        BY <1>7 DEF SearchDone, Finish, past
    <2>2. result = "nil" /\ root = ask.roles[roleAt] /\ variants = NoVariants
        BY <2>1 DEF PhaseInv, KindsInv, SearchKinds, VisitInv, RequestInv
    <2>3. out # {}
        BY <2>1 DEF Closure
    <2>4. Collected(root, Closure, NoVariants)
        BY <2>1, <2>2, <2>3, CollectFirst
    <2>5. PICK S : S = Closure
        OBVIOUS
    <2> QED
        BY <1>1, <2>1, <2>2, <2>3, <2>4, <2>5
<1>8. CASE ReadFilters
    <2>1. /\ phase = "scoping" /\ UNCHANGED <<hvars, filters, still, loosened, allowed>>
        BY <1>8 DEF ReadFilters, Scoping
    <2>2. PICK r \in toRead : /\ ~Refused(r) /\ toRead' = toRead \ {r} /\ variants' = Found(r)
                              /\ UNCHANGED <<ask, roleAt>>
        BY <1>8 DEF ReadFilters, Reply
    <2>3. Collected(ask.roles[roleAt], toRead, variants)
        BY <2>1, <2>2 DEF FoundInv
    <2>4. ask.roles[roleAt] \in Asking
        <3>1. ask \in Asks /\ roleAt \in 1 .. Len(ask.roles)
            BY <2>1, <2>2 DEF PhaseInv, KindsInv, RequestInv
        <3> QED
            BY <3>1, RequiredParts
    <2>5. Collected(ask.roles[roleAt], toRead \ {r}, Found(r))
        BY <2>1, <2>2, <2>3, <2>4, CollectMore
    <2> QED
        BY <1>1, <2>1, <2>2, <2>5
<1> QED
    BY ScopeCases, <1>2, <1>3, <1>4, <1>5, <1>6, <1>7, <1>8 DEF Scope
-----------------------------------------------------------------------------
(***************************************************************************)
(* The text of a role, once the last of its filters is read.               *)
(***************************************************************************)
\* What the text selects was allowed to the role on every permission.
LEMMA RoleSelects ==
    ASSUME ask \in Asks, NEW x, NEW vs \in [Perm -> Seq(Filters)], Collected(x, {}, vs),
           NEW E, E = BuildSingleRoleExpr(vs, ask.perms),
           NEW bad, (\E p \in Required : Misread(OrAllExprs(vs[p]))) => bad,
           Compiles(E), ~(bad /\ Len(ask.perms) > 1)
    PROVE  \A row \in RowsWhere(E) : \A p \in Required : <<x, p, row>> \in allowed
<1>1. ask.perms \in Seq(Perm) /\ Len(ask.perms) \in Nat
    BY AskKinds
<1>2. /\ Required \subseteq Perm
      /\ \A p : p \in Required <=> \E i \in 1 .. Len(ask.perms) : p = ask.perms[i]
    BY RequiredParts
<1>3. Len(ask.perms) <= 1 \/ \A i \in 1 .. Len(ask.perms) : ~Misread(OrAllExprs(vs[ask.perms[i]]))
    <2>1. Len(ask.perms) <= 1 \/ ~bad
        BY <1>1
    <2>2. ~bad => \A p \in Required : ~Misread(OrAllExprs(vs[p]))
        OBVIOUS
    <2> QED
        BY <1>2, <2>1, <2>2
<1>4. RowsWhere(E) = { row \in Row : \A i \in 1 .. Len(ask.perms) : row \in PermRows(vs[ask.perms[i]]) }
    BY <1>1, <1>3, RoleTextMeans
<1> SUFFICES ASSUME NEW row \in RowsWhere(E), NEW p \in Required
             PROVE  <<x, p, row>> \in allowed
    OBVIOUS
<1>5. row \in Row /\ row \in PermRows(vs[p])
    BY <1>2, <1>4
<1>6. CASE vs[p] = <<>>
    BY <1>5, <1>6 DEF Collected, AllWereAllowed
<1>7. CASE vs[p] # <<>>
    <2>1. PICK i \in 1 .. Len(vs[p]) : row \in Granting(vs[p][i])
        BY <1>5, <1>7 DEF PermRows
    <2>2. i \in DOMAIN vs[p]
        BY <1>2
    <2> QED
        BY <2>1, <2>2 DEF Collected
<1> QED
    BY <1>6, <1>7

\* In an instance that is left alone, it means what the policy says of the role.
LEMMA RoleExact ==
    ASSUME ask \in Asks, KindsInv, still, NEW x \in Live, NEW vs \in [Perm -> Seq(Filters)],
           Collected(x, {}, vs), NEW E, E = BuildSingleRoleExpr(vs, ask.perms),
           NEW bad, (\E p \in Required : Misread(OrAllExprs(vs[p]))) => bad
    PROVE  /\ \A p \in Perm : Blank \notin FiltersOn(x, p)
           /\ Compiles(E) <=>
                 \/ \E p \in Required : FiltersOn(x, p) = {False}
                 \/ \A p \in Required : True \in FiltersOn(x, p) \/ \A f \in FiltersOn(x, p) : Compiles(f)
           /\ Compiles(E) /\ ~(bad /\ Len(ask.perms) > 1) =>
                 RowsWhere(E) = { row \in Row : \A p \in Required : row \in AllowedRows(x, p) }
<1>1. ask.perms \in Seq(Perm) /\ Len(ask.perms) \in Nat
    BY AskKinds
<1>2. /\ Required \subseteq Perm
      /\ \A p : p \in Required <=> \E i \in 1 .. Len(ask.perms) : p = ask.perms[i]
    BY RequiredParts
<1>3. ASSUME NEW p \in Perm
      PROVE  /\ vs[p] \in Seq(Filters)
             /\ \A f : f \in FiltersOn(x, p) <=> \E i \in 1 .. Len(vs[p]) : f = vs[p][i]
    <2>1. vs[p] \in Seq(Filters) /\ DOMAIN vs[p] = 1 .. Len(vs[p])
        OBVIOUS
    <2>2. FiltersIn({}, p) = {}
        BY DEF FiltersIn
    <2>3. FiltersOn(x, p) = ToSet(vs[p])
        BY <2>2 DEF Collected
    <2> QED
        BY <2>1, <2>3 DEF ToSet
<1>4. ASSUME NEW p \in Perm
      PROVE  /\ PermNone(vs[p]) <=> FiltersOn(x, p) = {False}
             /\ PermCompiles(vs[p]) <=> True \in FiltersOn(x, p) \/ \A f \in FiltersOn(x, p) : Compiles(f)
             /\ PermRows(vs[p]) = AllowedRows(x, p)
    <2> DEFINE s == vs[p]
               F == FiltersOn(x, p)
    <2>1. s \in Seq(Filters) /\ \A f : f \in F <=> \E i \in 1 .. Len(s) : f = s[i]
        BY <1>3
    <2>2. AllowedRows(x, p) = IF F = {} THEN Row ELSE UNION { Granting(f) : f \in F }
        BY DEF AllowedRows
    <2> HIDE DEF s, F
    <2>3. s = <<>> <=> F = {}
        <3>1. s # <<>> => 1 \in 1 .. Len(s)
            BY <2>1
        <3>2. s = <<>> => 1 .. Len(s) = {}
            BY <2>1
        <3>3. F = {} <=> \A f : f \notin F
            OBVIOUS
        <3> QED
            BY <2>1, <3>1, <3>2, <3>3
    <2>4. PermNone(s) <=> F = {False}
        BY <2>1, <2>3 DEF PermNone
    <2>5. PermCompiles(s) <=> True \in F \/ \A f \in F : Compiles(f)
        BY <2>1 DEF PermCompiles
    <2>6. \A f \in F : Granting(f) \subseteq Row
        <3>1. \A i \in 1 .. Len(s) : s[i] \in Expression
            BY <2>1 DEF Filters
        <3> QED
            BY <2>1, <3>1, GrantingParts
    <2>7. PermRows(s) = AllowedRows(x, p)
        <3>1. CASE s = <<>>
            BY <2>2, <2>3, <3>1 DEF PermRows
        <3>2. CASE s # <<>>
            <4>1. PermRows(s) = { row \in Row : \E i \in 1 .. Len(s) : row \in Granting(s[i]) }
                BY <3>2 DEF PermRows
            <4>2. AllowedRows(x, p) = UNION { Granting(f) : f \in F }
                BY <2>2, <2>3, <3>2
            <4> QED
                BY <2>1, <2>6, <4>1, <4>2
        <3> QED
            BY <3>1, <3>2
    <2> QED
        BY <2>4, <2>5, <2>7 DEF s, F
<1>5. \A p \in Perm : Blank \notin FiltersOn(x, p)
    <2>1. \A s \in Seq(Filters) : \A i \in 1 .. Len(s) : s[i] # Blank
        BY DEF Filters
    <2> QED
        BY <1>3, <2>1
<1>6. /\ Compiles(E) <=> \/ \E i \in 1 .. Len(ask.perms) : PermNone(vs[ask.perms[i]])
                         \/ \A i \in 1 .. Len(ask.perms) : PermCompiles(vs[ask.perms[i]])
      /\ Compiles(E) /\ (Len(ask.perms) <= 1 \/ \A i \in 1 .. Len(ask.perms) : ~Misread(OrAllExprs(vs[ask.perms[i]]))) =>
            RowsWhere(E) = { row \in Row : \A i \in 1 .. Len(ask.perms) : row \in PermRows(vs[ask.perms[i]]) }
    BY <1>1, RoleTextMeans
<1>7. Compiles(E) <=>
          \/ \E p \in Required : FiltersOn(x, p) = {False}
          \/ \A p \in Required : True \in FiltersOn(x, p) \/ \A f \in FiltersOn(x, p) : Compiles(f)
    <2>1. Compiles(E) <=> (\E p \in Required : PermNone(vs[p])) \/ \A p \in Required : PermCompiles(vs[p])
        BY <1>2, <1>6
    <2> QED
        BY <1>2, <1>4, <2>1
<1>8. ASSUME Compiles(E), ~(bad /\ Len(ask.perms) > 1)
      PROVE  RowsWhere(E) = { row \in Row : \A p \in Required : row \in AllowedRows(x, p) }
    <2>1. Len(ask.perms) <= 1 \/ \A i \in 1 .. Len(ask.perms) : ~Misread(OrAllExprs(vs[ask.perms[i]]))
        <3>1. Len(ask.perms) <= 1 \/ ~bad
            BY <1>1, <1>8
        <3>2. ~bad => \A p \in Required : ~Misread(OrAllExprs(vs[p]))
            OBVIOUS
        <3> QED
            BY <1>2, <3>1, <3>2
    <2>2. RowsWhere(E) = { row \in Row : \A p \in Required : row \in PermRows(vs[p]) }
        BY <1>2, <1>6, <1>8, <2>1
    <2> QED
        BY <1>2, <1>4, <2>2
<1> QED
    BY <1>5, <1>7, <1>8
\* A text says what it said as long as the instance is left alone, and an
\* expression that was misread stays so.
LEMMA TextKept ==
    ASSUME UNCHANGED <<hvars, filters, ask>>, misread => misread', NEW E
    PROVE  /\ UNCHANGED allowed /\ Restricts(E) => Restricts(E)'
           /\ \A x : TextOf(E, x) => TextOf(E, x)'
<1>1. /\ Required' = Required /\ Asking' = Asking
      /\ \A x, p : FiltersOn(x, p)' = FiltersOn(x, p) /\ AllowedRows(x, p)' = AllowedRows(x, p)
    BY SamePolicy
<1>2. UNCHANGED allowed /\ Restricts(E) => Restricts(E)'
    BY <1>1 DEF Restricts
<1>3. ASSUME NEW x, TextOf(E, x)
      PROVE  TextOf(E, x)'
    BY <1>1, <1>3 DEF TextOf
<1> QED
    BY <1>2, <1>3

\* The texts of the roles before the one that the request is at.
LEMMA TextsKept ==
    ASSUME UNCHANGED <<hvars, filters, ask, still, loosened, allowed, exprs>>, misread => misread',
           phase = "scoping", TextsInv,
           roleAt' = roleAt \/ (still => roleAt' = roleAt + 1 /\ ask.roles[roleAt] \notin Live),
           roleAt \in Nat
    PROVE  TextsInv'
<1> PICK es, k, l : es = exprs /\ k = roleAt' - 1 /\ l = ask.roles
    OBVIOUS
<1>1. Live' = Live
    BY SamePolicy
<1>2. ~loosened => \A i \in DOMAIN es : Restricts(es[i])
    BY DEF TextsInv
<1>3. ASSUME still
      PROVE  /\ \A j \in 1 .. k : l[j] \in Live => \E i \in DOMAIN es : TextOf(es[i], l[j])
             /\ \A i \in DOMAIN es : \E j \in 1 .. k : l[j] \in Live /\ TextOf(es[i], l[j])
    <2>1. /\ \A j \in 1 .. roleAt - 1 : l[j] \in Live => \E i \in DOMAIN es : TextOf(es[i], l[j])
          /\ \A i \in DOMAIN es : \E j \in 1 .. roleAt - 1 : l[j] \in Live /\ TextOf(es[i], l[j])
        BY <1>3 DEF TextsInv
    <2>2. \A j \in 1 .. k : j \in 1 .. roleAt - 1 \/ l[j] \notin Live
        BY <1>3
    <2>3. 1 .. roleAt - 1 \subseteq 1 .. k
        BY <1>3
    <2> QED
        BY <2>1, <2>2, <2>3
<1>4. \A i \in DOMAIN es : /\ Restricts(es[i]) => Restricts(es[i])'
                           /\ \A x : TextOf(es[i], x) => TextOf(es[i], x)'
    BY TextKept
<1>5. /\ ~loosened => \A i \in DOMAIN es : Restricts(es[i])'
      /\ still =>
            /\ \A j \in 1 .. k : l[j] \in Live => \E i \in DOMAIN es : TextOf(es[i], l[j])'
            /\ \A i \in DOMAIN es : \E j \in 1 .. k : l[j] \in Live /\ TextOf(es[i], l[j])'
    BY <1>2, <1>3, <1>4
<1> QED
    BY <1>1, <1>5 DEF TextsInv
\* Roles, links and filters become more: what was selected is allowed still.
LEMMA TextsChange ==
    ASSUME KindsInv, TextsInv, Change, phase = "scoping"
    PROVE  TextsInv'
<1>1. UNCHANGED <<ask, exprs, roleAt, phase, misread>> /\ (still' => still /\ UNCHANGED <<hvars, filters>>)
    BY ChangeCases DEF Change, request
<1>2. Asking' = Asking /\ Required' = Required
    BY <1>1 DEF Asking, Required
<1> PICK es, k, l : es = exprs /\ k = roleAt - 1 /\ l = ask.roles
    OBVIOUS
<1>3. ASSUME ~loosened', NEW i \in DOMAIN es
      PROVE  Restricts(es[i])'
    <2>1. ~loosened /\ allowed \subseteq allowed'
        BY <1>3, ChangeGrows
    <2>2. Restricts(es[i])
        BY <2>1 DEF TextsInv
    <2> QED
        BY <1>1, <1>2, <2>1, <2>2 DEF Restricts
<1>4. ASSUME still'
      PROVE  /\ \A j \in 1 .. k : l[j] \in Live' => \E i \in DOMAIN es : TextOf(es[i], l[j])'
             /\ \A i \in DOMAIN es : \E j \in 1 .. k : l[j] \in Live' /\ TextOf(es[i], l[j])'
    <2>1. Live' = Live
        BY <1>1, <1>4, SamePolicy
    <2>2. /\ \A j \in 1 .. k : l[j] \in Live => \E i \in DOMAIN es : TextOf(es[i], l[j])
          /\ \A i \in DOMAIN es : \E j \in 1 .. k : l[j] \in Live /\ TextOf(es[i], l[j])
        BY <1>1, <1>4 DEF TextsInv
    <2>3. \A i \in DOMAIN es : \A x : TextOf(es[i], x) => TextOf(es[i], x)'
        BY <1>1, <1>4, TextKept
    <2> QED
        BY <2>1, <2>2, <2>3
<1> QED
    BY <1>1, <1>3, <1>4 DEF TextsInv

\* The text of a role is one more.
LEMMA TextsMore ==
    ASSUME UNCHANGED <<hvars, filters, ask, still, loosened, allowed>>, misread => misread',
           phase = "scoping", TextsInv, exprs \in Seq(Filters), roleAt \in Nat \ {0}, roleAt' = roleAt + 1,
           NEW E \in Filters, exprs' = Append(exprs, E), NEW x, x = ask.roles[roleAt],
           ~loosened => Restricts(E)', still => x \in Live /\ TextOf(E, x)'
    PROVE  TextsInv'
<1> PICK es, k, l : es = exprs /\ k = roleAt /\ l = ask.roles
    OBVIOUS
<1>1. Live' = Live
    BY SamePolicy
<1>2. /\ Len(es) \in Nat /\ DOMAIN es = 1 .. Len(es) /\ DOMAIN Append(es, E) = 1 .. Len(es) + 1
      /\ \A i \in 1 .. Len(es) : Append(es, E)[i] = es[i]
      /\ Append(es, E)[Len(es) + 1] = E
    BY DEF Filters
<1> PICK n, new : n = Len(es) /\ new = Append(es, E)
    OBVIOUS
<1>3. /\ n \in Nat /\ DOMAIN es = 1 .. n /\ DOMAIN new = 1 .. n + 1 /\ exprs' = new
      /\ \A i \in 1 .. n : new[i] = es[i] /\ i \in 1 .. n + 1
      /\ new[n + 1] = E /\ n + 1 \in 1 .. n + 1
      /\ \A i \in 1 .. n + 1 : i \in 1 .. n \/ i = n + 1
    BY <1>2
<1>4. /\ \A j \in 1 .. k - 1 : j \in 1 .. k
      /\ \A j \in 1 .. k : j \in 1 .. k - 1 \/ j = k
      /\ k \in 1 .. k /\ roleAt' - 1 = k
    OBVIOUS
<1>5. \A i \in 1 .. n : /\ Restricts(es[i]) => Restricts(es[i])'
                        /\ \A y : TextOf(es[i], y) => TextOf(es[i], y)'
    BY TextKept
<1>6. ASSUME ~loosened, NEW i \in 1 .. n + 1
      PROVE  Restricts(new[i])'
    <2>1. \A m \in 1 .. n : Restricts(es[m])
        BY <1>3, <1>6 DEF TextsInv
    <2> QED
        BY <1>3, <1>5, <1>6, <2>1
<1>7. ASSUME still
      PROVE  /\ \A j \in 1 .. k : l[j] \in Live => \E i \in 1 .. n + 1 : TextOf(new[i], l[j])'
             /\ \A i \in 1 .. n + 1 : \E j \in 1 .. k : l[j] \in Live /\ TextOf(new[i], l[j])'
    <2>1. /\ \A j \in 1 .. k - 1 : l[j] \in Live => \E i \in 1 .. n : TextOf(es[i], l[j])
          /\ \A i \in 1 .. n : \E j \in 1 .. k - 1 : l[j] \in Live /\ TextOf(es[i], l[j])
        BY <1>3, <1>7 DEF TextsInv
    <2>2. l[k] \in Live /\ TextOf(E, l[k])'
        BY <1>7
    <2>3. \A i \in 1 .. n : \A y : TextOf(es[i], y) => TextOf(new[i], y)'
        BY <1>3, <1>5
    <2>4. TextOf(new[n + 1], l[k])'
        BY <1>3, <2>2
    <2>5. ASSUME NEW j \in 1 .. k, l[j] \in Live
          PROVE  \E i \in 1 .. n + 1 : TextOf(new[i], l[j])'
        BY <1>3, <1>4, <2>1, <2>3, <2>4, <2>5
    <2>6. ASSUME NEW i \in 1 .. n + 1
          PROVE  \E j \in 1 .. k : l[j] \in Live /\ TextOf(new[i], l[j])'
        BY <1>3, <1>4, <2>1, <2>2, <2>3, <2>4
    <2> QED
        BY <2>5, <2>6
<1> QED
    BY <1>1, <1>3, <1>4, <1>6, <1>7 DEF TextsInv
\* The filters of one role object more are read: of the last one, and the text
\* of the role is there.
LEMMA TextsRead ==
    ASSUME PhaseInv, KindsInv, AllowedInv, FoundInv, TextsInv, ReadFilters, phase' = "scoping"
    PROVE  TextsInv'
<1>1. phase = "scoping" /\ UNCHANGED <<hvars, filters, still, loosened, allowed>>
    BY DEF ReadFilters, Scoping
<1>2. PICK r \in toRead :
          /\ ~Refused(r) /\ UNCHANGED ask
          /\ \/ UNCHANGED <<roleAt, exprs, misread>>
             \/ /\ toRead = {r}
                /\ exprs' = Append(exprs, BuildSingleRoleExpr(Found(r), ask.perms))
                /\ roleAt' = roleAt + 1
                /\ misread' = (misread \/ \E p \in Required : Misread(OrAllExprs(Found(r)[p])))
    BY DEF ReadFilters, Reply
<1>3. /\ ask \in Asks /\ r \in Role /\ FiltersInv /\ variants \in [Perm -> Seq(Filters)]
      /\ roleAt \in 1 .. Len(ask.roles) /\ exprs \in Seq(Filters)
    BY <1>1 DEF PhaseInv, KindsInv, RequestInv
<1>4. Len(ask.roles) \in Nat /\ roleAt \in Nat /\ roleAt # 0
    BY <1>3, AskKinds
<1>5. CASE UNCHANGED <<roleAt, exprs, misread>>
    BY <1>1, <1>2, <1>4, <1>5, TextsKept
<1>6. CASE /\ toRead = {r}
           /\ exprs' = Append(exprs, BuildSingleRoleExpr(Found(r), ask.perms))
           /\ roleAt' = roleAt + 1
           /\ misread' = (misread \/ \E p \in Required : Misread(OrAllExprs(Found(r)[p])))
    <2> PICK x, vs, bad : x = ask.roles[roleAt] /\ vs = Found(r) /\ bad = misread'
        OBVIOUS
    <2> PICK E : E = BuildSingleRoleExpr(vs, ask.perms)
        OBVIOUS
    <2>1. vs \in [Perm -> Seq(Filters)]
        BY <1>2, <1>3, FoundKinds
    <2>2. E \in Filters
        BY <1>3, <2>1, RoleTextKinds
    <2>3. x \in Asking
        BY <1>3, RequiredParts
    <2>4. (\E p \in Required : Misread(OrAllExprs(vs[p]))) => bad
        BY <1>6
    <2>5. Asking' = Asking /\ Required' = Required
        BY <1>2 DEF Asking, Required
    <2>6. ASSUME ~loosened
          PROVE  Collected(x, {}, vs) /\ x \in Live
        <3>1. Collected(x, toRead, variants)
            BY <1>1, <1>6, <2>6 DEF FoundInv
        <3>2. Collected(x, toRead \ {r}, vs)
            BY <1>1, <1>2, <2>3, <3>1, CollectMore
        <3>3. toRead \ {r} = {}
            BY <1>6
        <3>4. r \in { roles[y] : y \in Ancestors(x) }
            BY <1>6, <3>1 DEF Collected
        <3>5. x \in Live
            BY <3>4, ReachSelf DEF Ancestors
        <3> QED
            BY <3>2, <3>3, <3>5
    <2>7. ASSUME ~loosened
          PROVE  Restricts(E)'
        <3>1. Compiles(E) /\ ~(bad /\ Len(ask.perms) > 1) =>
                  \A row \in RowsWhere(E) : \A p \in Required : <<x, p, row>> \in allowed
            BY <1>3, <2>1, <2>4, <2>6, <2>7, RoleSelects
        <3> QED
            BY <1>1, <1>2, <2>3, <2>5, <3>1 DEF Restricts
    <2>8. ASSUME still
          PROVE  x \in Live /\ TextOf(E, x)'
        <3>1. Collected(x, {}, vs) /\ x \in Live
            BY <2>6, <2>8 DEF AllowedInv
        <3>2. /\ \A p \in Perm : Blank \notin FiltersOn(x, p)
              /\ Compiles(E) <=>
                    \/ \E p \in Required : FiltersOn(x, p) = {False}
                    \/ \A p \in Required : True \in FiltersOn(x, p) \/ \A f \in FiltersOn(x, p) : Compiles(f)
              /\ Compiles(E) /\ ~(bad /\ Len(ask.perms) > 1) =>
                    RowsWhere(E) = { row \in Row : \A p \in Required : row \in AllowedRows(x, p) }
            BY <1>3, <2>1, <2>4, <2>8, <3>1, RoleExact
        <3>3. \A p : FiltersOn(x, p)' = FiltersOn(x, p) /\ AllowedRows(x, p)' = AllowedRows(x, p)
            BY <1>1, <1>2, SamePolicy
        <3> QED
            BY <1>2, <2>5, <3>1, <3>2, <3>3 DEF TextOf
    <2> QED
        BY <1>1, <1>2, <1>3, <1>4, <1>6, <2>2, <2>7, <2>8, TextsMore
<1> QED
    BY <1>2, <1>5, <1>6

\* Every step keeps what is said of the texts.
LEMMA TextsStep ==
    ASSUME PhaseInv, KindsInv, AllowedInv, ClosingInv, FoundInv, TextsInv, [Change \/ Request]_scopevars
    PROVE  TextsInv'
<1> SUFFICES ASSUME phase' = "scoping"
             PROVE  TextsInv'
    BY DEF TextsInv
<1>0. roleAt \in Nat
    <2>1. ask \in Asks \cup {NoAsk} /\ roleAt \in 1 .. Len(ask.roles) + 1
        BY DEF KindsInv, RequestInv
    <2> QED
        BY <2>1
<1>1. CASE UNCHANGED scopevars
    <2>1. UNCHANGED <<hvars, filters, ask, still, loosened, phase, allowed, roleAt, exprs, misread>>
        BY <1>1 DEF scopevars, request, past
    <2> QED
        BY <1>0, <2>1, TextsKept
<1>2. CASE Change
    <2>1. phase = "scoping"
        BY <1>2, ChangeCases DEF request
    <2> QED
        BY <1>2, <2>1, TextsChange
<1>3. CASE Begin \/ CheckNothing \/ Miss \/ Grant \/ Deny
    <2>1. exprs' = <<>> /\ roleAt' = 1
        <3>1. CASE Begin
            BY <3>1 DEF Begin, PhaseInv, KindsInv, RequestInv
        <3>2. CASE CheckNothing \/ Miss \/ Grant \/ Deny
            BY <3>2, CheckSteps
        <3> QED
            BY <1>3, <3>1, <3>2
    <2>2. DOMAIN exprs' = {} /\ 1 .. roleAt' - 1 = {}
        BY <2>1
    <2> QED
        BY <2>2 DEF TextsInv
<1>4. CASE End \/ ScopeNothing \/ Compile
    BY <1>4 DEF End, ScopeNothing, Compile, Reply
<1>5. CASE SearchRole \/ SearchStep
    <2>1. UNCHANGED <<hvars, filters, ask, still, loosened, phase, allowed, roleAt, exprs, misread>>
        BY <1>5, SearchCases DEF SearchRole, Start, fixed, request, past
    <2> QED
        BY <1>0, <2>1, TextsKept
<1>6. CASE SearchDone
    <2>1. /\ op = "closure" /\ result # "running"
          /\ roleAt' = IF out = {} THEN roleAt + 1 ELSE roleAt
          /\ UNCHANGED <<hvars, filters, ask, still, loosened, phase, allowed, exprs, misread>>
        BY <1>6 DEF SearchDone, Finish, past
    <2>2. result = "nil" /\ root = ask.roles[roleAt]
        BY <2>1 DEF PhaseInv, KindsInv, SearchKinds, VisitInv
    <2>3. still => GrowingInv
        BY <2>1 DEF AllowedInv, ClosingInv
    <2>4. still /\ out = {} => ask.roles[roleAt] \notin Live
        BY <2>1, <2>2, <2>3, SearchEnds
    <2> QED
        BY <1>0, <2>1, <2>4, TextsKept
<1>7. CASE ReadFilters
    BY <1>7, TextsRead
<1> QED
    BY ScopeCases, <1>1, <1>2, <1>3, <1>4, <1>5, <1>6, <1>7 DEF Scope
-----------------------------------------------------------------------------
(***************************************************************************)
(* What is answered.                                                       *)
(***************************************************************************)
\* When the policy says that a request fails.
ExtraFails == ExtraFilterCEL(ask.extra) # Blank /\ ~Compiles(ExtraFilterCEL(ask.extra))
Outweighed(x, p) == True \in FiltersOn(x, p) \/ \E q \in Required : FiltersOn(x, q) = {False}
Fails ==
    \/ Required = {} \/ HasBlank
    \/ \E b \in Broken : ~Outweighed(b[1], b[2])
    \/ ExtraFails /\ Asking \cap Live # {}

\* A is what the policy says that the answer is.
IsRight(A) ==
    /\ Fails <=> A = Status("error")
    /\ A \in [rows : SUBSET Row] /\ ~(misread /\ Len(ask.perms) > 1) => A.rows = PolicyRows

\* A selects what was allowed.
IsAllowed(A) ==
    A \in [rows : SUBSET Row] /\ ~(misread /\ Len(ask.perms) > 1) =>
        \A row \in A.rows : \E x \in Asking : \A p \in Required : <<x, p, row>> \in allowed

\* The two properties, of the answer.
LEMMA AnswerParts ==
    /\ ScopeExact <=> (still /\ phase = "done" /\ answer # Status("denied") => IsRight(answer))
    /\ RowsWereAllowed <=> (phase = "done" /\ ~loosened => IsAllowed(answer))
<1>1. ScopeExact <=> (still /\ phase = "done" /\ answer # Status("denied") => IsRight(answer))
    BY DEF ScopeExact, IsRight, Fails, Outweighed, ExtraFails, Selects
<1>2. RowsWereAllowed <=> (phase = "done" /\ ~loosened => IsAllowed(answer))
    BY DEF RowsWereAllowed, IsAllowed, Selects
<1> QED
    BY <1>1, <1>2

\* An error is no denial, and selects nothing.
LEMMA Answers ==
    /\ \A s, rows : Selected(rows) # Status(s) /\ Selected(rows).rows = rows
    /\ Status("error") \notin [rows : SUBSET Row] /\ Status("denied") \notin [rows : SUBSET Row]
    /\ \A rows : rows \subseteq Row => Selected(rows) \in [rows : SUBSET Row]
<1>1. \A s, rows : Selected(rows) # Status(s) /\ Selected(rows).rows = rows
    BY DEF Selected, Status
<1>2. \A rows : rows \subseteq Row => Selected(rows) \in [rows : SUBSET Row]
    BY DEF Selected
<1>3. \A A \in [rows : SUBSET Row] : A = Selected(A.rows)
    BY DEF Selected
<1> QED
    BY <1>1, <1>2, <1>3

\* What the policy says of the answer does not depend on the request's steps.
LEMMA AnswerKept ==
    ASSUME UNCHANGED <<hvars, filters, ask, allowed, misread>>, NEW A
    PROVE  (IsRight(A) => IsRight(A)') /\ (IsAllowed(A) => IsAllowed(A)')
<1>1. /\ Live' = Live /\ Asking' = Asking /\ Required' = Required /\ AllowedNow' = AllowedNow
      /\ \A x, p : FiltersOn(x, p)' = FiltersOn(x, p)
    BY SamePolicy
<1>2. HasBlank' = HasBlank /\ Broken' = Broken
    BY <1>1 DEF HasBlank, Broken
<1>3. PolicyRows' = PolicyRows /\ ExtraFails' = ExtraFails
    BY <1>1 DEF PolicyRows, ExtraRows, ExtraFails
<1>4. Fails' <=> Fails
    BY <1>1, <1>2, <1>3 DEF Fails, Outweighed
<1> QED
    BY <1>1, <1>3, <1>4 DEF IsRight, IsAllowed

\* The rows of the policy: what the filters on every permission allow one of
\* the roles, and the extra filters leave.
LEMMA PolicyRow ==
    ASSUME NEW row
    PROVE  row \in PolicyRows <=>
              /\ row \in ExtraRows
              /\ \E x \in Asking : \A p \in Required : row \in AllowedRows(x, p)
<1>1. row \in PolicyRows <=>
          row \in ExtraRows /\ \E x \in Asking : \A p \in Required : <<x, p, row>> \in AllowedNow
    BY DEF PolicyRows
<1>2. \A x, p : <<x, p, row>> \in AllowedNow <=> x \in Asking /\ p \in Required /\ row \in AllowedRows(x, p)
    BY AllowedTriple
<1> QED
    BY <1>1, <1>2

\* The extra filters, as one text.
LEMMA ExtraParts ==
    ASSUME ask \in Asks, NEW extra, extra = ExtraFilterCEL(ask.extra)
    PROVE  /\ extra \in Seq(Token) /\ ExtraRows \subseteq Row
           /\ extra = Blank => ExtraRows = Row
           /\ extra # Blank /\ Compiles(extra) => RowsWhere(extra) = ExtraRows
<1> PICK texts : texts = ask.extra
    OBVIOUS
<1> DEFINE K == { i \in 1 .. Len(texts) : texts[i] # Blank }
<1>1. texts \in Seq(Expression)
    BY DataScopeAssumption
<1>2. /\ extra \in Expression
      /\ extra = Blank <=> K = {}
      /\ extra # Blank => (Compiles(extra) <=> \A i \in K : Compiles(texts[i]))
      /\ extra # Blank => RowsWhere(extra) = { row \in Row : \A i \in K : row \in RowsWhere(texts[i]) }
    BY <1>1, ExtraMeans
<1>3. \A ts : ts \in ToSet(texts) \ {Blank} <=> \E i \in K : ts = texts[i]
    <2>1. DOMAIN texts = 1 .. Len(texts)
        BY <1>1
    <2> QED
        BY <2>1 DEF ToSet
<1> HIDE DEF K
<1>4. ExtraRows = { row \in Row : \A i \in K : row \in Granting(texts[i]) }
    BY <1>3 DEF ExtraRows
<1>5. ASSUME extra # Blank, Compiles(extra)
      PROVE  RowsWhere(extra) = ExtraRows
    <2>1. \A i \in K : Granting(texts[i]) = RowsWhere(texts[i])
        BY <1>2, <1>5 DEF Granting
    <2> QED
        BY <1>2, <1>4, <1>5, <2>1
<1>6. extra \in Seq(Token)
    BY <1>2 DEF Expression
<1> QED
    BY <1>2, <1>4, <1>5, <1>6
\* What the program selects, of what the texts and the extra filters do.
LEMMA ProgramCases ==
    ASSUME ask \in Asks, exprs \in Seq(Filters), NEW rows, rows = UNION { RowsWhere(exprs[i]) : i \in DOMAIN exprs }
    PROVE  /\ exprs = <<>> => Program = Selected({})
           /\ (\E i \in DOMAIN exprs : ~Compiles(exprs[i])) => Program = Status("error")
           /\ exprs # <<>> /\ (\A i \in DOMAIN exprs : Compiles(exprs[i])) =>
                 IF ExtraFails THEN Program = Status("error") ELSE Program = Selected(rows \cap ExtraRows)
           /\ rows \subseteq Row
<1> PICK extra : extra = ExtraFilterCEL(ask.extra)
    OBVIOUS
<1>1. rows \subseteq Row
    <2>1. \A i \in DOMAIN exprs : exprs[i] \in Seq(Token)
        BY DEF Filters, Expression
    <2> QED
        BY <2>1, MeansRows
<1>2. Program = CASE exprs = <<>> -> Selected({})
                  [] \E i \in DOMAIN exprs : ~Compiles(exprs[i]) -> Status("error")
                  [] OTHER -> IF extra = Blank THEN Selected(rows)
                              ELSE IF Compiles(extra) THEN Selected(rows \cap RowsWhere(extra))
                              ELSE Status("error")
    BY DEF Program
<1>3. DOMAIN <<>> = {}
    OBVIOUS
<1>4. exprs = <<>> => Program = Selected({})
    BY <1>2, <1>3
<1>5. (\E i \in DOMAIN exprs : ~Compiles(exprs[i])) => Program = Status("error")
    BY <1>2, <1>3
<1>6. ASSUME exprs # <<>>, \A i \in DOMAIN exprs : Compiles(exprs[i])
      PROVE  IF ExtraFails THEN Program = Status("error") ELSE Program = Selected(rows \cap ExtraRows)
    <2>1. Program = IF extra = Blank THEN Selected(rows)
                    ELSE IF Compiles(extra) THEN Selected(rows \cap RowsWhere(extra))
                    ELSE Status("error")
        BY <1>2, <1>6
    <2>2. ExtraFails <=> extra # Blank /\ ~Compiles(extra)
        BY DEF ExtraFails
    <2>3. /\ extra = Blank => rows \cap ExtraRows = rows
          /\ extra # Blank /\ Compiles(extra) => RowsWhere(extra) = ExtraRows
        BY <1>1, ExtraParts
    <2> QED
        BY <2>1, <2>2, <2>3
<1> QED
    BY <1>1, <1>4, <1>5, <1>6

\* Texts that select what was allowed make a program that does.
LEMMA ProgramAllowed ==
    ASSUME ask \in Asks, exprs \in Seq(Filters), \A i \in DOMAIN exprs : Restricts(exprs[i])
    PROVE  IsAllowed(Program)
<1> PICK rows : rows = UNION { RowsWhere(exprs[i]) : i \in DOMAIN exprs }
    OBVIOUS
<1> SUFFICES ASSUME Program \in [rows : SUBSET Row], ~(misread /\ Len(ask.perms) > 1), NEW row \in Program.rows
             PROVE  \E x \in Asking : \A p \in Required : <<x, p, row>> \in allowed
    BY DEF IsAllowed
<1>1. exprs # <<>> /\ \A i \in DOMAIN exprs : Compiles(exprs[i])
    BY ProgramCases, Answers
<1>2. Program = Selected(rows \cap ExtraRows)
    BY <1>1, ProgramCases, Answers
<1>3. row \in rows
    BY <1>2, Answers
<1>4. PICK i \in DOMAIN exprs : row \in RowsWhere(exprs[i])
    BY <1>3
<1> QED
    BY <1>1, <1>4 DEF Restricts

\* Texts that mean what the policy says of each role make a program that means
\* what it says of the request.
LEMMA ProgramRight ==
    ASSUME ask \in Asks, ask.perms # <<>>, exprs \in Seq(Filters),
           \A x \in Asking \cap Live : \E i \in DOMAIN exprs : TextOf(exprs[i], x),
           \A i \in DOMAIN exprs : \E x \in Asking \cap Live : TextOf(exprs[i], x)
    PROVE  IsRight(Program)
<1> PICK rows : rows = UNION { RowsWhere(exprs[i]) : i \in DOMAIN exprs }
    OBVIOUS
<1>1. Required # {} /\ Required \subseteq Perm
    <2>1. 1 \in 1 .. Len(ask.perms)
        BY AskKinds
    <2> QED
        BY <2>1, RequiredParts
<1>2. ~HasBlank
    <2> SUFFICES ASSUME NEW x \in Asking \cap Live, NEW p \in Perm
                 PROVE  Blank \notin FiltersOn(x, p)
        BY DEF HasBlank
    <2> QED
        BY DEF TextOf
<1>3. \A x, p : <<x, p>> \in Broken <=>
          x \in Asking \cap Live /\ p \in Required /\ \E f \in FiltersOn(x, p) : ~Compiles(f)
    BY DEF Broken
<1>4. (\E b \in Broken : ~Outweighed(b[1], b[2])) <=> \E i \in DOMAIN exprs : ~Compiles(exprs[i])
    <2>1. ASSUME NEW i \in DOMAIN exprs, ~Compiles(exprs[i])
          PROVE  \E b \in Broken : ~Outweighed(b[1], b[2])
        <3>1. PICK x \in Asking \cap Live : TextOf(exprs[i], x)
            OBVIOUS
        <3>2. PICK p \in Required : True \notin FiltersOn(x, p) /\ \E f \in FiltersOn(x, p) : ~Compiles(f)
            BY <2>1, <3>1 DEF TextOf
        <3>3. \A q \in Required : FiltersOn(x, q) # {False}
            BY <2>1, <3>1 DEF TextOf
        <3>4. <<x, p>> \in Broken /\ ~Outweighed(x, p)
            BY <1>3, <3>1, <3>2, <3>3 DEF Outweighed
        <3> PICK b : b = <<x, p>>
            OBVIOUS
        <3>5. b \in Broken /\ b[1] = x /\ b[2] = p
            BY <3>4
        <3> QED
            BY <3>4, <3>5
    <2>2. ASSUME NEW b \in Broken, ~Outweighed(b[1], b[2])
          PROVE  \E i \in DOMAIN exprs : ~Compiles(exprs[i])
        <3> PICK x, p : x = b[1] /\ p = b[2]
            OBVIOUS
        <3>1. x \in Asking \cap Live /\ p \in Required /\ \E f \in FiltersOn(x, p) : ~Compiles(f)
            BY DEF Broken
        <3>2. PICK i \in DOMAIN exprs : TextOf(exprs[i], x)
            BY <3>1
        <3>3. True \notin FiltersOn(x, p) /\ \A q \in Required : FiltersOn(x, q) # {False}
            BY <2>2 DEF Outweighed
        <3>4. ~Compiles(exprs[i])
            BY <3>1, <3>2, <3>3 DEF TextOf
        <3> QED
            BY <3>4
    <2> QED
        BY <2>1, <2>2
<1>5. Asking \cap Live # {} <=> exprs # <<>>
    <2>1. exprs # <<>> <=> DOMAIN exprs # {}
        BY DEF Filters
    <2>2. DOMAIN exprs # {} => Asking \cap Live # {}
        OBVIOUS
    <2>3. Asking \cap Live # {} => DOMAIN exprs # {}
        OBVIOUS
    <2> QED
        BY <2>1, <2>2, <2>3
<1>6. Fails <=> \/ \E i \in DOMAIN exprs : ~Compiles(exprs[i])
                \/ ExtraFails /\ exprs # <<>>
    BY <1>1, <1>2, <1>4, <1>5 DEF Fails
<1>7. Fails <=> Program = Status("error")
    <2>1. DOMAIN <<>> = {}
        OBVIOUS
    <2> QED
        BY <1>6, <2>1, ProgramCases, Answers
<1>8. ASSUME Program \in [rows : SUBSET Row], ~(misread /\ Len(ask.perms) > 1)
      PROVE  Program.rows = PolicyRows
    <2>1. \A i \in DOMAIN exprs : Compiles(exprs[i])
        BY <1>8, ProgramCases, Answers
    <2>2. Program.rows = rows \cap ExtraRows
        <3>1. CASE exprs = <<>>
            <4>1. rows = {}
                BY <3>1
            <4> QED
                BY <3>1, <4>1, ProgramCases, Answers
        <3>2. CASE exprs # <<>>
            BY <1>8, <2>1, <3>2, ProgramCases, Answers
        <3> QED
            BY <3>1, <3>2
    <2>3. ASSUME NEW i \in DOMAIN exprs, NEW x, TextOf(exprs[i], x)
          PROVE  RowsWhere(exprs[i]) = { row \in Row : \A p \in Required : row \in AllowedRows(x, p) }
        BY <1>8, <2>1, <2>3 DEF TextOf
    <2>4. ASSUME NEW row \in Row
          PROVE  row \in rows <=> \E x \in Asking : \A p \in Required : row \in AllowedRows(x, p)
        <3>1. ASSUME NEW i \in DOMAIN exprs, row \in RowsWhere(exprs[i])
              PROVE  \E x \in Asking : \A p \in Required : row \in AllowedRows(x, p)
            <4>1. PICK x \in Asking \cap Live : TextOf(exprs[i], x)
                OBVIOUS
            <4> QED
                BY <2>3, <3>1, <4>1
        <3>2. ASSUME NEW x \in Asking, \A p \in Required : row \in AllowedRows(x, p)
              PROVE  row \in rows
            <4>1. x \in Live
                BY <1>1, <3>2 DEF AllowedRows
            <4>2. PICK i \in DOMAIN exprs : TextOf(exprs[i], x)
                BY <4>1
            <4>3. row \in RowsWhere(exprs[i])
                BY <2>3, <3>2, <4>2
            <4> QED
                BY <4>3
        <3> QED
            BY <3>1, <3>2
    <2>5. rows \subseteq Row /\ ExtraRows \subseteq Row
        BY ProgramCases, ExtraParts
    <2> QED
        BY <2>2, <2>4, <2>5, PolicyRow
<1> QED
    BY <1>7, <1>8 DEF IsRight
\* When the request ends, its answer is right, and what it selects was allowed.
LEMMA AnswerStep ==
    ASSUME PhaseInv, KindsInv, AllowedInv, FoundInv, TextsInv, ScopeExact, RowsWereAllowed,
           [Change \/ Request]_scopevars
    PROVE  ScopeExact' /\ RowsWereAllowed'
<1> SUFFICES ASSUME phase' = "done"
             PROVE  ScopeExact' /\ RowsWereAllowed'
    BY DEF ScopeExact, RowsWereAllowed, Selects
\* An answer that is right, and selects what was allowed.
<1>1. ASSUME NEW A, A = answer', UNCHANGED <<hvars, filters, ask, still, loosened, allowed, misread>>,
             A # Status("denied") => (still => IsRight(A)) /\ (~loosened => IsAllowed(A))
      PROVE  ScopeExact' /\ RowsWereAllowed'
    <2>1. A # Status("denied") => (still => IsRight(A)') /\ (~loosened => IsAllowed(A)')
        BY <1>1, AnswerKept
    <2>2. IsAllowed(Status("denied"))'
        <3>1. Status("denied") \notin [rows : SUBSET Row]
            BY Answers
        <3> QED
            BY <3>1 DEF IsAllowed
    <2>3. /\ still' /\ answer' # Status("denied") => IsRight(answer)'
          /\ ~loosened' => IsAllowed(answer)'
        BY <1>1, <2>1, <2>2 DEF IsRight, IsAllowed
    <2>4. ScopeExact'
        BY <2>3 DEF ScopeExact, IsRight, Fails, Outweighed, ExtraFails, Selects
    <2>5. RowsWereAllowed'
        BY <2>3 DEF RowsWereAllowed, IsAllowed, Selects
    <2> QED
        BY <2>4, <2>5
\* A request that fails as it should.
<1>2. ASSUME UNCHANGED <<hvars, filters, ask, still, loosened, allowed, misread>>,
             answer' = Status("error"), still => Fails
      PROVE  ScopeExact' /\ RowsWereAllowed'
    <2>1. Status("error") \notin [rows : SUBSET Row]
        BY Answers
    <2>2. (still => IsRight(Status("error"))) /\ IsAllowed(Status("error"))
        BY <1>2, <2>1 DEF IsRight, IsAllowed
    <2> PICK A : A = Status("error")
        OBVIOUS
    <2> QED
        BY <1>1, <1>2, <2>2
<1>3. CASE UNCHANGED scopevars
    <2>1. UNCHANGED <<hvars, filters, ask, still, loosened, allowed, misread, answer, phase>>
        BY <1>3 DEF scopevars, request, past
    <2> PICK A : A = answer
        OBVIOUS
    <2>2. A # Status("denied") => (still => IsRight(A)) /\ (~loosened => IsAllowed(A))
        BY <2>1, AnswerParts
    <2> QED
        BY <1>1, <2>1, <2>2
<1>4. CASE Change \/ Begin \/ End \/ SearchRole \/ SearchStep \/ SearchDone
    <2>1. phase' # "done"
        <3>1. CASE Change
            BY <3>1, ChangeCases DEF request
        <3>2. CASE Begin \/ End
            BY <3>2 DEF Begin, End
        <3>3. CASE SearchRole \/ SearchDone
            BY <3>3 DEF SearchRole, Scoping, SearchDone, PhaseInv, request
        <3>4. CASE SearchStep
            BY <3>4, SearchCases DEF PhaseInv, request
        <3> QED
            BY <1>4, <3>1, <3>2, <3>3, <3>4
    <2> QED
        BY <2>1
<1>5. CASE CheckNothing \/ Miss \/ Grant \/ Deny
    <2>1. answer' = Status("denied")
        BY <1>5, CheckSteps
    <2>2. Status("denied") \notin [rows : SUBSET Row]
        BY Answers
    <2> QED
        BY <2>1, <2>2 DEF ScopeExact, RowsWereAllowed, Selects
<1>6. CASE ScopeNothing
    <2>1. /\ UNCHANGED <<hvars, filters, ask, still, loosened, allowed, misread>>
          /\ answer' = Status("error") /\ ask.perms = <<>>
        BY <1>6 DEF ScopeNothing, Reply, past
    <2>2. Fails
        BY <2>1 DEF Fails, Required
    <2> QED
        BY <1>2, <2>1, <2>2
<1>7. CASE ReadFilters
    <2>1. phase = "scoping" /\ UNCHANGED <<hvars, filters, still, loosened, allowed>>
        BY <1>7 DEF ReadFilters, Scoping
    <2>2. PICK r \in toRead : Refused(r) /\ answer' = Status("error") /\ UNCHANGED <<ask, misread>>
        BY <1>7, <2>1 DEF ReadFilters, Reply
    <2>3. ask \in Asks /\ roleAt \in 1 .. Len(ask.roles) /\ r \in Role
        BY <2>1, <2>2 DEF PhaseInv, KindsInv, RequestInv
    <2>4. ASSUME still
          PROVE  Fails
        <3> PICK x : x = ask.roles[roleAt]
            OBVIOUS
        <3>1. Collected(x, toRead, variants)
            BY <2>1, <2>2, <2>4 DEF FoundInv, AllowedInv
        <3>2. PICK y \in Ancestors(x) : r = roles[y]
            BY <2>2, <3>1 DEF Collected
        <3>3. x \in Asking \cap Live
            BY <2>3, <3>2, RequiredParts, ReachSelf DEF Ancestors
        <3>4. PICK p \in DOMAIN filters[r] : filters[r][p] = Blank
            BY <2>2 DEF Refused
        <3>5. p \in Perm
            BY <2>3, <3>4 DEF KindsInv, HierarchyTypeOK, FiltersInv
        <3>6. Blank \in FiltersOn(x, p)
            BY <3>2, <3>4 DEF FiltersOn
        <3> QED
            BY <3>3, <3>5, <3>6 DEF Fails, HasBlank
    <2> QED
        BY <1>2, <2>1, <2>2, <2>4
<1>8. CASE Compile
    <2> PICK A : A = Program
        OBVIOUS
    <2>1. /\ UNCHANGED <<hvars, filters, ask, still, loosened, allowed, misread>> /\ answer' = A
          /\ phase = "scoping" /\ ask.perms # <<>> /\ roleAt > Len(ask.roles)
        BY <1>8 DEF Compile, Scoping, Reply, past
    <2>2. /\ ask \in Asks /\ exprs \in Seq(Filters) /\ roleAt \in 1 .. Len(ask.roles) + 1
        BY <2>1 DEF PhaseInv, KindsInv, RequestInv
    <2>3. ~loosened => IsAllowed(A)
        BY <2>1, <2>2, ProgramAllowed DEF TextsInv
    <2>4. ASSUME still
          PROVE  IsRight(A)
        <3>1. Len(ask.roles) \in Nat
            BY <2>2, AskKinds
        <3>2. 1 .. roleAt - 1 = 1 .. Len(ask.roles)
            BY <2>1, <2>2, <3>1
        <3>3. \A x : x \in Asking <=> \E j \in 1 .. Len(ask.roles) : x = ask.roles[j]
            BY <2>2, RequiredParts
        <3>4. /\ \A j \in 1 .. roleAt - 1 :
                     ask.roles[j] \in Live => \E i \in DOMAIN exprs : TextOf(exprs[i], ask.roles[j])
              /\ \A i \in DOMAIN exprs :
                     \E j \in 1 .. roleAt - 1 : ask.roles[j] \in Live /\ TextOf(exprs[i], ask.roles[j])
            BY <2>1, <2>4 DEF TextsInv
        <3>5. ASSUME NEW x \in Asking \cap Live
              PROVE  \E i \in DOMAIN exprs : TextOf(exprs[i], x)
            <4>1. PICK j \in 1 .. Len(ask.roles) : x = ask.roles[j]
                BY <3>3
            <4> QED
                BY <3>2, <3>4, <4>1
        <3>6. \A i \in DOMAIN exprs : \E x \in Asking \cap Live : TextOf(exprs[i], x)
            BY <3>2, <3>3, <3>4
        <3> QED
            BY <2>1, <2>2, <3>5, <3>6, ProgramRight
    <2> QED
        BY <1>1, <2>1, <2>3, <2>4
<1> QED
    BY ScopeCases, <1>3, <1>4, <1>5, <1>6, <1>7, <1>8 DEF Scope
-----------------------------------------------------------------------------
(***************************************************************************)
(* The theorems.                                                           *)
(***************************************************************************)
\* Each check is where its code may be, whatever runs meanwhile.
THEOREM ScopeInvAlways == ScopeSpec => []ScopeIInv
<1>1. ScopeInit => ScopeIInv
    BY DEF ScopeInit, Init, ScopeIInv, PhaseInv, PassedInv, ExactInv, AllGrantedWasGranted, CheckExact
<1>2. ScopeIInv /\ [Change \/ Request]_scopevars => ScopeIInv'
    BY PhaseStep, PassedStep, ExactStep DEF ScopeIInv
<1> QED
    BY <1>1, <1>2, PTL DEF ScopeSpec

\* AllGranted says yes only if each permission was granted to one of the roles
\* at some moment of the call, whatever is assigned, revoked and linked between
\* its calls of IsGranted (helper.go:99-112).
THEOREM AllGrantedWasGrantedAlways == ScopeSpec => []AllGrantedWasGranted
<1>1. ScopeIInv => AllGrantedWasGranted
    BY DEF ScopeIInv, PassedInv
<1> QED
    BY ScopeInvAlways, <1>1, PTL

\* In an instance that is left alone, AllGranted and AnyGranted answer as the
\* policy does: no early exit of their loops skips a role or a permission that
\* counts (helper.go:78-112).
THEOREM CheckExactAlways == ScopeSpec => []CheckExact
<1>1. ScopeIInv => CheckExact
    BY DEF ScopeIInv, ExactInv, CheckExact
<1> QED
    BY ScopeInvAlways, <1>1, PTL

\* The variables are of their kinds when the system starts.
LEMMA KindsInit ==
    ASSUME ScopeInit
    PROVE  KindsInv
<1>1. /\ Init /\ perms = [r \in Role |-> {}]
      /\ filters = [r \in Role |-> [p \in {} |-> Blank]]
      /\ phase = "idle" /\ ask = NoAsk /\ permAt = 1 /\ roleAt = 1
      /\ missed = {} /\ toRead = {} /\ variants = NoVariants /\ exprs = <<>> /\ answer = Status("none")
    BY DEF ScopeInit
<1>2. HierarchyTypeOK /\ Consistent
    BY <1>1 DEF Init, HierarchyInit, HierarchyTypeOK, Consistent, Up, Live
<1>3. SearchKinds
    <2>1. Stack(<<>>)
        BY DEF Stack
    <2>2. Nothing \in (ID \cup {None}) \X (Role \cup {None})
        BY DEF Nothing
    <2> QED
        BY <1>1, <2>1, <2>2 DEF Init, SearchKinds
<1>6. VisitInv
    <2>1. DOMAIN <<>> = {}
        OBVIOUS
    <2> QED
        BY <1>1, <2>1 DEF Init, VisitInv
<1>4. FiltersInv
    BY <1>1 DEF FiltersInv
<1>5. RequestInv
    <2>1. NoVariants \in [Perm -> Seq(Filters)] /\ exprs \in Seq(Filters)
        BY <1>1 DEF NoVariants
    <2>2. ask.perms = <<>> /\ ask.roles = <<>> /\ 1 \in 1 .. Len(<<>>) + 1
        BY <1>1 DEF NoAsk
    <2>3. Status("none") \in [status : {"none", "denied", "error"}]
        BY DEF Status
    <2> QED
        BY <1>1, <2>1, <2>2, <2>3 DEF RequestInv
<1> QED
    BY <1>2, <1>3, <1>4, <1>5, <1>6 DEF KindsInv

\* A request collects and selects what was allowed, from the start on.
LEMMA RowsInit ==
    ASSUME ScopeInit
    PROVE  RowsInv
<1>1. op = "none" /\ phase = "idle" /\ still = TRUE /\ loosened = FALSE
    BY DEF ScopeInit, Init
<1> QED
    BY <1>1 DEF RowsInv, AllowedInv, ClosingInv, FoundInv, TextsInv, ScopeExact, RowsWereAllowed, Selects

\* All that the variables of a search and of a request say of one another holds
\* throughout, whatever other goroutines do.
THEOREM RowsInvAlways == ScopeSpec => [](KindsInv /\ RowsInv)
<1>1. ScopeInit => KindsInv /\ RowsInv
    BY KindsInit, RowsInit
<1>2. ScopeIInv /\ ScopeIInv' /\ KindsInv /\ RowsInv /\ [Change \/ Request]_scopevars => (KindsInv /\ RowsInv)'
    <2> SUFFICES ASSUME ScopeIInv, ScopeIInv', KindsInv, RowsInv, [Change \/ Request]_scopevars
                 PROVE  KindsInv' /\ RowsInv'
        OBVIOUS
    <2>1. PhaseInv /\ PhaseInv'
        BY DEF ScopeIInv
    <2>2. AllowedInv /\ ClosingInv /\ FoundInv /\ TextsInv /\ ScopeExact /\ RowsWereAllowed
        BY DEF RowsInv
    <2>3. KindsInv'
        BY <2>1, KindsStep
    <2>4. AllowedInv' /\ ClosingInv' /\ FoundInv' /\ TextsInv'
        BY <2>1, <2>2, AllowedStep, ClosingStep, FoundStep, TextsStep
    <2>5. ScopeExact' /\ RowsWereAllowed'
        BY <2>1, <2>2, AnswerStep
    <2> QED
        BY <2>3, <2>4, <2>5 DEF RowsInv
<1> QED
    BY ScopeInvAlways, <1>1, <1>2, PTL DEF ScopeSpec

\* Every variable holds a value of its kind, and a filter belongs to a permission
\* that its role object has (role.go:69-77, 129-131).
THEOREM ScopeTypeCorrect == ScopeSpec => []ScopeTypeOK
<1>1. ScopeIInv /\ KindsInv => ScopeTypeOK
    <2> SUFFICES ASSUME PhaseInv, KindsInv
                 PROVE  ScopeTypeOK
        BY DEF ScopeIInv
    <2>1. TypeOK
        <3>1. Kinds
            BY DEF KindsInv, SearchKinds, Kinds
        <3> QED
            BY <3>1, TypeParts DEF KindsInv, SearchKinds
    <2>2. \A r \in Role : /\ DOMAIN filters[r] \subseteq perms[r]
                          /\ \A p \in DOMAIN filters[r] : filters[r][p] \in Seq(Token)
        BY DEF KindsInv, FiltersInv, Expression
    <2>3. Seq(Filters) \subseteq Seq(Seq(Token) \ {Blank})
        BY DEF Filters, Expression
    <2> QED
        BY <2>1, <2>2, <2>3 DEF KindsInv, RequestInv, PhaseInv, ScopeTypeOK
<1> QED
    BY ScopeInvAlways, RowsInvAlways, <1>1, PTL

\* In an instance that is left alone, a request selects the rows of the policy,
\* and fails when it has to: no filter of an ancestor is missed, none of another
\* role counts, and joining their texts changes no meaning, but for expressions
\* that are misread (filter_scope.go:40-242).
THEOREM ScopeExactAlways == ScopeSpec => []ScopeExact
<1>1. RowsInv => ScopeExact
    BY DEF RowsInv
<1> QED
    BY RowsInvAlways, <1>1, PTL

\* Edits that take nothing away, in whatever order they meet the search and the
\* reading of the filters, do not let a request see a row that none of its roles
\* was allowed (filter_scope.go:79-96).
THEOREM RowsWereAllowedAlways == ScopeSpec => []RowsWereAllowed
<1>1. RowsInv => RowsWereAllowed
    BY DEF RowsInv
<1> QED
    BY RowsInvAlways, <1>1, PTL
=============================================================================
