----------------------------- MODULE DataScope -----------------------------
(***************************************************************************)
(* Which rows a request sees: it checks its permissions with AllGranted or *)
(* AnyGranted (src/helper.go), composes the row filters of its roles with  *)
(* FilterExprsForRoles and compiles them with NewFilterProgramFromCEL      *)
(* (src/filter_scope.go).  None of these holds a lock between two calls of *)
(* the instance, and other goroutines edit it meanwhile.                   *)
(*                                                                         *)
(* collectRoleClosure is the closure search of Helpers, which this module  *)
(* extends.  A call of IsGranted is that of StdRBAC: a grant is true when  *)
(* it is found, a denial has seen each role object without the permission  *)
(* at some moment of the call.  FilterPermissions is read in one step;     *)
(* StdRole shows what may happen when it is not.                           *)
(*                                                                         *)
(* Filter expressions are the texts of FilterText, where their joining is. *)
(***************************************************************************)
EXTENDS Helpers, FilterText

CONSTANTS
    Plain,  \* a permission without a filter
    Asks,   \* the requests: a check, its roles, permissions and extra filters
    Grants  \* the calls of Assign and Revoke on role objects

ASSUME DataScopeAssumption ==
    /\ Plain \notin Seq(Token)
    /\ \A a \in Asks : /\ a.check \in {"AllGranted", "AnyGranted", "unchecked"}
                       /\ a.roles \in Seq(ID) /\ a.perms \in Seq(Perm)
                       /\ a.extra \in Seq(Expression)
    /\ \A g \in Grants :
          \/ g.op = "Assign" /\ g \in [op : {"Assign"}, role : Role, perm : Perm, filter : Expression \cup {Plain}]
          \/ g.op = "Revoke" /\ g \in [op : {"Revoke"}, role : Role, perm : Perm]

VARIABLES
    filters,   \* role object -> permission -> its filter, for those that have one
    phase,     \* "idle", "checking", "scoping" or "done"
    ask,       \* the request
    permAt,    \* the permission its check is at
    roleAt,    \* the role its check, or its composition, is at
    missed,    \* role objects the current IsGranted saw without the permission
    toRead,    \* role objects of the closure whose filters are still to be read
    variants,  \* permission -> the expressions found on it for the role
    exprs,     \* the expressions of the roles before it
    answer,    \* Status("none"), ("denied") or ("error"), or the rows selected
    \* History since the request began, which no action reads:
    still,     \* nobody has changed anything
    loosened,  \* a filter, a link or a role has been taken away
    granted,   \* the <<role, permission>> granted while the check ran
    allowed,   \* the <<role, permission, row>> allowed while the filters were read
    misread    \* isWrappedExpr has misread the expressions of a role on a permission

past == <<still, loosened, granted, allowed, misread>>
request == <<phase, ask, permAt, roleAt, missed, toRead, variants, exprs, answer>>
search == <<op, root, ids, frames, seen, held, out, result, history>>
scopevars == <<hvars, filters, search, request, past>>

Status(s) == [status |-> s]
Selected(rs) == [rows |-> rs]
NoAsk == [check |-> "none", roles |-> <<>>, perms |-> <<>>, extra |-> <<>>]
NoVariants == [p \in Perm |-> <<>>]
Required == { ask.perms[i] : i \in DOMAIN ask.perms }
Asking == { ask.roles[i] : i \in DOMAIN ask.roles }

-----------------------------------------------------------------------------
\* What the policy says at one moment.

\* The filters on permission p of the roles that x inherits from.
FiltersOn(x, p) ==
    { filters[r][p] : r \in { q \in { roles[y] : y \in Ancestors(x) } :
                                 p \in DOMAIN filters[q] } }

\* The rows that role x may see of what p is needed for: without a filter, all.
AllowedRows(x, p) ==
    LET fs == FiltersOn(x, p) IN
    IF x \notin Live THEN {} ELSE IF fs = {} THEN Row ELSE UNION { Granting(f) : f \in fs }

AllowedNow ==
    UNION { { <<x, p, row>> : row \in AllowedRows(x, p) } : x \in Asking, p \in Required }
GrantedNow ==
    UNION { { <<x, p>> : p \in GrantSet(x) \cap Required } : x \in Asking }

\* The rows of a request: what one of the roles is allowed by the filters on
\* every permission, and the extra filters leave.
ExtraRows == { row \in Row : \A ts \in ToSet(ask.extra) \ {Blank} : row \in Granting(ts) }
PolicyRows ==
    LET now == AllowedNow IN
    { row \in ExtraRows : \E x \in Asking : \A p \in Required : <<x, p, row>> \in now }

HasBlank == \E x \in Asking \cap Live, p \in Perm : Blank \in FiltersOn(x, p)

\* The roles and permissions with a filter that does not compile.
Broken ==
    { b \in (Asking \cap Live) \X Required : \E f \in FiltersOn(b[1], b[2]) : ~Compiles(f) }

-----------------------------------------------------------------------------
ScopeInit ==
    /\ Init /\ perms = [r \in Role |-> {}]
    /\ filters = [r \in Role |-> [p \in {} |-> Blank]]
    /\ phase = "idle" /\ ask = NoAsk /\ permAt = 1 /\ roleAt = 1
    /\ missed = {} /\ toRead = {} /\ variants = NoVariants /\ exprs = <<>> /\ answer = Status("none")
    /\ still = TRUE /\ loosened = FALSE /\ granted = {} /\ allowed = {} /\ misread = FALSE

\* Assign: the permission is set, and its filter set or forgotten.
AssignFilter(r, p, f) ==
    /\ AssignPerms(r, {p})
    /\ filters' = [filters EXCEPT ![r] =
          [x \in IF f = Plain THEN DOMAIN @ \ {p} ELSE DOMAIN @ \cup {p} |->
              IF x = p THEN f ELSE @[x]]]

\* Faulty variant: the filter cache is forgotten.
RevokeKeepingFilter(r, p) == RevokePerms(r, {p}) /\ UNCHANGED filters

\* Revoke: the permission and its filter.
RevokeFilter(r, p) ==
    /\ RevokePerms(r, {p})
    /\ filters' = [filters EXCEPT ![r] = [x \in DOMAIN @ \ {p} |-> @[x]]]

\* The change takes away a filter, a role or a link.
Loosens ==
    \/ \E r \in Role : ~(DOMAIN filters[r] \subseteq DOMAIN filters'[r])
    \/ ~(Live \subseteq Live') \/ ~(Links \subseteq Links')

\* One call of another goroutine.  One that edits the hierarchy waits while
\* IsGranted holds the read lock.  What follows an answer is not a change the
\* request meets: it comes after End.  Nor is a call that changes nothing.
Change ==
    /\ phase # "done"
    /\ \/ missed = {} /\ EditHierarchy /\ UNCHANGED filters
       \/ \E g \in Grants : \/ g.op = "Assign" /\ AssignFilter(g.role, g.perm, g.filter)
                            \/ g.op = "Revoke" /\ RevokeFilter(g.role, g.perm)
    /\ <<hvars, filters>>' # <<hvars, filters>>
    /\ UNCHANGED <<search, request>>
    /\ IF phase = "idle" THEN UNCHANGED past
       ELSE /\ still' = (still /\ UNCHANGED <<hvars, filters>>)
            /\ loosened' = (loosened \/ Loosens)
            /\ granted' = IF phase = "checking" THEN granted \cup GrantedNow' ELSE granted
            /\ allowed' = IF phase = "scoping" THEN allowed \cup AllowedNow' ELSE allowed
            /\ UNCHANGED misread

-----------------------------------------------------------------------------
\* The request: AllGranted or AnyGranted if the caller checks, then the rows.
Begin ==
    /\ phase = "idle"
    /\ ask' \in Asks
    /\ phase' = IF ask'.check = "unchecked" THEN "scoping" ELSE "checking"
    /\ UNCHANGED <<hvars, filters, search, permAt, roleAt, missed, toRead, variants, exprs, answer>>
    /\ still' = TRUE /\ loosened' = FALSE
    /\ granted' = GrantedNow' /\ allowed' = AllowedNow' /\ misread' = FALSE

End ==
    /\ phase = "done"
    /\ phase' = "idle" /\ ask' = NoAsk /\ permAt' = 1 /\ roleAt' = 1
    /\ missed' = {} /\ toRead' = {} /\ variants' = NoVariants /\ exprs' = <<>>
    /\ answer' = Status("none")
    /\ still' = TRUE /\ loosened' = FALSE /\ granted' = {} /\ allowed' = {} /\ misread' = FALSE
    /\ UNCHANGED <<hvars, filters, search>>

\* AllGranted or AnyGranted returns.  Its caller goes on if it is true; what
\* the filters allow counts from then on.
Conclude(ok) ==
    /\ phase' = IF ok THEN "scoping" ELSE "done"
    /\ answer' = IF ok THEN answer ELSE Status("denied")
    /\ permAt' = 1 /\ roleAt' = 1 /\ missed' = {}
    /\ loosened' = FALSE /\ allowed' = AllowedNow
    /\ UNCHANGED <<ask, toRead, variants, exprs, still, granted, misread>>

Continue(p, x) ==
    /\ permAt' = p /\ roleAt' = x /\ missed' = {}
    /\ UNCHANGED <<phase, ask, toRead, variants, exprs, answer, past>>

NextRole == Continue(permAt, roleAt + 1)

\* Faulty variant: the inner loop goes on where it was.
NextPermissionSameRole == Continue(permAt + 1, roleAt)

NextPermission == Continue(permAt + 1, 1)

LastRole == roleAt = Len(ask.roles)
LastPermission == permAt = Len(ask.perms)

\* The check is inside IsGranted(x, p).
Checking ==
    /\ phase = "checking" /\ ask.roles # <<>> /\ ask.perms # <<>>
    /\ UNCHANGED <<hvars, filters, search>>

CheckNothing ==
    /\ phase = "checking" /\ (ask.roles = <<>> \/ ask.perms = <<>>)
    /\ Conclude(FALSE)
    /\ UNCHANGED <<hvars, filters, search>>

Miss ==
    /\ Checking
    /\ \E r \in { roles[y] : y \in Ancestors(ask.roles[roleAt]) } \ missed :
          ask.perms[permAt] \notin perms[r] /\ missed' = missed \cup {r}
    /\ UNCHANGED <<phase, ask, permAt, roleAt, toRead, variants, exprs, answer, past>>

Grant ==
    /\ Checking
    /\ ask.perms[permAt] \in GrantSet(ask.roles[roleAt])
    /\ \/ (ask.check = "AnyGranted" \/ LastPermission) /\ Conclude(TRUE)
       \/ ask.check = "AllGranted" /\ ~LastPermission /\ NextPermission

\* Faulty variant: both checks go on with the next permission.
DenyOne ==
    /\ Checking
    /\ \A y \in Ancestors(ask.roles[roleAt]) : roles[y] \in missed
    /\ \/ ~LastRole /\ NextRole
       \/ LastRole /\ ~LastPermission /\ NextPermission
       \/ LastRole /\ LastPermission /\ Conclude(FALSE)

Deny ==
    /\ Checking
    /\ \A y \in Ancestors(ask.roles[roleAt]) : roles[y] \in missed
    /\ \/ ~LastRole /\ NextRole
       \/ LastRole /\ ask.check = "AnyGranted" /\ ~LastPermission /\ NextPermission
       \/ LastRole /\ (ask.check = "AllGranted" \/ LastPermission) /\ Conclude(FALSE)

-----------------------------------------------------------------------------
\* FilterExprsForRoles, role by role, then NewFilterProgramFromCEL.
Scoping == phase = "scoping" /\ ask.perms # <<>>
Idle == op = "none" /\ toRead = {}

Reply(a) ==
    /\ phase' = "done" /\ answer' = a
    /\ UNCHANGED <<ask, permAt, roleAt, missed, toRead, variants, exprs>>

\* No permission is required: an error, before any role is looked at.
ScopeNothing ==
    /\ phase = "scoping" /\ ask.perms = <<>>
    /\ Reply(Status("error"))
    /\ UNCHANGED <<hvars, filters, search, past>>

SearchRole ==
    /\ Scoping /\ Idle /\ roleAt <= Len(ask.roles)
    /\ Start("closure", ask.roles[roleAt])
    /\ UNCHANGED <<filters, request, past>>

SearchStep ==
    /\ Running("closure")
    /\ ClosureGet \/ ClosureExpand \/ Ascend \/ Complete
    /\ UNCHANGED <<filters, request, past>>

\* Faulty variant: only the role itself.
FirstObject == { r \in { pair[1] : pair \in out } : IdOf[r] = root }

\* The role objects that collectRoleClosure returned.
Closure == { pair[1] : pair \in out }

\* collectRoleClosure returned: a role it does not know is left out.
SearchDone ==
    /\ op = "closure" /\ Finish
    /\ toRead' = Closure
    /\ roleAt' = IF out = {} THEN roleAt + 1 ELSE roleAt
    /\ UNCHANGED <<phase, ask, permAt, missed, variants, exprs, answer, filters, past>>

\* The expressions found once r is read.
Found(r) ==
    [p \in Perm |-> IF p \in DOMAIN filters[r] THEN Append(variants[p], filters[r][p]) ELSE variants[p]]

\* A filter of r fails, whatever permission it belongs to.
Refused(r) == \E p \in DOMAIN filters[r] : filters[r][p] = Blank

\* The closure begins with the role itself; what follows is in no fixed order.
IsNext(r) == IdOf[r] = ask.roles[roleAt] \/ \A q \in toRead : IdOf[q] # ask.roles[roleAt]

ReadFilters ==
    /\ Scoping
    /\ \E r \in toRead :
          /\ IsNext(r)
          /\ \/ Refused(r) /\ Reply(Status("error")) /\ UNCHANGED misread
             \/ /\ ~Refused(r) /\ toRead # {r}
                /\ toRead' = toRead \ {r} /\ variants' = Found(r)
                /\ UNCHANGED <<phase, ask, permAt, roleAt, missed, exprs, answer, misread>>
             \/ /\ ~Refused(r) /\ toRead = {r}
                /\ toRead' = {} /\ variants' = NoVariants
                /\ exprs' = Append(exprs, BuildSingleRoleExpr(Found(r), ask.perms))
                /\ roleAt' = roleAt + 1
                /\ misread' = (misread \/ \E p \in Required : Misread(OrAllExprs(Found(r)[p])))
                /\ UNCHANGED <<phase, ask, permAt, missed, answer>>
    /\ UNCHANGED <<hvars, filters, search, still, loosened, granted, allowed>>

\* NewFilterProgramFromCEL: the conditions of the expressions joined by OR, and
\* by AND that of the extra filter.  Without an expression nothing is selected
\* and nothing is compiled, the extra filter neither.
Program ==
    LET extra == ExtraFilterCEL(ask.extra)
        rows == UNION { RowsWhere(exprs[i]) : i \in DOMAIN exprs }
    IN  CASE exprs = <<>> -> Selected({})
          [] \E i \in DOMAIN exprs : ~Compiles(exprs[i]) -> Status("error")
          [] OTHER -> IF extra = Blank THEN Selected(rows)
                      ELSE IF Compiles(extra) THEN Selected(rows \cap RowsWhere(extra))
                      ELSE Status("error")

Compile ==
    /\ Scoping /\ Idle /\ roleAt > Len(ask.roles)
    /\ Reply(Program)
    /\ UNCHANGED <<hvars, filters, search, past>>

-----------------------------------------------------------------------------
Request ==
    \/ Begin \/ End
    \/ CheckNothing \/ Miss \/ Grant \/ Deny
    \/ ScopeNothing \/ SearchRole \/ SearchStep \/ SearchDone
    \/ ReadFilters \/ Compile

ScopeSpec == ScopeInit /\ [][Change \/ Request]_scopevars

-----------------------------------------------------------------------------
\* Every variable holds a value of its kind, and a filter belongs to a
\* permission that its role object has (role.go:69-77, 129-131).
ScopeTypeOK ==
    /\ TypeOK
    /\ \A r \in Role : /\ DOMAIN filters[r] \subseteq perms[r]
                       /\ \A p \in DOMAIN filters[r] : filters[r][p] \in Seq(Token)
    /\ phase \in {"idle", "checking", "scoping", "done"}
    /\ ask \in Asks \cup {NoAsk}
    /\ permAt \in 1 .. Len(ask.perms) + 1 /\ roleAt \in 1 .. Len(ask.roles) + 1
    /\ missed \subseteq Role /\ toRead \subseteq Role
    /\ variants \in [Perm -> Seq(Seq(Token) \ {Blank})]
    /\ exprs \in Seq(Seq(Token) \ {Blank})
    /\ answer \in [status : {"none", "denied", "error"}] \cup [rows : SUBSET Row]

Answered(a) == phase = "done" /\ answer = a
Selects == phase = "done" /\ answer \in [rows : SUBSET Row]

\* If nobody edits anything, AllGranted and AnyGranted answer as the policy
\* does: every permission, or some permission, is granted to one of the roles
\* (helper.go:78-112).
CheckExact ==
    (still /\ ask.check # "unchecked" /\ phase \in {"scoping", "done"}) =>
        LET has(p) == \E x \in Asking : <<x, p>> \in GrantedNow
            good == /\ Required # {}
                    /\ \/ ask.check = "AllGranted" /\ \A p \in Required : has(p)
                       \/ ask.check = "AnyGranted" /\ \E p \in Required : has(p)
        IN  Answered(Status("denied")) <=> ~good

\* Whatever runs meanwhile, AllGranted says yes only if each permission was
\* granted to one of the roles at some moment of the call, though perhaps not
\* all of them at one moment (helper.go:99-112).
AllGrantedWasGranted ==
    (ask.check = "AllGranted" /\ phase = "scoping") =>
        \A p \in Required : \E x \in Asking : <<x, p>> \in granted

\* If nobody edits anything, the rows selected are those of the policy, unless
\* the expressions of a role on one of several permissions are misread once they
\* are joined (filter_scope.go:225-242).  It is
\* an error that no permission is named or that a role inherits a blank filter;
\* a filter that does not compile is one too, unless "true" outweighs it on its
\* permission or "false" on another, and so is a bad extra filter, unless no
\* role is known (filter_scope.go:40-166).
ScopeExact ==
    (still /\ phase = "done" /\ answer # Status("denied")) =>
        LET extraFails == ExtraFilterCEL(ask.extra) # Blank /\ ~Compiles(ExtraFilterCEL(ask.extra))
            outweighed(x, p) == \/ True \in FiltersOn(x, p)
                                \/ \E q \in Required : FiltersOn(x, q) = {False}
            fails == \/ Required = {} \/ HasBlank
                     \/ \E b \in Broken : ~outweighed(b[1], b[2])
                     \/ extraFails /\ Asking \cap Live # {}
        IN  /\ fails <=> answer = Status("error")
            /\ (Selects /\ ~(misread /\ Len(ask.perms) > 1)) => answer.rows = PolicyRows

\* Edits that take nothing away do not widen what is selected: each row was
\* allowed to one of the roles by the filters on every permission, for each
\* permission at some moment of the composition (filter_scope.go:79-96), unless
\* the expressions on one of several permissions are misread.
RowsWereAllowed ==
    (Selects /\ ~loosened /\ ~(misread /\ Len(ask.perms) > 1)) =>
        \A row \in answer.rows : \E x \in Asking : \A p \in Required : <<x, p, row>> \in allowed
========================================================================
