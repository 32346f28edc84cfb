--------------------------- MODULE StdRBACProofs ---------------------------
(***************************************************************************)
(* The contract of src/rbac.go holds for every number of clients, ids,     *)
(* role objects and permissions, and for every set of calls.               *)
(***************************************************************************)
EXTENDS StdRBAC, HierarchyProofs

-----------------------------------------------------------------------------
(***************************************************************************)
(* The calls.                                                              *)
(***************************************************************************)
\* Each call carries the arguments of its operation.
LEMMA CallArguments ==
    ASSUME TypeOK, NEW c \in Client
    PROVE  LET q == call[c] IN
           /\ q.op = "Add" => q.role \in Role
           /\ q.op \in {"Remove", "Get", "GetParents"} => q.id \in ID
           /\ q.op \in {"SetParents", "RemoveParents"} => q.id \in ID /\ q.ps \in SUBSET ID
           /\ q.op = "IsGranted" => q.id \in ID /\ q.perm \in Perm
           /\ q.op \in {"Assign", "Revoke"} => q.role \in Role /\ q.perms \in SUBSET Perm
BY RequestsAssumption DEF TypeOK, RequestType, NoCall

\* Answering a call with an answer of its operation keeps the types of the
\* clients' variables.
LEMMA AnswerType ==
    ASSUME TypeOK, NEW c \in Client, NEW r \in Answers(call[c].op), Answer(c, r),
           HierarchyTypeOK'
    PROVE  TypeOK'
BY DEF TypeOK, Answer

\* What a step does to the shared state: one edit, with the arguments of a
\* call that is then answered with Ok, or nothing.
LEMMA StepEdits ==
    ASSUME TypeOK, [Next]_vars
    PROVE  AnyEdit
<1>1. CASE UNCHANGED vars
    BY <1>1 DEF vars, hvars, AnyEdit
<1>2. ASSUME NEW c \in Client,
             Invoke(c) \/ Return(c) \/ Get(c) \/ GetParents(c) \/ RoleIDs(c)
               \/ Miss(c) \/ Grant(c) \/ Deny(c)
      PROVE  UNCHANGED hvars
    BY <1>2 DEF Invoke, Return, Get, GetParents, RoleIDs, Miss, Grant, Deny, Report, hvars
<1>3. ASSUME NEW c \in Client, Add(c)
      PROVE  UNCHANGED hvars \/ \E r \in Role : AddRole(r)
    BY <1>3, CallArguments DEF Add, Pending, Report
<1>4. ASSUME NEW c \in Client, Remove(c)
      PROVE  UNCHANGED hvars \/ \E id \in ID : RemoveRole(id)
    BY <1>4, CallArguments DEF Remove, Pending, Report
<1>5. ASSUME NEW c \in Client, SetParents(c) \/ RemoveParents(c)
      PROVE  \/ UNCHANGED hvars
             \/ \E id \in ID, ps \in SUBSET ID : BindParents(id, ps) \/ UnbindParents(id, ps)
    BY <1>5, CallArguments DEF SetParents, RemoveParents, Pending, Report
<1>6. ASSUME NEW c \in Client, Assign(c) \/ Revoke(c)
      PROVE  \E r \in Role, ps \in SUBSET Perm : AssignPerms(r, ps) \/ RevokePerms(r, ps)
    BY <1>6, CallArguments DEF Assign, Revoke, Pending
<1> QED
    BY <1>1, <1>2, <1>3, <1>4, <1>5, <1>6 DEF Next, AnyEdit

-----------------------------------------------------------------------------
(***************************************************************************)
(* Type correctness.                                                       *)
(***************************************************************************)
LEMMA InitType == Init => TypeOK
BY DEF Init, HierarchyInit, TypeOK, HierarchyTypeOK, Live, Answers

\* Every step keeps the types.
LEMMA NextType ==
    ASSUME TypeOK, [Next]_vars
    PROVE  TypeOK'
<1>0. HierarchyTypeOK'
    BY StepEdits, EditKeepsType DEF TypeOK
<1> USE DEF TypeOK
<1>1. CASE UNCHANGED vars
    BY <1>1, <1>0 DEF vars
<1>2. ASSUME NEW c \in Client, Invoke(c)
      PROVE  TypeOK'
    <2>1. reply[c] = NoReply
        BY <1>2 DEF Invoke, Answers, NoCall
    <2> QED
        BY <1>2, <1>0, <2>1 DEF Invoke
<1>3. ASSUME NEW c \in Client, Return(c)
      PROVE  TypeOK'
    BY <1>3, <1>0 DEF Return
<1>4. ASSUME NEW c \in Client, Miss(c)
      PROVE  TypeOK'
    BY <1>4, <1>0 DEF Miss
<1>5. ASSUME NEW c \in Client,
             Add(c) \/ Remove(c) \/ SetParents(c) \/ RemoveParents(c) \/ Assign(c) \/ Revoke(c)
      PROVE  \E r \in Answers(call[c].op) : Answer(c, r)
    BY <1>5 DEF Add, Remove, SetParents, RemoveParents, Assign, Revoke, Pending, Report, Answers
<1>6. ASSUME NEW c \in Client, Get(c) \/ GetParents(c) \/ RoleIDs(c) \/ Grant(c) \/ Deny(c)
      PROVE  \E r \in Answers(call[c].op) : Answer(c, r)
    <2>1. \A x : Up(parents, x) \in SUBSET ID
        BY DEF HierarchyTypeOK, Up
    <2>2. CASE Get(c) \/ Grant(c) \/ Deny(c)
        BY <2>2 DEF Get, Grant, Deny, Pending, Report, Answers, HierarchyTypeOK, Found, Granted
    <2>3. CASE GetParents(c) \/ RoleIDs(c)
        BY <2>1, <2>3 DEF GetParents, RoleIDs, Pending, Report, Answers, HierarchyTypeOK, Listed
    <2> QED
        BY <1>6, <2>2, <2>3
<1> HIDE DEF TypeOK
<1>7. ASSUME NEW c \in Client, \E r \in Answers(call[c].op) : Answer(c, r)
      PROVE  TypeOK'
    BY <1>7, <1>0, AnswerType
<1> QED
    BY <1>1, <1>2, <1>3, <1>4, <1>5, <1>6, <1>7 DEF Next

\* Every variable holds a value of its kind, and a client holds an answer
\* only to the call it is making.
THEOREM TypeCorrect == Spec => []TypeOK
<1>1. TypeOK /\ [Next]_vars => TypeOK'
    BY NextType
<1> QED
    BY InitType, <1>1, PTL DEF Spec

-----------------------------------------------------------------------------
(***************************************************************************)
(* No dangling inheritance links.                                          *)
(***************************************************************************)
\* Whatever calls clients make and in whatever order, no inheritance link
\* starts or ends at an id that is not a role (rbac.go:139-160).
THEOREM NoDanglingParentsAlways == Spec => []NoDanglingParents
<1>1. Init => Consistent
    BY DEF Init, HierarchyInit, Consistent, Live
<1>2. TypeOK /\ Consistent /\ [Next]_vars => Consistent'
    BY StepEdits, EditKeepsConsistent
<1> QED
    BY TypeCorrect, <1>1, <1>2, PTL DEF Spec, NoDanglingParents

-----------------------------------------------------------------------------
(***************************************************************************)
(* What the calls may change.                                              *)
(***************************************************************************)
\* The call of c takes effect only in the action of its operation.
LEMMA EffectStep ==
    ASSUME TypeOK, [Next]_vars, NEW c \in Client, reply[c] = NoReply, reply'[c] # NoReply
    PROVE  \/ call[c].op = "Add" /\ Add(c)
           \/ call[c].op = "Remove" /\ Remove(c)
           \/ call[c].op = "SetParents" /\ SetParents(c)
           \/ call[c].op = "RemoveParents" /\ RemoveParents(c)
           \/ call[c].op \in {"Get", "GetParents", "RoleIDs", "IsGranted"} /\ UNCHANGED hvars
           \/ call[c].op = "Assign" /\ Assign(c)
           \/ call[c].op = "Revoke" /\ Revoke(c)
<1>1. PICK d \in Client :
         \/ Invoke(d) \/ Return(d)
         \/ Add(d) \/ Remove(d) \/ SetParents(d) \/ RemoveParents(d)
         \/ Get(d) \/ GetParents(d) \/ RoleIDs(d)
         \/ Assign(d) \/ Revoke(d)
         \/ Miss(d) \/ Grant(d) \/ Deny(d)
    BY DEF Next, vars
<1>2. d = c /\ ~Invoke(d) /\ ~Return(d) /\ ~Miss(d)
    BY <1>1 DEF TypeOK, Invoke, Return, Add, Remove, SetParents, RemoveParents, Get, GetParents,
        RoleIDs, Assign, Revoke, Miss, Grant, Deny, Report, Answer
<1>3. ASSUME Get(c) \/ GetParents(c) \/ RoleIDs(c) \/ Grant(c) \/ Deny(c)
      PROVE  call[c].op \in {"Get", "GetParents", "RoleIDs", "IsGranted"} /\ UNCHANGED hvars
    BY <1>3 DEF Get, GetParents, RoleIDs, Grant, Deny, Report, Pending, hvars
<1> QED
    BY <1>1, <1>2, <1>3 DEF Add, Remove, SetParents, RemoveParents, Assign, Revoke, Pending

\* A call that answers with an error, or only reads, changes nothing
\* (rbac.go:67-74, 111-118, 129-133, 155-157).
THEOREM ErrorsChangeNothingAlways == Spec => ErrorsChangeNothing
<1>1. ASSUME TypeOK, [Next]_vars, NEW c \in Client
      PROVE  Ineffective(c)
    <2>1. CASE Effect(c, {"Get", "GetParents", "RoleIDs", "IsGranted"})
        BY <1>1, <2>1, EffectStep DEF Effect, Ineffective
    <2>2. CASE Effect(c, {"Add", "Remove", "SetParents", "RemoveParents"}) /\ reply'[c] # Ok
        <3>1. Add(c) \/ Remove(c) \/ SetParents(c) \/ RemoveParents(c)
            BY <1>1, <2>2, EffectStep DEF Effect
        <3>2. ~Answer(c, Ok)
            BY <1>1, <2>2 DEF Answer, TypeOK
        <3> QED
            BY <3>1, <3>2 DEF Add, Remove, SetParents, RemoveParents, Report, Ineffective
    <2> QED
        BY <2>1, <2>2 DEF Ineffective
<1>2. TypeOK /\ [Next]_vars => [\A c \in Client : Ineffective(c)]_vars
    BY <1>1
<1> QED
    BY TypeCorrect, <1>2, PTL DEF Spec, ErrorsChangeNothing

\* What a role is granted grows with the roles it comes to and what they permit.
LEMMA GrantSetNarrows ==
    ASSUME NEW id,
           Ancestors(id)' \subseteq Ancestors(id),
           \A x \in Ancestors(id)' : perms'[roles'[x]] \subseteq perms[roles[x]]
    PROVE  GrantSet(id)' \subseteq GrantSet(id)
BY DEF GrantSet

\* Remove, RemoveParents and Revoke widen no role's access, in hierarchies of
\* any size and shape (rbac.go:108-160, role.go:120-132).
THEOREM RemovalNarrowsAlways == Spec => RemovalNarrows
<1>1. ASSUME TypeOK, [Next]_vars, NEW c \in Client,
             Effect(c, {"Remove", "RemoveParents", "Revoke"}), NEW id \in ID
      PROVE  GrantSet(id)' \subseteq GrantSet(id)
    <2>1. \/ UNCHANGED hvars
          \/ RemoveRole(call[c].id)
          \/ UnbindParents(call[c].id, call[c].ps)
          \/ call[c].role \in Role /\ RevokePerms(call[c].role, call[c].perms)
        BY <1>1, EffectStep, CallArguments
        DEF Effect, Remove, RemoveParents, Revoke, Report
    <2>2. CASE UNCHANGED hvars
        BY <2>2 DEF GrantSet, Ancestors, Live, hvars
    <2>3. CASE RemoveRole(call[c].id)
        <3>1. Ancestors(id)' \subseteq Ancestors(id)
            BY <2>3, ScrubNarrows DEF RemoveRole, Ancestors, Live
        <3>2. Ancestors(id)' \subseteq Live'
            BY ReachSelf DEF Ancestors
        <3>3. \A x \in Live' : perms'[roles'[x]] \subseteq perms[roles[x]]
            BY <2>3 DEF RemoveRole, Live
        <3> QED
            BY <3>1, <3>2, <3>3, GrantSetNarrows
    <2>4. CASE UnbindParents(call[c].id, call[c].ps)
        <3>1. Ancestors(id)' \subseteq Ancestors(id)
            BY <2>4, UnbindNarrows DEF UnbindParents, Ancestors, Live
        <3> QED
            BY <2>4, <3>1, GrantSetNarrows DEF UnbindParents
    <2>5. CASE call[c].role \in Role /\ RevokePerms(call[c].role, call[c].perms)
        <3>1. Ancestors(id)' = Ancestors(id)
            BY <2>5 DEF RevokePerms, Ancestors, Live
        <3>2. \A r \in Role : perms'[r] \subseteq perms[r]
            BY <1>1, <2>5 DEF RevokePerms, TypeOK, HierarchyTypeOK
        <3>3. \A x \in Ancestors(id) : roles[x] \in Role
            BY <1>1, ReachSelf DEF TypeOK, HierarchyTypeOK, Ancestors
        <3> QED
            BY <2>5, <3>1, <3>2, <3>3, GrantSetNarrows DEF RevokePerms
    <2> QED
        BY <2>1, <2>2, <2>3, <2>4, <2>5
<1>2. TypeOK /\ [Next]_vars => [\A c \in Client : Narrowing(c)]_vars
    BY <1>1 DEF Narrowing
<1> QED
    BY TypeCorrect, <1>2, PTL DEF Spec, RemovalNarrows

\* A new role brings no permission to another role and gets none from the
\* links of an earlier role with its id (rbac.go:126-160).
THEOREM AddIsolatedAlways == Spec => AddIsolated
<1>1. ASSUME TypeOK, Consistent, [Next]_vars, NEW c \in Client,
             Effect(c, {"Add"}), reply'[c] = Ok
      PROVE  LET new == IdOf[call[c].role] IN
             /\ GrantSet(new)' = perms[call[c].role]
             /\ \A id \in ID \ {new} : GrantSet(id)' = GrantSet(id)
    <2> DEFINE r == call[c].role
               new == IdOf[r]
    <2>1. AddRole(r) /\ new' = new
        <3>1. Add(c)
            BY <1>1, EffectStep DEF Effect
        <3>2. ~Answer(c, Exist)
            BY <1>1 DEF Answer, TypeOK, Ok, Exist, Status
        <3> QED
            BY <3>1, <3>2 DEF Add, Report, Answer
    <2>2. /\ Live' = Live \cup {new}
          /\ new \notin Live
          /\ roles'[new] = r
          /\ \A x \in Live : roles'[x] = roles[x]
          /\ parents' = parents /\ perms' = perms
        BY <2>1 DEF AddRole, Live
    <2>3. /\ Ancestors(new)' = {new}
          /\ \A id \in ID \ {new} : Ancestors(id)' = Ancestors(id)
        <3>1. /\ Reach(Live \cup {new}, parents, new) = {new}
              /\ \A id : id # new =>
                    Reach(Live \cup {new}, parents, id) = Reach(Live, parents, id)
            <4>1. /\ DOMAIN parents \subseteq Live
                  /\ \A y \in DOMAIN parents : parents[y] \subseteq Live
                BY <1>1 DEF Consistent
            <4>2. new \notin Live
                BY <2>2
            <4> HIDE DEF new
            <4> QED
                BY <4>1, <4>2, FreshIsolated
        <3> QED
            BY <2>1, <2>2, <3>1 DEF Ancestors
    <2>4. GrantSet(new)' = perms[r]
        BY <2>1, <2>2, <2>3 DEF GrantSet
    <2>5. ASSUME NEW id \in ID \ {new}
          PROVE  GrantSet(id)' = GrantSet(id)
        <3>1. Ancestors(id) \subseteq Live
            BY ReachSelf DEF Ancestors
        <3> QED
            BY <2>2, <2>3, <3>1 DEF GrantSet
    <2> QED
        BY <2>4, <2>5
<1>2. TypeOK /\ Consistent /\ [Next]_vars => [\A c \in Client : Isolated(c)]_vars
    BY <1>1 DEF Isolated
<1> QED
    BY TypeCorrect, NoDanglingParentsAlways, <1>2, PTL
    DEF Spec, AddIsolated, NoDanglingParents

\* SetParents adds the ancestors of the new parents to every role that comes
\* to id and changes nothing else, also when it closes a cycle (rbac.go:64-82).
THEOREM SetParentsExactAlways == Spec => SetParentsExact
<1>1. ASSUME TypeOK, [Next]_vars, NEW c \in Client,
             Effect(c, {"SetParents"}), reply'[c] = Ok, NEW y \in ID
      PROVE  Ancestors(y)' = Ancestors(y) \cup
                 IF call[c].id \in Ancestors(y)
                 THEN UNION { Ancestors(p) : p \in call[c].ps }
                 ELSE {}
    <2>1. BindParents(call[c].id, call[c].ps)
        <3>1. SetParents(c)
            BY <1>1, EffectStep DEF Effect
        <3>2. ~Answer(c, NotExist)
            BY <1>1 DEF Answer, TypeOK, Ok, NotExist, Status
        <3> QED
            BY <3>1, <3>2 DEF SetParents, Report
    <2>2. /\ call[c].id \in Live /\ call[c].ps \in SUBSET Live
          /\ Live' = Live
          /\ parents' = Bind(parents, call[c].id, call[c].ps)
        BY <2>1 DEF BindParents, AllKnown, Live
    <2> QED
        BY <2>2, BindExact DEF Ancestors
<1>2. TypeOK /\ [Next]_vars => [\A c \in Client : BindsExactly(c)]_vars
    BY <1>1 DEF BindsExactly
<1> QED
    BY TypeCorrect, <1>2, PTL DEF Spec, SetParentsExact
=============================================================================
