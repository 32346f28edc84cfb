------------------------------ MODULE StdRBAC ------------------------------
(***************************************************************************)
(* What src/rbac.go promises its callers: every call takes effect at one   *)
(* moment between its invocation and its return.  Clients (goroutines)     *)
(* invoke, one action per operation answers the call and changes the       *)
(* shared state, and Return hands the answer to the client.                *)
(*                                                                         *)
(* IsGranted is the exception.  It reads the hierarchy under the RBAC      *)
(* instance's lock but each role's permissions under that role's own lock, *)
(* so Assign and Revoke may run between two of its reads.  A grant is      *)
(* still true at the moment it is found.  A denial only says that each     *)
(* role of the hierarchy was seen without the permission at some moment    *)
(* of the call: missed records those sightings.                            *)
(*                                                                         *)
(* StdRBACLocking implements this specification with the mutex, the loops  *)
(* and the recursion of the code.                                          *)
(***************************************************************************)
EXTENDS Hierarchy

CONSTANTS
    Client,   \* goroutines
    Requests  \* the calls they may make

RequestType ==
    [op : {"Add"}, role : Role]
      \cup [op : {"Remove", "Get", "GetParents"}, id : ID]
      \cup [op : {"RoleIDs"}]
      \cup [op : {"SetParents", "RemoveParents"}, id : ID, ps : SUBSET ID]
      \cup [op : {"IsGranted"}, id : ID, perm : Perm]
      \cup [op : {"Assign", "Revoke"}, role : Role, perms : SUBSET Perm]

ASSUME RequestsAssumption == Requests \subseteq RequestType

VARIABLES
    call,    \* client -> the call it is making
    reply,   \* client -> the answer to that call
    missed   \* client -> role objects its IsGranted saw without the permission

vars == <<roles, parents, perms, call, reply, missed>>

NoCall == [op |-> "none"]

NoReply == [pending |-> TRUE]
Status(e) == [err |-> e]
Ok == Status("nil")
NotExist == Status("ErrRoleNotExist")
Exist == Status("ErrRoleExist")
Found(r) == [role |-> r]
Listed(ids) == [ids |-> ids]
Granted(b) == [granted |-> b]

Init ==
    /\ HierarchyInit
    /\ call = [c \in Client |-> NoCall]
    /\ reply = [c \in Client |-> NoReply]
    /\ missed = [c \in Client |-> {}]

-----------------------------------------------------------------------------
Pending(c, op) == call[c].op = op /\ reply[c] = NoReply

Answer(c, r) ==
    /\ reply' = [reply EXCEPT ![c] = r]
    /\ UNCHANGED <<call, missed>>

\* A query, or a call that fails, answers and leaves the shared state alone.
Report(c, r) == Answer(c, r) /\ UNCHANGED hvars

Invoke(c) ==
    /\ call[c] = NoCall
    /\ \E q \in Requests : call' = [call EXCEPT ![c] = q]
    /\ UNCHANGED <<roles, parents, perms, reply, missed>>

Return(c) ==
    /\ reply[c] # NoReply
    /\ call' = [call EXCEPT ![c] = NoCall]
    /\ reply' = [reply EXCEPT ![c] = NoReply]
    /\ missed' = [missed EXCEPT ![c] = {}]
    /\ UNCHANGED hvars

Add(c) ==
    /\ Pending(c, "Add")
    /\ \/ AddRole(call[c].role) /\ Answer(c, Ok)
       \/ IdOf[call[c].role] \in Live /\ Report(c, Exist)

\* Faulty variant: the error is copied from Add.
RemoveWithErrorOfAdd(c) ==
    /\ Pending(c, "Remove")
    /\ \/ RemoveRole(call[c].id) /\ Answer(c, Ok)
       \/ call[c].id \notin Live /\ Report(c, Exist)

Remove(c) ==
    /\ Pending(c, "Remove")
    /\ \/ RemoveRole(call[c].id) /\ Answer(c, Ok)
       \/ call[c].id \notin Live /\ Report(c, NotExist)

\* Faulty variant: each parent is validated and inserted in one loop, so an
\* unknown parent is reported after its predecessors were bound.
InsertWhileValidating(c) ==
    /\ Pending(c, "SetParents")
    /\ \/ BindParents(call[c].id, call[c].ps) /\ Answer(c, Ok)
       \/ /\ ~AllKnown(call[c].id, call[c].ps)
          /\ call[c].id \in Live
          /\ parents' = Bind(parents, call[c].id, call[c].ps \cap Live)
          /\ UNCHANGED <<roles, perms>>
          /\ Answer(c, NotExist)
       \/ call[c].id \notin Live /\ Report(c, NotExist)

SetParents(c) ==
    /\ Pending(c, "SetParents")
    /\ \/ BindParents(call[c].id, call[c].ps) /\ Answer(c, Ok)
       \/ ~AllKnown(call[c].id, call[c].ps) /\ Report(c, NotExist)

RemoveParents(c) ==
    /\ Pending(c, "RemoveParents")
    /\ \/ UnbindParents(call[c].id, call[c].ps) /\ Answer(c, Ok)
       \/ ~AllKnown(call[c].id, call[c].ps) /\ Report(c, NotExist)

Get(c) ==
    /\ Pending(c, "Get")
    /\ \/ call[c].id \in Live /\ Report(c, Found(roles[call[c].id]))
       \/ call[c].id \notin Live /\ Report(c, NotExist)

GetParents(c) ==
    /\ Pending(c, "GetParents")
    /\ \/ call[c].id \in Live /\ Report(c, Listed(Up(parents, call[c].id)))
       \/ call[c].id \notin Live /\ Report(c, NotExist)

RoleIDs(c) ==
    /\ Pending(c, "RoleIDs")
    /\ Report(c, Listed(Live))

Assign(c) ==
    /\ Pending(c, "Assign")
    /\ AssignPerms(call[c].role, call[c].perms)
    /\ Answer(c, Ok)

Revoke(c) ==
    /\ Pending(c, "Revoke")
    /\ RevokePerms(call[c].role, call[c].perms)
    /\ Answer(c, Ok)

\* IsGranted looks at one role object and does not find the permission.
Miss(c) ==
    /\ Pending(c, "IsGranted")
    /\ \E r \in Role :
          /\ call[c].perm \notin perms[r]
          /\ missed' = [missed EXCEPT ![c] = @ \cup {r}]
    /\ UNCHANGED <<roles, parents, perms, call, reply>>

Grant(c) ==
    /\ Pending(c, "IsGranted")
    /\ call[c].perm \in GrantSet(call[c].id)
    /\ Report(c, Granted(TRUE))

Deny(c) ==
    /\ Pending(c, "IsGranted")
    /\ \A x \in Ancestors(call[c].id) : roles[x] \in missed[c]
    /\ Report(c, Granted(FALSE))

Next ==
    \E c \in Client :
        \/ Invoke(c) \/ Return(c)
        \/ Add(c) \/ Remove(c) \/ SetParents(c) \/ RemoveParents(c)
        \/ Get(c) \/ GetParents(c) \/ RoleIDs(c)
        \/ Assign(c) \/ Revoke(c)
        \/ Miss(c) \/ Grant(c) \/ Deny(c)

Spec == Init /\ [][Next]_vars

-----------------------------------------------------------------------------
\* The answers an operation can give.
Answers(op) ==
    CASE op = "Add" -> {Ok, Exist}
      [] op \in {"Remove", "SetParents", "RemoveParents"} -> {Ok, NotExist}
      [] op = "Get" -> [role : Role] \cup {NotExist}
      [] op = "GetParents" -> [ids : SUBSET ID] \cup {NotExist}
      [] op = "RoleIDs" -> [ids : SUBSET ID]
      [] op = "IsGranted" -> [granted : BOOLEAN]
      [] op \in {"Assign", "Revoke"} -> {Ok}
      [] op = "none" -> {}

\* Every variable holds a value of its kind; a client holds an answer only to
\* a call it is making, and one that this operation can give.
TypeOK ==
    /\ HierarchyTypeOK
    /\ call \in [Client -> Requests \cup {NoCall}]
    /\ DOMAIN reply = Client
    /\ \A c \in Client : reply[c] \in {NoReply} \cup Answers(call[c].op)
    /\ missed \in [Client -> SUBSET Role]

\* Whatever calls interleave: roles are registered under their own ids, and
\* no inheritance edge starts or ends at an id that is not a role.  Remove
\* has to find every edge to keep this true (rbac.go:143-154).
NoDanglingParents == Consistent

\* The step in which a call of client c to one of ops takes effect.
Effect(c, ops) ==
    /\ call[c].op \in ops
    /\ reply[c] = NoReply
    /\ reply'[c] # NoReply

Ineffective(c) ==
    ( \/ Effect(c, {"Get", "GetParents", "RoleIDs", "IsGranted"})
      \/ Effect(c, {"Add", "Remove", "SetParents", "RemoveParents"}) /\ reply'[c] # Ok )
    => UNCHANGED hvars

Narrowing(c) ==
    Effect(c, {"Remove", "RemoveParents", "Revoke"}) =>
        \A id \in ID : GrantSet(id)' \subseteq GrantSet(id)

Isolated(c) ==
    LET new == IdOf[call[c].role] IN
    (Effect(c, {"Add"}) /\ reply'[c] = Ok) =>
        /\ GrantSet(new)' = perms[call[c].role]
        /\ \A id \in ID \ {new} : GrantSet(id)' = GrantSet(id)

BindsExactly(c) ==
    (Effect(c, {"SetParents"}) /\ reply'[c] = Ok) =>
        \A id \in ID :
            Ancestors(id)' = Ancestors(id) \cup
                IF call[c].id \in Ancestors(id)
                THEN UNION { Ancestors(p) : p \in call[c].ps }
                ELSE {}

\* A call that answers with an error, or only reads, leaves roles, parents
\* and permissions as they were: no partial SetParents (rbac.go:67-80).
ErrorsChangeNothing == [][\A c \in Client : Ineffective(c)]_vars

\* Remove, RemoveParents and Revoke never give a role a permission it did not
\* have: an administrator who takes something away cannot widen access.
RemovalNarrows == [][\A c \in Client : Narrowing(c)]_vars

\* Adding a role changes what no other role is granted, and the new role is
\* granted exactly its own permissions: nothing survives from a role that
\* had the same id and was removed (rbac.go:142-154).
AddIsolated == [][\A c \in Client : Isolated(c)]_vars

\* SetParents(id, ps) adds to the ancestors of id, and of each role that
\* inherits from id, the ancestors of ps, and changes no other role.  It adds
\* to the parents id has and replaces none (rbac.go:75-80).
SetParentsExact == [][\A c \in Client : BindsExactly(c)]_vars
=============================================================================
