------------------------------ MODULE RoleMaps ------------------------------
(***************************************************************************)
(* Permissions, the calls of a role object, and the map from permission id *)
(* to permission that a role object keeps (src/role.go, src/permission.go).*)
(*                                                                         *)
(* A permission has an id, may carry a CEL filter, and decides itself      *)
(* which permissions it matches: <<held, asked>> \in Matching when         *)
(* held.Match(asked) is true.                                              *)
(***************************************************************************)
EXTENDS Integers, Sequences

CONSTANTS
    Permission, PermID,
    IdOfPerm,     \* Permission.ID()
    Matching,     \* Permission.Match
    Nil,          \* the nil Permission interface value
    Goroutine,
    RoleRequests  \* the calls goroutines may make

ASSUME PermissionAssumption ==
    /\ IdOfPerm \in [Permission -> PermID]
    /\ Matching \subseteq Permission \X Permission
    /\ Nil \notin Permission

Arguments == Seq(Permission)

RoleRequestType ==
    [op : {"Assign", "Revoke"}, perms : Arguments]
      \cup [op : {"Permit"}, perms : Seq(Permission \cup {Nil})]
      \cup [op : {"Permissions", "FilterPermissions"}]
      \cup [op : {"Get"}, id : PermID]

ASSUME RoleRequestsAssumption == RoleRequests \subseteq RoleRequestType

NoCall == [op |-> "none"]
NoReply == [pending |-> TRUE]
Ok == [err |-> "nil"]
Permitted(b) == [permitted |-> b]
Listed(ps) == [perms |-> ps]
Found(ps) == [found |-> ps]

-----------------------------------------------------------------------------
\* The map m after ps[i], ps[i+1], ... were assigned in this order.
AssignFrom(m, ps, i) ==
    LET named(id) == { j \in i .. Len(ps) : IdOfPerm[ps[j]] = id }
        last(id) == CHOOSE j \in named(id) : \A k \in named(id) : k <= j
    IN  [id \in DOMAIN m \cup { IdOfPerm[ps[j]] : j \in i .. Len(ps) } |->
            IF named(id) # {} THEN ps[last(id)] ELSE m[id]]

\* The map m after ps[i], ps[i+1], ... were revoked.
RevokeFrom(m, ps, i) ==
    [id \in DOMAIN m \ { IdOfPerm[ps[j]] : j \in i .. Len(ps) } |-> m[id]]

Held(m) == { m[id] : id \in DOMAIN m }

\* Some permission of the map matches the one that is asked for.
Covers(m, p) == p # Nil /\ \E h \in Held(m) : <<h, p>> \in Matching

CoversAll(m, ps) == ps # <<>> /\ \A j \in DOMAIN ps : Covers(m, ps[j])
=============================================================================
