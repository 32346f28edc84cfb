----------------------------- MODULE Hierarchy -----------------------------
(***************************************************************************)
(* The shared state of an RBAC instance and the effect each operation of   *)
(* src/rbac.go and src/role.go has on it when nothing interferes.          *)
(*                                                                         *)
(* A role is an object (a *StdRole): Role is the set of these objects and  *)
(* IdOf gives each its immutable id.  Two objects may carry the same id,   *)
(* an object may be edited before it is added or after it was removed, and *)
(* removing an id and adding it again may register another object.         *)
(* What a role object grants is abstracted to the set of permissions that  *)
(* StdRole.Permit accepts; StdRole models its maps and its mutex.          *)
(***************************************************************************)
EXTENDS RoleGraph

CONSTANTS
    ID,     \* role ids
    Role,   \* role objects
    IdOf,   \* the id of each role object
    Perm    \* permissions

ASSUME IdOfAssumption == IdOf \in [Role -> ID]

VARIABLES
    roles,    \* StdRBAC.roles: registered id -> role object
    parents,  \* StdRBAC.parents: id -> set of parent ids
    perms     \* role object -> the permissions it permits

hvars == <<roles, parents, perms>>

Live == DOMAIN roles

\* The roles whose permissions id has: itself and what it inherits from.
Ancestors(id) == Reach(Live, parents, id)

\* Every permission IsGranted(id, _) should accept.
GrantSet(id) == UNION { perms[roles[x]] : x \in Ancestors(id) }

HierarchyInit ==
    /\ roles = [x \in {} |-> x]
    /\ parents = [x \in {} |-> {}]
    /\ perms \in [Role -> SUBSET Perm]

-----------------------------------------------------------------------------
\* SetParents and RemoveParents validate every id before they change anything.
AllKnown(id, ps) == id \in Live /\ ps \subseteq Live

AddRole(r) ==
    /\ IdOf[r] \notin Live
    /\ roles' = [x \in Live \cup {IdOf[r]} |-> IF x = IdOf[r] THEN r ELSE roles[x]]
    /\ UNCHANGED <<parents, perms>>

\* Faulty variant: only the removed id's own entry is dropped.
RemoveRoleOnly(id) ==
    /\ id \in Live
    /\ roles' = [x \in Live \ {id} |-> roles[x]]
    /\ parents' = [x \in DOMAIN parents \ {id} |-> parents[x]]
    /\ UNCHANGED perms

RemoveRole(id) ==
    /\ id \in Live
    /\ roles' = [x \in Live \ {id} |-> roles[x]]
    /\ parents' = Scrub(parents, id)
    /\ UNCHANGED perms

BindParents(id, ps) ==
    /\ AllKnown(id, ps)
    /\ parents' = Bind(parents, id, ps)
    /\ UNCHANGED <<roles, perms>>

UnbindParents(id, ps) ==
    /\ AllKnown(id, ps)
    /\ parents' = Unbind(parents, id, ps)
    /\ UNCHANGED <<roles, perms>>

AssignPerms(r, ps) ==
    /\ perms' = [perms EXCEPT ![r] = @ \cup ps]
    /\ UNCHANGED <<roles, parents>>

RevokePerms(r, ps) ==
    /\ perms' = [perms EXCEPT ![r] = @ \ ps]
    /\ UNCHANGED <<roles, parents>>

-----------------------------------------------------------------------------
HierarchyTypeOK ==
    /\ Live \subseteq ID
    /\ roles \in [Live -> Role]
    /\ DOMAIN parents \subseteq ID
    /\ parents \in [DOMAIN parents -> SUBSET ID]
    /\ perms \in [Role -> SUBSET Perm]

\* A role is registered under its own id, and no parents entry mentions an
\* id that is not a role, as owner or as parent.
Consistent ==
    /\ \A id \in Live : IdOf[roles[id]] = id
    /\ DOMAIN parents \subseteq Live
    /\ \A id \in DOMAIN parents : parents[id] \subseteq Live
=============================================================================
