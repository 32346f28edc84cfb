------------------------------ MODULE Wrapper ------------------------------
(***************************************************************************)
(* The example src/examples/rbac-wrapper: MyRBAC puts a repository (the    *)
(* interface roleRepo) in front of an instance.  Each of its four writing  *)
(* methods first calls the repository and then the instance, and holds no  *)
(* lock over the two.                                                      *)
(*                                                                         *)
(* Several clients call one MyRBAC.  A repository that may be called so is *)
(* atomic, as the instance is; memoryRepo is what the repository's methods *)
(* do, though it has no mutex and is only safe for one client.  Its        *)
(* methods never fail, but the interface lets them: a failing method       *)
(* changes nothing.                                                        *)
(*                                                                         *)
(* A fact is <<id>>, that id is a role, or <<id, parent>>, a link.  The    *)
(* repository and the instance each hold a set of facts.                   *)
(***************************************************************************)
EXTENDS Hierarchy, Integers, Sequences

CONSTANTS
    Client,
    Calls,      \* the calls clients make: an op, an id or role, a set ps
    None,       \* no call
    MaxFails    \* bound on failures of the repository

ASSUME WrapperAssumption ==
    /\ None \notin Calls
    /\ Calls \subseteq
          { k \in [op : {"Add"}, role : Role, id : ID] : k.id = IdOf[k.role] }
            \cup [op : {"Remove"}, id : ID]
            \cup [op : {"SetParents", "RemoveParents"}, id : ID, ps : SUBSET ID]

Fact == (ID \X ID) \cup { <<x>> : x \in ID }

VARIABLES
    repoRoles, repoParents,     \* memoryRepo.roles and memoryRepo.parents
    call,   \* client -> the call it is in, or None
    todo,   \* client -> the parents SetParents has still to hand to AddParent
    at,     \* client -> "repo" or "inner": what it calls next
    fails,  \* failures of the repository
    \* History:
    shared, \* client -> facts another call it overlapped might change too
    doubtful    \* facts on which failed or overlapping calls left a doubt

repo == <<repoRoles, repoParents>>
wvars == <<hvars, repo, call, todo, at, fails, shared, doubtful>>

\* The facts of a set of roles and the links between them.
FactsOf(ids, links) ==
    { <<x>> : x \in ids } \cup { l \in ID \X ID : l[2] \in Up(links, l[1]) }

RepoFacts == FactsOf(repoRoles, repoParents)
InnerFacts == FactsOf(Live, parents)

\* The facts a call may make true or false, in the repository and inside.
Facts(c) ==
    CASE c.op = "Add" -> { <<c.id>> }
      [] c.op = "Remove" ->
            { <<c.id>> } \cup ({c.id} \X ID) \cup (ID \X {c.id})
      [] OTHER -> {c.id} \X c.ps

Busy == { c \in Client : call[c] # None }

-----------------------------------------------------------------------------
WrapperInit ==
    /\ roles = [x \in {} |-> x] /\ parents = [x \in {} |-> {}]
    /\ perms = [r \in Role |-> {}]
    /\ repoRoles = {} /\ repoParents = [x \in {} |-> {}]
    /\ call = [c \in Client |-> None]
    /\ todo = [c \in Client |-> {}]
    /\ at = [c \in Client |-> "repo"]
    /\ fails = 0
    /\ shared = [c \in Client |-> {}]
    /\ doubtful = {}

Begin(c) ==
    /\ call[c] = None
    /\ \E k \in Calls :
          /\ call' = [call EXCEPT ![c] = k]
          /\ todo' = [todo EXCEPT ![c] = IF k.op = "SetParents" THEN k.ps ELSE {}]
          \* SetParents without parents goes straight to the instance.
          /\ at' = [at EXCEPT ![c] = IF k.op = "SetParents" /\ k.ps = {} THEN "inner" ELSE "repo"]
          /\ shared' = [d \in Client |->
                CASE d = c -> { f \in Facts(k) : \E e \in Busy : f \in Facts(call[e]) }
                  [] d \in Busy -> shared[d] \cup (Facts(call[d]) \cap Facts(k))
                  [] OTHER -> shared[d]]
    /\ UNCHANGED <<hvars, repo, fails, doubtful>>

\* The call returns; `doubt` is what it leaves in doubt, `sure` what it makes
\* the same on both sides.
Return(c, doubt, sure) ==
    /\ call' = [call EXCEPT ![c] = None]
    /\ todo' = [todo EXCEPT ![c] = {}]
    /\ at' = [at EXCEPT ![c] = "repo"]
    /\ shared' = [shared EXCEPT ![c] = {}]
    /\ doubtful' = (doubtful \ sure) \cup doubt \cup shared[c]

\* Faulty variant of RepoRemoveRole: the links of other roles to id stay.
RepoRemoveEntry(id) ==
    /\ repoRoles' = repoRoles \ {id}
    /\ repoParents' = [x \in DOMAIN repoParents \ {id} |-> repoParents[x]]

\* The methods of memoryRepo.
RepoAddRole(id) == repoRoles' = repoRoles \cup {id} /\ UNCHANGED repoParents

RepoRemoveRole(id) ==
    /\ repoRoles' = repoRoles \ {id}
    /\ repoParents' = Scrub(repoParents, id)

RepoAddParent(id, p) == repoParents' = Bind(repoParents, id, {p}) /\ UNCHANGED repoRoles

RepoRemoveParents(id, ps) == repoParents' = Unbind(repoParents, id, ps) /\ UNCHANGED repoRoles

\* The next call of the repository succeeds.
RepoStep(c) ==
    /\ c \in Busy /\ at[c] = "repo"
    /\ LET k == call[c]
       IN  \/ k.op = "Add" /\ RepoAddRole(k.id) /\ UNCHANGED todo
           \/ k.op = "Remove" /\ RepoRemoveRole(k.id) /\ UNCHANGED todo
           \/ k.op = "RemoveParents" /\ RepoRemoveParents(k.id, k.ps) /\ UNCHANGED todo
           \/ /\ k.op = "SetParents"
              /\ \E p \in todo[c] : RepoAddParent(k.id, p) /\ todo' = [todo EXCEPT ![c] = @ \ {p}]
    /\ at' = [at EXCEPT ![c] = IF todo'[c] = {} THEN "inner" ELSE "repo"]
    /\ UNCHANGED <<hvars, call, fails, shared, doubtful>>

\* It fails, and the method returns its error: SetParents after some of the
\* parents have been stored.
RepoFails(c) ==
    /\ c \in Busy /\ at[c] = "repo"
    /\ fails < MaxFails
    /\ fails' = fails + 1
    /\ Return(c, IF call[c].op = "SetParents" THEN Facts(call[c]) ELSE {}, {})
    /\ UNCHANGED <<hvars, repo>>

\* The instance's method succeeds.
InnerStep(c) ==
    /\ c \in Busy /\ at[c] = "inner"
    /\ LET k == call[c]
       IN  /\ \/ k.op = "Add" /\ AddRole(k.role)
              \/ k.op = "Remove" /\ RemoveRole(k.id)
              \/ k.op = "SetParents" /\ BindParents(k.id, k.ps)
              \/ k.op = "RemoveParents" /\ UnbindParents(k.id, k.ps)
           /\ Return(c, {}, Facts(k))
    /\ UNCHANGED <<repo, fails>>

\* The instance refuses the call, which the repository has already carried
\* out: a role that is there or not there, or an unknown id.
InnerRefuses(c) ==
    /\ c \in Busy /\ at[c] = "inner"
    /\ LET k == call[c]
       IN  \/ /\ \/ k.op = "Add" /\ k.id \in Live
                 \/ k.op = "Remove" /\ k.id \notin Live
              /\ Return(c, {}, { <<k.id>> })
           \/ /\ k.op \in {"SetParents", "RemoveParents"} /\ ~AllKnown(k.id, k.ps)
              /\ Return(c, Facts(k), {})
    /\ UNCHANGED <<hvars, repo, fails>>

WrapperNext ==
    \E c \in Client :
        Begin(c) \/ RepoStep(c) \/ RepoFails(c) \/ InnerStep(c) \/ InnerRefuses(c)

-----------------------------------------------------------------------------
WrapperTypeOK ==
    /\ HierarchyTypeOK
    /\ repoRoles \subseteq ID
    /\ DOMAIN repoParents \subseteq ID
    /\ repoParents \in [DOMAIN repoParents -> SUBSET ID]
    /\ call \in [Client -> Calls \cup {None}]
    /\ todo \in [Client -> SUBSET ID]
    /\ at \in [Client -> {"repo", "inner"}]
    /\ shared \in [Client -> SUBSET Fact] /\ doubtful \subseteq Fact

\* The repository holds what the instance holds, but for the facts a call in
\* progress is changing and those in doubt: the links that a failed
\* SetParents or RemoveParents named and what two calls changed at a time.
\* Nothing else goes astray, and the next call that goes through for such a
\* fact alone settles it.
RepoAgrees ==
    LET moving == UNION { Facts(call[c]) : c \in Busy }
    IN  \A fact \in Fact :
            fact \notin moving \cup doubtful =>
                (fact \in RepoFacts <=> fact \in InnerFacts)
=============================================================================
