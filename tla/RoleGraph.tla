----------------------------- MODULE RoleGraph -----------------------------
(***************************************************************************)
(* The inheritance graph of an RBAC instance as pure operators.            *)
(*                                                                         *)
(* src/rbac.go keeps a map parents : id -> set of parent ids.  A map is a  *)
(* function whose DOMAIN is the set of ids that have an entry: an id may   *)
(* be a role and have no entry (SetParents was never called), or have an   *)
(* entry that is the empty set (every parent was removed again).           *)
(***************************************************************************)

\* The parents of x: what ranging over rbac.parents[x] yields.  Reading an
\* absent key of a Go map gives a nil map, over which a range does nothing.
Up(parents, x) == IF x \in DOMAIN parents THEN parents[x] ELSE {}

\* S contains, with every live id, each of its live parents.
ClosedUpward(live, parents, S) ==
    \A y \in S : Up(parents, y) \cap live \subseteq S

\* The ids a walk from x along parents can come to, x included: the least
\* set of live ids that holds x and is closed upward.  Stated without
\* recursion, as the reference for the traversals of the code.
Reach(live, parents, x) ==
    { y \in live :
        /\ x \in live
        /\ \A S \in SUBSET live :
              (x \in S /\ ClosedUpward(live, parents, S)) => y \in S }

\* Some role inherits from itself, directly or through other roles.
Cyclic(live, parents) ==
    \E x \in live : \E p \in Up(parents, x) \cap live :
        x \in Reach(live, parents, p)

-----------------------------------------------------------------------------
\* The three edits of the parents map.

\* Faulty variant: the entry is replaced.
BindAnew(parents, id, ps) ==
    [x \in DOMAIN parents \cup {id} |-> IF x = id THEN ps ELSE parents[x]]

\* SetParents: create the entry if it is missing, then add every parent.
Bind(parents, id, ps) ==
    [x \in DOMAIN parents \cup {id} |->
        IF x = id THEN Up(parents, id) \cup ps ELSE parents[x]]

\* Faulty variant: the loop of SetParents, copied.
UnbindByBinding(parents, id, ps) == Bind(parents, id, ps)

\* RemoveParents: delete from the entry, which stays even when it is empty.
Unbind(parents, id, ps) ==
    [x \in DOMAIN parents |->
        IF x = id THEN parents[x] \ ps ELSE parents[x]]

\* Faulty variant: the id's own entry stays, for whoever gets the id next.
ScrubOthers(parents, id) ==
    [x \in DOMAIN parents |-> IF x = id THEN parents[x] ELSE parents[x] \ {id}]

\* Remove: drop the id's own entry and the id from every other entry.
Scrub(parents, id) ==
    [x \in DOMAIN parents \ {id} |-> parents[x] \ {id}]
=============================================================================
