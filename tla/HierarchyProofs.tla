-------------------------- MODULE HierarchyProofs --------------------------
(***************************************************************************)
(* What Reach yields, what each edit of the parents map does to it, and    *)
(* what the edits keep true, for hierarchies of any size, cyclic ones      *)
(* included.                                                               *)
(***************************************************************************)
EXTENDS Hierarchy, TLAPS

\* A walk starts at a role and comes to roles only.
LEMMA ReachSelf ==
    ASSUME NEW live, NEW links, NEW x
    PROVE  /\ Reach(live, links, x) \subseteq live
           /\ x \in live => x \in Reach(live, links, x)
           /\ x \notin live => Reach(live, links, x) = {}
BY DEF Reach

\* What a walk comes to, it follows.
LEMMA ReachClosed ==
    ASSUME NEW live, NEW links, NEW x
    PROVE  ClosedUpward(live, links, Reach(live, links, x))
<1> SUFFICES ASSUME NEW y \in Reach(live, links, x),
                    NEW p \in Up(links, y) \cap live,
                    NEW S \in SUBSET live,
                    x \in S, ClosedUpward(live, links, S)
             PROVE  p \in S
    BY ReachSelf DEF ClosedUpward, Reach
<1>1. y \in S
    BY DEF Reach
<1> QED
    BY <1>1 DEF ClosedUpward

\* A walk comes to nothing else.
LEMMA ReachLeast ==
    ASSUME NEW live, NEW links, NEW S, NEW x \in S,
           ClosedUpward(live, links, S \cap live)
    PROVE  Reach(live, links, x) \subseteq S
BY DEF Reach

\* The walk from a role on the way is part of the walk.
LEMMA ReachTransitive ==
    ASSUME NEW live, NEW links, NEW x, NEW y \in Reach(live, links, x)
    PROVE  Reach(live, links, y) \subseteq Reach(live, links, x)
<1>1. Reach(live, links, x) \cap live = Reach(live, links, x)
    BY ReachSelf
<1> QED
    BY <1>1, ReachClosed, ReachLeast

\* With fewer roles and fewer links, a walk comes to fewer roles.
LEMMA ReachMonotone ==
    ASSUME NEW live, NEW links, NEW live2, NEW links2, NEW x,
           live \subseteq live2,
           \A y \in live : Up(links, y) \cap live \subseteq Up(links2, y)
    PROVE  Reach(live, links, x) \subseteq Reach(live2, links2, x)
<1> DEFINE R2 == Reach(live2, links2, x)
<1>1. CASE x \notin live
    BY <1>1, ReachSelf
<1>2. CASE x \in live
    <2>1. x \in R2
        BY <1>2, ReachSelf
    <2>2. ClosedUpward(live2, links2, R2)
        BY ReachClosed
    <2>3. ClosedUpward(live, links, R2 \cap live)
        BY <2>2 DEF ClosedUpward
    <2> HIDE DEF R2
    <2> QED
        BY <2>1, <2>3, ReachLeast DEF R2
<1> QED
    BY <1>1, <1>2

-----------------------------------------------------------------------------
\* Removing links, or a role with its links, opens no way (Unbind, Scrub).
LEMMA UnbindNarrows ==
    ASSUME NEW live, NEW links, NEW id, NEW ps, NEW x
    PROVE  Reach(live, Unbind(links, id, ps), x) \subseteq Reach(live, links, x)
<1>1. \A y \in live :
         Up(Unbind(links, id, ps), y) \cap live \subseteq Up(links, y)
    BY DEF Up, Unbind
<1> QED
    BY <1>1, ReachMonotone

\* Removing a role makes no other reachable.
LEMMA ScrubNarrows ==
    ASSUME NEW live, NEW links, NEW id, NEW x
    PROVE  Reach(live \ {id}, Scrub(links, id), x) \subseteq Reach(live, links, x)
<1>1. \A y \in live \ {id} :
         Up(Scrub(links, id), y) \cap (live \ {id}) \subseteq Up(links, y)
    BY DEF Up, Scrub
<1> QED
    BY <1>1, ReachMonotone

\* Binding parents to id opens, from each role that comes to id, the ways
\* that start at these parents, and no others.
LEMMA BindExact ==
    ASSUME NEW live, NEW links, NEW id \in live, NEW ps \in SUBSET live, NEW x
    PROVE  Reach(live, Bind(links, id, ps), x) =
             Reach(live, links, x) \cup
               IF id \in Reach(live, links, x)
               THEN UNION { Reach(live, links, p) : p \in ps }
               ELSE {}
<1> DEFINE new == Bind(links, id, ps)
           R == Reach(live, links, x)
           Added == UNION { Reach(live, links, p) : p \in ps }
           S == R \cup IF id \in R THEN Added ELSE {}
<1>1. \A y : /\ Up(links, y) \subseteq Up(new, y)
             /\ y # id => Up(new, y) = Up(links, y)
    BY DEF Up, Bind
<1>2. Up(new, id) = Up(links, id) \cup ps
    BY DEF Up, Bind
<1> HIDE DEF new
<1>3. \A y : Reach(live, links, y) \subseteq Reach(live, new, y)
    BY <1>1, ReachMonotone
<1>4. ASSUME id \in R
      PROVE  Added \subseteq Reach(live, new, x)
    <2>1. ClosedUpward(live, new, Reach(live, new, x))
        BY ReachClosed
    <2>2. ps \subseteq Reach(live, new, x)
        BY <1>2, <1>3, <1>4, <2>1 DEF ClosedUpward
    <2>3. \A p \in ps : Reach(live, new, p) \subseteq Reach(live, new, x)
        BY <2>2, ReachTransitive
    <2> QED
        BY <1>3, <2>3
<1>5. S \subseteq Reach(live, new, x)
    BY <1>3, <1>4
<1>6. Reach(live, new, x) \subseteq S
    <2>1. ASSUME NEW y \in S \cap live, NEW p \in Up(new, y) \cap live
          PROVE  p \in S
        <3>1. CASE y = id /\ p \in ps
            <4>1. id \in R
                BY <2>1, <3>1
            <4> QED
                BY <3>1, <4>1, ReachSelf
        <3>2. CASE p \in Up(links, y)
            <4>1. CASE y \in R
                <5>1. ClosedUpward(live, links, R)
                    BY ReachClosed
                <5> QED
                    BY <2>1, <3>2, <4>1, <5>1 DEF ClosedUpward
            <4>2. CASE id \in R /\ y \in Added
                <5>1. PICK q \in ps : y \in Reach(live, links, q)
                    BY <4>2
                <5>2. ClosedUpward(live, links, Reach(live, links, q))
                    BY ReachClosed
                <5>3. p \in Reach(live, links, q)
                    BY <2>1, <3>2, <5>1, <5>2 DEF ClosedUpward
                <5> QED
                    BY <4>2, <5>3
            <4> QED
                BY <2>1, <4>1, <4>2
        <3> QED
            BY <1>1, <1>2, <2>1, <3>1, <3>2
    <2>2. ClosedUpward(live, new, S \cap live)
        BY <2>1 DEF ClosedUpward
    <2>3. CASE x \in live
        <3>1. x \in S
            BY <2>3, ReachSelf
        <3> HIDE DEF S
        <3> QED
            BY <2>2, <3>1, ReachLeast
    <2>4. CASE x \notin live
        BY <2>4, ReachSelf
    <2> QED
        BY <2>3, <2>4
<1> QED
    BY <1>5, <1>6 DEF new

\* A role that no link starts or ends at comes to itself only, and no other
\* walk comes to it.
LEMMA FreshIsolated ==
    ASSUME NEW live, NEW links, NEW id, id \notin live,
           DOMAIN links \subseteq live,
           \A y \in DOMAIN links : links[y] \subseteq live
    PROVE  /\ Reach(live \cup {id}, links, id) = {id}
           /\ \A x : x # id =>
                 Reach(live \cup {id}, links, x) = Reach(live, links, x)
<1> DEFINE all == live \cup {id}
<1>1. \A y : Up(links, y) \subseteq live
    BY DEF Up
<1>2. Up(links, id) = {}
    BY DEF Up
<1>3. Reach(all, links, id) = {id}
    <2>1. ClosedUpward(all, links, {id} \cap all)
        BY <1>2 DEF ClosedUpward
    <2>2. Reach(all, links, id) \subseteq {id}
        BY <2>1, ReachLeast
    <2>3. id \in Reach(all, links, id)
        BY ReachSelf
    <2> QED
        BY <2>2, <2>3
<1>4. ASSUME NEW x, x # id
      PROVE  Reach(all, links, x) = Reach(live, links, x)
    <2> DEFINE R == Reach(live, links, x)
    <2>1. R \subseteq Reach(all, links, x)
        BY ReachMonotone
    <2>2. CASE x \in live
        <3>1. ClosedUpward(live, links, R)
            BY ReachClosed
        <3>2. R \cap all = R
            BY ReachSelf
        <3>3. ClosedUpward(all, links, R \cap all)
            BY <1>1, <3>1, <3>2 DEF ClosedUpward
        <3>4. x \in R
            BY <2>2, ReachSelf
        <3> HIDE DEF R
        <3>5. Reach(all, links, x) \subseteq R
            BY <3>3, <3>4, ReachLeast
        <3> QED
            BY <2>1, <3>5 DEF R
    <2>3. CASE x \notin live
        <3>1. x \notin all
            BY <1>4, <2>3
        <3>2. Reach(all, links, x) = {}
            BY <3>1, ReachSelf
        <3>3. Reach(live, links, x) = {}
            BY <2>3, ReachSelf
        <3> QED
            BY <3>2, <3>3
    <2> QED
        BY <2>2, <2>3
<1> QED
    BY <1>3, <1>4

-----------------------------------------------------------------------------
(***************************************************************************)
(* An edit made entry by entry comes to the edit made at once.             *)
(***************************************************************************)
\* Creating the entry before anything is bound (Bind).
LEMMA BindAfterMake ==
    ASSUME NEW links, NEW id, NEW ps
    PROVE  Bind(Bind(links, id, {}), id, ps) = Bind(links, id, ps)
<1> DEFINE made == Bind(links, id, {})
<1>1. DOMAIN made = DOMAIN links \cup {id}
    BY DEF Bind
<1>2. Up(made, id) = Up(links, id)
    BY DEF Bind, Up
<1>3. \A x \in DOMAIN links \ {id} : made[x] = links[x]
    BY DEF Bind
<1> HIDE DEF made
<1>4. DOMAIN made \cup {id} = DOMAIN links \cup {id}
    BY <1>1
<1>5. \A x \in DOMAIN links \cup {id} :
         (IF x = id THEN Up(made, id) \cup ps ELSE made[x])
           = (IF x = id THEN Up(links, id) \cup ps ELSE links[x])
    BY <1>2, <1>3
<1> DEFINE F == Bind(made, id, ps)
           G == Bind(links, id, ps)
<1>6. DOMAIN F = DOMAIN G /\ \A x \in DOMAIN G : F[x] = G[x]
    BY <1>4, <1>5 DEF Bind
<1>7. F = [x \in DOMAIN F |-> F[x]] /\ G = [x \in DOMAIN G |-> G[x]]
    BY DEF Bind
<1> HIDE DEF F, G
<1>8. F = G
    BY <1>6, <1>7
<1> QED
    BY <1>8 DEF F, G, made

\* Adding one parent before the others.
LEMMA BindEntry ==
    ASSUME NEW links, NEW id \in DOMAIN links, NEW ps, NEW p \in ps,
           NEW more, DOMAIN more = DOMAIN links, more[id] = links[id] \cup {p},
           \A x \in DOMAIN links \ {id} : more[x] = links[x]
    PROVE  Bind(more, id, ps \ {p}) = Bind(links, id, ps)
<1>1. Up(more, id) \cup (ps \ {p}) = Up(links, id) \cup ps
    BY DEF Up
<1>2. \A x \in DOMAIN links \cup {id} :
         (IF x = id THEN Up(more, id) \cup (ps \ {p}) ELSE more[x])
           = (IF x = id THEN Up(links, id) \cup ps ELSE links[x])
    BY <1>1
<1> DEFINE F == Bind(more, id, ps \ {p})
           G == Bind(links, id, ps)
<1>3. DOMAIN F = DOMAIN G /\ \A x \in DOMAIN G : F[x] = G[x]
    BY <1>2 DEF Bind
<1>4. F = [x \in DOMAIN F |-> F[x]] /\ G = [x \in DOMAIN G |-> G[x]]
    BY DEF Bind
<1> HIDE DEF F, G
<1>5. F = G
    BY <1>3, <1>4
<1> QED
    BY <1>5 DEF F, G

\* Deleting one parent before the others (Unbind).
LEMMA UnbindInSteps ==
    ASSUME NEW links, NEW id, NEW ps, NEW p \in ps
    PROVE  Unbind(Unbind(links, id, {p}), id, ps \ {p}) = Unbind(links, id, ps)
BY DEF Unbind

\* Looking at one entry, the id's own or another, before the rest (Scrub).
LEMMA ScrubInSteps ==
    ASSUME NEW links, NEW id
    PROVE  /\ Scrub([y \in DOMAIN links \ {id} |-> links[y]], id) = Scrub(links, id)
           /\ \A x \in DOMAIN links :
                 Scrub([links EXCEPT ![x] = @ \ {id}], id) = Scrub(links, id)
<1>1. Scrub([y \in DOMAIN links \ {id} |-> links[y]], id) = Scrub(links, id)
    BY DEF Scrub
<1>2. ASSUME NEW x \in DOMAIN links
      PROVE  Scrub([links EXCEPT ![x] = @ \ {id}], id) = Scrub(links, id)
    <2> DEFINE less == [links EXCEPT ![x] = @ \ {id}]
    <2>1. DOMAIN less = DOMAIN links
        OBVIOUS
    <2>2. \A y \in DOMAIN links : less[y] \ {id} = links[y] \ {id}
        OBVIOUS
    <2> HIDE DEF less
    <2> QED
        BY <2>1, <2>2 DEF Scrub
<1> QED
    BY <1>1, <1>2

\* When nothing is left to do, the map is what the edit makes of it.
LEMMA NothingLeft ==
    ASSUME NEW links, NEW id, links = [x \in DOMAIN links |-> links[x]]
    PROVE  /\ id \in DOMAIN links => Bind(links, id, {}) = links
           /\ Unbind(links, id, {}) = links
           /\ (\A x \in DOMAIN links : x # id /\ id \notin links[x]) => Scrub(links, id) = links
<1>1. ASSUME id \in DOMAIN links
      PROVE  Bind(links, id, {}) = links
    BY <1>1 DEF Bind, Up
<1>2. Unbind(links, id, {}) = links
    BY DEF Unbind
<1>3. ASSUME \A x \in DOMAIN links : x # id /\ id \notin links[x]
      PROVE  Scrub(links, id) = links
    <2>1. DOMAIN links \ {id} = DOMAIN links /\ \A x \in DOMAIN links : links[x] \ {id} = links[x]
        BY <1>3
    <2> QED
        BY <2>1 DEF Scrub
<1> QED
    BY <1>1, <1>2, <1>3

-----------------------------------------------------------------------------
(***************************************************************************)
(* What every edit keeps.                                                  *)
(***************************************************************************)
\* One operation that takes effect, with any arguments, or none.
AnyEdit ==
    \/ UNCHANGED hvars
    \/ \E r \in Role : AddRole(r)
    \/ \E id \in ID : RemoveRole(id)
    \/ \E id \in ID, ps \in SUBSET ID : BindParents(id, ps) \/ UnbindParents(id, ps)
    \/ \E r \in Role, ps \in SUBSET Perm : AssignPerms(r, ps) \/ RevokePerms(r, ps)

\* Every edit of the hierarchy keeps the types.
LEMMA EditKeepsType ==
    ASSUME HierarchyTypeOK, AnyEdit
    PROVE  HierarchyTypeOK'
<1>1. CASE \E r \in Role : AddRole(r)
    BY <1>1, IdOfAssumption DEF HierarchyTypeOK, AddRole, Live
<1>2. CASE \E id \in ID : RemoveRole(id)
    BY <1>2 DEF HierarchyTypeOK, RemoveRole, Live, Scrub
<1>3. ASSUME NEW id \in ID, NEW ps \in SUBSET ID, BindParents(id, ps)
      PROVE  HierarchyTypeOK'
    BY <1>3 DEF HierarchyTypeOK, BindParents, Live, Bind, Up
<1>4. ASSUME NEW id \in ID, NEW ps \in SUBSET ID, UnbindParents(id, ps)
      PROVE  HierarchyTypeOK'
    BY <1>4 DEF HierarchyTypeOK, UnbindParents, Live, Unbind
<1>5. CASE \E r \in Role, ps \in SUBSET Perm : AssignPerms(r, ps) \/ RevokePerms(r, ps)
    BY <1>5 DEF HierarchyTypeOK, AssignPerms, RevokePerms, Live
<1>6. CASE UNCHANGED hvars
    BY <1>6 DEF HierarchyTypeOK, hvars, Live
<1> QED
    BY <1>1, <1>2, <1>3, <1>4, <1>5, <1>6 DEF AnyEdit

\* Add registers under the role's own id, Remove scrubs every entry,
\* SetParents and RemoveParents know all their ids.
LEMMA EditKeepsConsistent ==
    ASSUME Consistent, AnyEdit
    PROVE  Consistent'
<1>1. CASE UNCHANGED hvars
    BY <1>1 DEF Consistent, hvars, Live
<1>2. ASSUME NEW r \in Role, AddRole(r)
      PROVE  Consistent'
    BY <1>2 DEF Consistent, AddRole, Live
<1>3. ASSUME NEW id \in ID, RemoveRole(id)
      PROVE  Consistent'
    BY <1>3 DEF Consistent, RemoveRole, Live, Scrub
<1>4. ASSUME NEW id \in ID, NEW ps \in SUBSET ID, BindParents(id, ps)
      PROVE  Consistent'
    BY <1>4 DEF Consistent, BindParents, AllKnown, Live, Bind, Up
<1>5. ASSUME NEW id \in ID, NEW ps \in SUBSET ID, UnbindParents(id, ps)
      PROVE  Consistent'
    BY <1>5 DEF Consistent, UnbindParents, Live, Unbind
<1>6. ASSUME NEW r \in Role, NEW ps \in SUBSET Perm, AssignPerms(r, ps) \/ RevokePerms(r, ps)
      PROVE  Consistent'
    BY <1>6 DEF Consistent, AssignPerms, RevokePerms, Live
<1> QED
    BY <1>1, <1>2, <1>3, <1>4, <1>5, <1>6 DEF AnyEdit
=============================================================================
