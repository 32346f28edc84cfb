---------------------------- MODULE HelpersProofs ----------------------------
(***************************************************************************)
(* What Walk, InherCircle and collectRoleClosure return is right for every *)
(* set of ids, role objects and edits, and for hierarchies of any shape.   *)
(***************************************************************************)
EXTENDS Helpers, HierarchyProofs, SequenceTheorems, FiniteSetTheorems

-----------------------------------------------------------------------------
(***************************************************************************)
(* The inductive invariant.                                                *)
(***************************************************************************)
\* Nothing is left over from an earlier helper; each helper uses the variables
\* that its code has; and what it has returned fits how far it has come.
ControlInv ==
    /\ op = "none" =>
          /\ result = "running" /\ ids = {} /\ frames = <<>> /\ seen = {}
          /\ held = Nothing /\ out = {} /\ gone = {} /\ quiet
    /\ op = "walk" => frames = <<>>
    /\ op = "circle" /\ result = "running" => held = Nothing
    /\ op = "closure" => root \in ID /\ result \in {"running", "nil"}
    /\ result = "nil" => frames = <<>> /\ ids = {} /\ held = Nothing
    /\ result = "ErrFoundCircle" => op = "circle"
    /\ result = "handler error" => op = "walk"

\* The object in hand was registered under the id it was asked for.
HeldInv ==
    (op \in {"walk", "closure"} /\ held # Nothing) =>
        /\ held \in ID \X Role
        /\ IdOf[held[2]] = held[1] /\ held[2] \in lived

\* The history has what there is now, and all that ever was unless it is gone.
HistoryInv ==
    op # "none" =>
        /\ Links \subseteq linked /\ Objects \subseteq lived
        /\ begun \subseteq Live \cup gone
        /\ quiet => gone = {} /\ linked = Links

\* Every id that Walk and InherCircle have still to look at was a role once:
\* it is one, or it was removed.
KnownInv ==
    /\ op \in {"walk", "circle"} =>
          /\ ids \subseteq Live \cup gone
          /\ \A i \in DOMAIN frames : frames[i].todo \subseteq Live \cup gone
    /\ (op = "walk" /\ held # Nothing) => held[1] \in Live \cup gone
    /\ NotExistMeansRemoved

\* Walk has each id of its snapshot in one place: still to take, in hand, or
\* in one pair that the handler got.
WalkInv ==
    op = "walk" =>
        /\ \A id \in begun :
              id \in ids \cup {held[1]} \/ \E pair \in out : IdOf[pair[1]] = id
        /\ \A pair \in out : IdOf[pair[1]] \notin ids \cup {held[1]}
        /\ \A pair, pair2 \in out : IdOf[pair[1]] = IdOf[pair2[1]] => pair = pair2
        /\ held[1] \notin ids
        /\ \A pair \in out : pair[1] \in lived

\* The stack of InherCircle is a path of links, and so is each parent to come.
PathInv ==
    op = "circle" =>
        /\ \A i \in DOMAIN frames : \A p \in frames[i].todo : <<frames[i].id, p>> \in linked
        /\ \A i \in 2 .. Len(frames) : <<frames[i].id, frames[i-1].id>> \in linked
        /\ result = "ErrFoundCircle" =>
              frames # <<>> /\ held[1] \in frames[1].todo /\ OnStack(held[1])

\* No walk from x comes to an id that inherits from itself.
NoCircleFrom(x) ==
    \A y \in Ancestors(x) : \A p \in Up(parents, y) \cap Live : y \notin Ancestors(p)

\* In an instance that is left alone, the stack F of InherCircle holds ids with
\* their ancestors, and an id or a parent that is neither on the stack nor
\* still to be searched leads to no circle.
CircleState(I, F, S) ==
    /\ \A x \in S : NoCircleFrom(x)
    /\ \A x \in Live :
          x \in I \/ NoCircleFrom(x) \/ (F # <<>> /\ x = F[Len(F)].id)
    /\ \A i \in DOMAIN F :
          /\ F[i].id \in Live
          /\ F[i].todo \subseteq Up(parents, F[i].id)
          /\ \A p \in Up(parents, F[i].id) :
                p \in F[i].todo \/ NoCircleFrom(p) \/ (i > 1 /\ p = F[i-1].id)
    /\ \A i, j \in DOMAIN F : i <= j => F[i].id \in Ancestors(F[j].id)

CircleInv == (op = "circle" /\ quiet) => CircleState(ids, frames, seen)

\* The search of collectRoleClosure visits an id once, and returns objects that
\* were registered.
ClosureInv ==
    op = "closure" =>
        /\ \A i \in DOMAIN frames : frames[i].id \in seen
        /\ held # Nothing => held[1] \notin seen
        /\ \A pair \in out : pair[1] \in lived

\* In an instance that is left alone, it has the objects O of the ids S that it
\* has visited, these are ancestors of r, and what they lead to is visited, in
\* hand or in a list (W).
ClosureState(W, S, h, O, r) ==
    /\ { pair[1] : pair \in O } = { roles[x] : x \in S }
    /\ h # Nothing => h[1] \in Live /\ h[2] = roles[h[1]]
    /\ S \subseteq Ancestors(r)
    /\ W \cap Live \subseteq Ancestors(r)
    /\ r \in Live => r \in S \cup W
    /\ \A x \in S : Up(parents, x) \cap Live \subseteq S \cup W

Lists(F) == UNION { F[i].todo : i \in DOMAIN F }

WaitingInv ==
    (op = "closure" /\ quiet) =>
        ClosureState(ids \cup Lists(frames) \cup {held[1]}, seen, held, out, root)

IInv ==
    /\ TypeOK /\ Consistent /\ ControlInv /\ HeldInv /\ HistoryInv /\ KnownInv
    /\ WalkInv /\ PathInv /\ CircleInv /\ ClosureInv /\ WaitingInv

-----------------------------------------------------------------------------
(***************************************************************************)
(* The stack of a search.                                                  *)
(***************************************************************************)
Frame == [id : ID, todo : SUBSET ID]

\* A new search goes in front of the others.
LEMMA Pushed ==
    ASSUME NEW s \in Seq(Frame), NEW f \in Frame
    PROVE  /\ <<f>> \o s \in Seq(Frame)
           /\ Len(<<f>> \o s) = Len(s) + 1
           /\ (<<f>> \o s)[1] = f
           /\ \A i \in 1 .. Len(s) : (<<f>> \o s)[i+1] = s[i]
OBVIOUS

\* Without the innermost search the others move up by one.
LEMMA Popped ==
    ASSUME NEW s \in Seq(Frame), s # <<>>
    PROVE  /\ Tail(s) \in Seq(Frame)
           /\ Len(Tail(s)) = Len(s) - 1
           /\ \A i \in 1 .. Len(s) - 1 : Tail(s)[i] = s[i+1]
OBVIOUS

\* Taking an id shortens the innermost list and leaves the stack as it is.
LEMMA TakenFrom ==
    ASSUME frames \in Seq(Frame), NEW x
    PROVE  /\ FramesWithout(x) \in Seq(Frame)
           /\ Len(FramesWithout(x)) = Len(frames)
           /\ \A i \in 1 .. Len(frames) :
                 /\ FramesWithout(x)[i].id = frames[i].id
                 /\ FramesWithout(x)[i].todo =
                       IF i = 1 THEN frames[1].todo \ {x} ELSE frames[i].todo
<1>1. CASE frames = <<>>
    BY <1>1 DEF FramesWithout
<1>2. CASE frames # <<>>
    <2>1. frames[1] \in Frame /\ 1 \in DOMAIN frames
        BY <1>2
    <2>2. FramesWithout(x) = [frames EXCEPT ![1].todo = @ \ {x}]
        BY <1>2 DEF FramesWithout
    <2>3. [frames[1] EXCEPT !.todo = @ \ {x}] \in Frame
        BY <2>1 DEF Frame
    <2>4. FramesWithout(x) = [frames EXCEPT ![1] = [frames[1] EXCEPT !.todo = @ \ {x}]]
        BY <2>2
    <2>5. [frames[1] EXCEPT !.todo = @ \ {x}].id = frames[1].id
          /\ [frames[1] EXCEPT !.todo = @ \ {x}].todo = frames[1].todo \ {x}
        BY <2>1 DEF Frame
    <2> DEFINE f == [frames[1] EXCEPT !.todo = @ \ {x}]
    <2> HIDE DEF f
    <2>6. f \in Frame /\ f.id = frames[1].id /\ f.todo = frames[1].todo \ {x}
        BY <2>3, <2>5 DEF f
    <2>7. FramesWithout(x) = [frames EXCEPT ![1] = f]
        BY <2>4 DEF f
    <2>8. [frames EXCEPT ![1] = f] \in Seq(Frame)
        BY <2>1, <2>6
    <2>9. Len([frames EXCEPT ![1] = f]) = Len(frames)
        BY <2>1, <2>6
    <2>10. \A i \in 1 .. Len(frames) : [frames EXCEPT ![1] = f][i] = IF i = 1 THEN f ELSE frames[i]
        BY <2>1, <2>6
    <2> QED
        BY <2>6, <2>7, <2>8, <2>9, <2>10
<1> QED
    BY <1>1, <1>2

-----------------------------------------------------------------------------
(***************************************************************************)
(* Circles.                                                                *)
(***************************************************************************)
\* An id all of whose parents lead to no circle leads to none: one through
\* the id itself would go through a parent.
LEMMA NoCircleAbove ==
    ASSUME NEW x, \A p \in Up(parents, x) : NoCircleFrom(p)
    PROVE  NoCircleFrom(x)
<1> DEFINE S == {x} \cup UNION { Ancestors(p) : p \in Up(parents, x) \cap Live }
<1>1. Ancestors(x) \subseteq S
    <2>1. ASSUME NEW y \in S \cap Live, NEW q \in Up(parents, y) \cap Live
          PROVE  q \in S
        <3>1. CASE y = x
            <4>1. q \in Ancestors(q)
                BY ReachSelf DEF Ancestors
            <4> QED
                BY <2>1, <3>1, <4>1
        <3>2. CASE y # x
            <4>1. PICK p \in Up(parents, x) \cap Live : y \in Ancestors(p)
                BY <2>1, <3>2
            <4>2. q \in Ancestors(p)
                BY <2>1, <4>1, ReachClosed DEF Ancestors, ClosedUpward
            <4> QED
                BY <4>2
        <3> QED
            BY <3>1, <3>2
    <2>2. ClosedUpward(Live, parents, S \cap Live)
        BY <2>1 DEF ClosedUpward
    <2>3. x \in S
        OBVIOUS
    <2> HIDE DEF S
    <2> QED
        BY <2>2, <2>3, ReachLeast DEF Ancestors
<1>2. ASSUME NEW y \in Ancestors(x), NEW q \in Up(parents, y) \cap Live, y \in Ancestors(q)
      PROVE  FALSE
    <2>1. CASE \E p \in Up(parents, x) \cap Live : y \in Ancestors(p)
        BY <1>2, <2>1 DEF NoCircleFrom
    <2>2. CASE y = x
        BY <1>2, <2>2 DEF NoCircleFrom
    <2> QED
        BY <1>1, <2>1, <2>2
<1> QED
    BY <1>2 DEF NoCircleFrom

-----------------------------------------------------------------------------
(***************************************************************************)
(* Types.                                                                  *)
(***************************************************************************)
\* What another goroutine does is one edit of the instance.
LEMMA EditIsOne ==
    ASSUME EditHierarchy
    PROVE  AnyEdit
BY HelpersAssumption DEF EditHierarchy, AnyEdit

\* Steps of the helper leave the instance alone.
LEMMA StepKeepsInstance ==
    ASSUME [Next]_hpvars
    PROVE  Edit \/ UNCHANGED hvars
BY DEF Next, Step, Start, Finish, Ascend, Complete, WalkGet, WalkHandle, CircleVisit, CircleSkip,
       ClosureGet, ClosureExpand, Fetch, Fail, Skip, Return, Take, hpvars, fixed

\* The parents of anything are ids.
LEMMA ParentsAreIDs ==
    ASSUME HierarchyTypeOK, NEW x
    PROVE  Up(parents, x) \in SUBSET ID
BY DEF HierarchyTypeOK, Up

\* TypeOK in two parts, the stack and the rest.
Stack(s) ==
    /\ s \in Seq(Frame)
    /\ \A i, j \in DOMAIN s : s[i].id = s[j].id => i = j

Kinds ==
    /\ HierarchyTypeOK
    /\ op \in {"none", "walk", "circle", "closure"}
    /\ root \in ID \cup {None}
    /\ ids \subseteq ID /\ seen \subseteq ID
    /\ held \in (ID \cup {None}) \X (Role \cup {None})
    /\ out \subseteq Role \X SUBSET ID
    /\ result \in {"running", "nil", "ErrRoleNotExist", "ErrFoundCircle", "handler error"}
    /\ begun \subseteq ID /\ gone \subseteq ID
    /\ linked \subseteq ID \X ID /\ lived \subseteq Role

\* The parts of the type invariant, which the steps treat apart.
LEMMA TypeParts == TypeOK <=> Kinds /\ Stack(frames) /\ quiet \in BOOLEAN
BY DEF TypeOK, Kinds, Stack, Frame

\* What the searches do to their stack leaves a stack.
LEMMA StackSteps ==
    ASSUME Stack(frames), HierarchyTypeOK
    PROVE  /\ Stack(<<>>)
           /\ frames # <<>> => Stack(Tail(frames))
           /\ \A x : Stack(FramesWithout(x))
           /\ \A x \in ID : ~OnStack(x) => /\ Stack(Searching(x) \o frames)
                                           /\ Stack(Searching(x) \o FramesWithout(x))
<1>0. frames \in Seq(Frame)
    BY DEF Stack
<1>1. Stack(<<>>)
    BY DEF Stack
<1>2. ASSUME frames # <<>>
      PROVE  Stack(Tail(frames))
    <2>1. /\ Tail(frames) \in Seq(Frame)
          /\ Len(Tail(frames)) = Len(frames) - 1
          /\ \A i \in 1 .. Len(frames) - 1 : Tail(frames)[i] = frames[i+1]
        BY <1>2, Popped DEF Stack
    <2>2. Len(frames) \in Nat /\ DOMAIN frames = 1 .. Len(frames)
        BY DEF Stack
    <2>3. DOMAIN Tail(frames) = 1 .. Len(frames) - 1
        BY <2>1
    <2>4. ASSUME NEW i \in DOMAIN Tail(frames), NEW j \in DOMAIN Tail(frames),
                 Tail(frames)[i].id = Tail(frames)[j].id
          PROVE  i = j
        <3>1. frames[i+1].id = frames[j+1].id /\ i+1 \in DOMAIN frames /\ j+1 \in DOMAIN frames
            BY <2>1, <2>2, <2>3, <2>4
        <3>2. i+1 = j+1
            BY <3>1 DEF Stack
        <3> QED
            BY <2>2, <2>3, <3>2
    <2> QED
        BY <2>1, <2>4 DEF Stack
<1>3. ASSUME NEW x
      PROVE  /\ Stack(FramesWithout(x))
             /\ DOMAIN FramesWithout(x) = DOMAIN frames
             /\ \A i \in DOMAIN frames : FramesWithout(x)[i].id = frames[i].id
    <2> DEFINE s == FramesWithout(x)
    <2>1. /\ s \in Seq(Frame)
          /\ Len(s) = Len(frames)
          /\ \A i \in 1 .. Len(frames) : s[i].id = frames[i].id
        BY <1>0, TakenFrom
    <2> HIDE DEF s
    <2>2. DOMAIN s = DOMAIN frames /\ DOMAIN frames = 1 .. Len(frames)
        BY <1>0, <2>1
    <2>3. \A i \in DOMAIN frames : s[i].id = frames[i].id
        BY <2>1, <2>2
    <2>4. Stack(s)
        BY <2>1, <2>2, <2>3 DEF Stack
    <2> QED
        BY <2>2, <2>3, <2>4 DEF s
<1>4. ASSUME NEW x \in ID, NEW s, Stack(s), \A i \in DOMAIN s : s[i].id # x
      PROVE  Stack(Searching(x) \o s)
    <2> DEFINE f == [id |-> x, todo |-> Up(parents, x)]
               t == <<f>> \o s
    <2>1. f \in Frame /\ f.id = x
        BY ParentsAreIDs DEF Frame
    <2>2. Searching(x) \o s = t
        BY DEF Searching
    <2> HIDE DEF f
    <2>3. s \in Seq(Frame) /\ DOMAIN s = 1 .. Len(s) /\ Len(s) \in Nat
        BY <1>4 DEF Stack
    <2>4. /\ t \in Seq(Frame)
          /\ Len(t) = Len(s) + 1
          /\ t[1] = f
          /\ \A i \in 1 .. Len(s) : t[i+1] = s[i]
        BY <2>1, <2>3, Pushed
    <2> HIDE DEF t
    <2>5. DOMAIN t = 1 .. Len(s) + 1
        BY <2>4
    <2>6. \A i \in DOMAIN t : i # 1 => i - 1 \in DOMAIN s /\ t[i] = s[i-1]
        BY <2>3, <2>4, <2>5
    <2>7. ASSUME NEW i \in DOMAIN t, NEW j \in DOMAIN t, t[i].id = t[j].id
          PROVE  i = j
        <3>1. CASE i = 1
            BY <1>4, <2>1, <2>4, <2>6, <2>7, <3>1
        <3>2. CASE j = 1
            BY <1>4, <2>1, <2>4, <2>6, <2>7, <3>2
        <3>3. CASE i # 1 /\ j # 1
            <4>1. i - 1 = j - 1
                BY <1>4, <2>6, <2>7, <3>3 DEF Stack
            <4> QED
                BY <2>3, <2>5, <4>1
        <3> QED
            BY <3>1, <3>2, <3>3
    <2> QED
        BY <2>2, <2>4, <2>7 DEF Stack
<1>5. ASSUME NEW x \in ID, ~OnStack(x)
      PROVE  Stack(Searching(x) \o frames) /\ Stack(Searching(x) \o FramesWithout(x))
    BY <1>3, <1>4, <1>5 DEF OnStack
<1> QED
    BY <1>1, <1>2, <1>3, <1>5

-----------------------------------------------------------------------------
(***************************************************************************)
(* The steps of the helpers, one for each way through their code.          *)
(***************************************************************************)
WalkFetch(x) ==
    Running("walk") /\ held = Nothing /\ x \in ids \cap Live /\ Fetch(x)
WalkMissing(x) ==
    Running("walk") /\ held = Nothing /\ x \in ids \ Live /\ Fail
WalkPass ==
    /\ Running("walk") /\ held # Nothing /\ held[1] \in Live
    /\ out' = out \cup {<<held[2], Up(parents, held[1])>>}
    /\ held' = Nothing
    /\ result' \in {"running", "handler error"}
    /\ UNCHANGED <<fixed, ids, frames, seen>>
WalkLost ==
    Running("walk") /\ held # Nothing /\ held[1] \notin Live /\ Fail

CircleAt(x) == Running("circle") /\ x \in ID \ seen /\ Offered(x)
CircleFound(x) ==
    CircleAt(x) /\ OnStack(x) /\ held' = <<x, None>> /\ Return("ErrFoundCircle")
CircleMissing(x) ==
    CircleAt(x) /\ x \notin Live /\ Fail
CircleLeaf(x) ==
    CircleAt(x) /\ Up(parents, x) = {} /\ seen' = seen \cup {x} /\ Skip(x)
CircleDescend(x) ==
    /\ CircleAt(x) /\ ~OnStack(x) /\ x \in Live
    /\ Take(x)
    /\ frames' = Searching(x) \o FramesWithout(x)
    /\ UNCHANGED <<fixed, seen, held, out, result>>
CirclePass(x) ==
    Running("circle") /\ x \in seen /\ Skip(x) /\ UNCHANGED seen

ClosureFetch(x) ==
    Running("closure") /\ held = Nothing /\ x \in Live \ seen /\ Fetch(x)
ClosurePass(x) ==
    Running("closure") /\ held = Nothing /\ x \in ID /\ x \notin Live \ seen /\ Skip(x) /\ UNCHANGED seen
ClosureVisit ==
    /\ Running("closure") /\ held # Nothing /\ held[1] \in Live /\ held' = Nothing
    /\ seen' = seen \cup {held[1]}
    /\ out' = out \cup {<<held[2], Up(parents, held[1])>>}
    /\ frames' = Searching(held[1]) \o frames
    /\ UNCHANGED <<fixed, ids, result>>
ClosureLost ==
    /\ Running("closure") /\ held # Nothing /\ held[1] \notin Live /\ held' = Nothing
    /\ UNCHANGED <<fixed, ids, result, seen, out, frames>>

\* The steps of the helpers, one by one.
LEMMA StepCases ==
    ASSUME [Next]_hpvars
    PROVE  \/ UNCHANGED hpvars
           \/ Edit
           \/ \E h \in {"walk", "circle"} : Start(h, None)
           \/ \E x \in Roots : Start("closure", x)
           \/ Finish \/ Ascend \/ Complete
           \/ \E x : WalkFetch(x) \/ WalkMissing(x)
           \/ WalkPass \/ WalkLost
           \/ \E x : CircleFound(x) \/ CircleMissing(x) \/ CircleLeaf(x) \/ CircleDescend(x) \/ CirclePass(x)
           \/ \E x : ClosureFetch(x) \/ ClosurePass(x)
           \/ ClosureVisit \/ ClosureLost
<1>1. WalkGet => \E x : WalkFetch(x) \/ WalkMissing(x)
    BY DEF WalkGet, WalkFetch, WalkMissing
<1>2. WalkHandle => WalkPass \/ WalkLost
    BY DEF WalkHandle, WalkPass, WalkLost, Known
<1>3. ASSUME CircleVisit
      PROVE  \E x : CircleFound(x) \/ CircleMissing(x) \/ CircleLeaf(x) \/ CircleDescend(x)
    <2>1. PICK x \in ID \ seen :
             /\ Offered(x)
             /\ \/ OnStack(x) /\ held' = <<x, None>> /\ Return("ErrFoundCircle")
                \/ ~OnStack(x) /\ ~Known(x) /\ Fail
                \/ /\ ~OnStack(x) /\ Known(x) /\ Up(parents, x) = {}
                   /\ seen' = seen \cup {x} /\ Skip(x)
                \/ /\ ~OnStack(x) /\ Known(x) /\ Up(parents, x) # {}
                   /\ Take(x)
                   /\ frames' = Searching(x) \o FramesWithout(x)
                   /\ UNCHANGED <<fixed, seen, held, out, result>>
        BY <1>3 DEF CircleVisit
    <2> CircleAt(x)
        BY <1>3, <2>1 DEF CircleVisit, CircleAt
    <2> QED
        BY <2>1 DEF CircleFound, CircleMissing, CircleLeaf, CircleDescend, Known
<1>4. CircleSkip => \E x : CirclePass(x)
    BY DEF CircleSkip, CirclePass
<1>5. ClosureGet => \E x : ClosureFetch(x) \/ ClosurePass(x)
    BY DEF ClosureGet, ClosureFetch, ClosurePass
<1>6. ClosureExpand => ClosureVisit \/ ClosureLost
    BY DEF ClosureExpand, ClosureVisit, ClosureLost, Known, Mark
<1> QED
    BY <1>1, <1>2, <1>3, <1>4, <1>5, <1>6 DEF Next, Step

\* What the steps share.
LEMMA TakeKinds ==
    ASSUME NEW x, Take(x), ids \subseteq ID, Stack(frames)
    PROVE  ids' \subseteq ID /\ x \in ID
<1>1. frames # <<>> => Head(frames) \in Frame
    BY DEF Stack
<1> QED
    BY <1>1 DEF Take, Offered, Frame

\* Every step keeps the types.
LEMMA TypeStep ==
    ASSUME IInv, [Next]_hpvars
    PROVE  TypeOK'
<1>0. HierarchyTypeOK' /\ None \notin ID \cup Role
    <2>1. HierarchyTypeOK
        BY DEF IInv, TypeOK
    <2>2. AnyEdit
        BY StepKeepsInstance, EditIsOne DEF Edit, AnyEdit
    <2> QED
        BY <2>1, <2>2, EditKeepsType, HelpersAssumption
<1>d. quiet' \in BOOLEAN
    <2>1. quiet \in BOOLEAN
        BY TypeParts DEF IInv
    <2>2. quiet' = quiet \/ quiet' = TRUE \/ quiet' = (quiet /\ hvars' = hvars)
        BY DEF Next, Step, Start, Finish, Ascend, Complete, WalkGet, WalkHandle, CircleVisit, CircleSkip,
               ClosureGet, ClosureExpand, Fetch, Fail, Skip, Return, Take, hpvars, fixed, Edit, history
    <2> QED
        BY <2>1, <2>2
<1> SUFFICES (Kinds /\ Stack(frames))'
    BY <1>d DEF TypeOK, Kinds, Stack, Frame
<1>a. Kinds /\ Stack(frames) /\ HierarchyTypeOK
    BY TypeParts DEF IInv, Kinds
<1>b. /\ Stack(<<>>)
      /\ frames # <<>> => Stack(Tail(frames))
      /\ \A x : Stack(FramesWithout(x))
      /\ \A x \in ID : ~OnStack(x) => /\ Stack(Searching(x) \o frames)
                                      /\ Stack(Searching(x) \o FramesWithout(x))
    BY <1>a, StackSteps
<1>c. /\ Links' \subseteq ID \X ID /\ Objects' \subseteq Role
      /\ Links \subseteq ID \X ID /\ Objects \subseteq Role /\ Live \subseteq ID
    BY <1>a, <1>0 DEF Links, Objects, Live, HierarchyTypeOK
<1>1. CASE UNCHANGED hpvars
    BY <1>0, <1>1, <1>a DEF Kinds, hpvars, fixed, history
<1>2. CASE Edit
    <2>1. Kinds'
        BY <1>0, <1>2, <1>a, <1>c DEF Edit, history, Kinds
    <2>2. frames' = frames
        BY <1>2 DEF Edit
    <2> QED
        BY <1>a, <2>1, <2>2
<1>3. ASSUME NEW h \in {"walk", "circle", "closure"}, NEW x \in ID \cup {None}, Start(h, x),
             h = "closure" => x \in ID
      PROVE  (Kinds /\ Stack(frames))'
    <2>1. Kinds'
        BY <1>0, <1>3, <1>a, <1>c DEF Start, Kinds
    <2>2. frames' = frames
        BY <1>3 DEF Start
    <2> QED
        BY <1>a, <2>1, <2>2
<1>4. CASE Finish
    BY <1>0, <1>4, <1>b DEF Finish, Kinds, Nothing
<1>5. CASE Ascend
    BY <1>0, <1>5, <1>a, <1>b DEF Ascend, Kinds, fixed, history
<1>6. CASE Complete
    BY <1>0, <1>6, <1>a DEF Complete, Return, Kinds, fixed, history
<1>7. \A x \in Live : roles[x] \in Role
    BY <1>a DEF HierarchyTypeOK
<1>8. op \in {"walk", "closure"} /\ held # Nothing =>
         held[1] \in ID /\ held[2] \in Role /\ Up(parents, held[1]) \in SUBSET ID
    BY <1>a, ParentsAreIDs DEF HeldInv, IInv
<1>9. ASSUME NEW x, WalkFetch(x) \/ ClosureFetch(x)
      PROVE  (Kinds /\ Stack(frames))'
    <2>1. ids' \subseteq ID /\ x \in Live
        BY <1>9, <1>a, TakeKinds DEF WalkFetch, ClosureFetch, Fetch, Kinds
    <2>2. x \in ID /\ roles[x] \in Role
        BY <1>c, <1>7, <2>1
    <2>3. held' \in (ID \cup {None}) \X (Role \cup {None})
        BY <1>9, <2>2 DEF WalkFetch, ClosureFetch, Fetch
    <2>4. Fetch(x)
        BY <1>9 DEF WalkFetch, ClosureFetch
    <2> QED
        BY <1>0, <1>a, <1>b, <2>1, <2>3, <2>4 DEF Fetch, Kinds, fixed, history
<1>10. ASSUME Fail
       PROVE  (Kinds /\ Stack(frames))'
    BY <1>0, <1>10, <1>a DEF Fail, Return, Kinds, fixed, history
<1>11. CASE WalkPass
    <2>1. held[2] \in Role /\ Up(parents, held[1]) \in SUBSET ID
        BY <1>8, <1>11 DEF WalkPass, Running
    <2>2. <<held[2], Up(parents, held[1])>> \in Role \X SUBSET ID
        BY <2>1
    <2>3. out' \subseteq Role \X SUBSET ID
        BY <1>11, <1>a, <2>2 DEF WalkPass, Kinds
    <2> QED
        BY <1>0, <1>11, <1>a, <2>3 DEF WalkPass, Kinds, fixed, history, Nothing
<1>12. ASSUME NEW x, CircleFound(x)
       PROVE  (Kinds /\ Stack(frames))'
    BY <1>0, <1>12, <1>a DEF CircleFound, CircleAt, Return, Kinds, fixed, history
<1>13. ASSUME NEW x, CircleLeaf(x) \/ CirclePass(x) \/ ClosurePass(x)
       PROVE  (Kinds /\ Stack(frames))'
    <2>1. ids' \subseteq ID /\ x \in ID
        BY <1>13, <1>a, TakeKinds DEF CircleLeaf, CirclePass, ClosurePass, Skip, Kinds
    <2>2. seen' \subseteq ID
        BY <1>13, <2>1, <1>a DEF CircleLeaf, CirclePass, ClosurePass, Kinds
    <2>3. Skip(x)
        BY <1>13 DEF CircleLeaf, CirclePass, ClosurePass
    <2> QED
        BY <1>0, <1>a, <1>b, <2>1, <2>2, <2>3 DEF Skip, Kinds, fixed, history
<1>14. ASSUME NEW x, CircleDescend(x)
       PROVE  (Kinds /\ Stack(frames))'
    <2>1. ids' \subseteq ID /\ x \in ID
        BY <1>14, <1>a, TakeKinds DEF CircleDescend, Kinds
    <2>2. Stack(frames')
        BY <1>14, <1>b, <2>1 DEF CircleDescend
    <2> QED
        BY <1>0, <1>14, <1>a, <2>1, <2>2 DEF CircleDescend, Kinds, fixed, history
<1>15. CASE ClosureVisit
    <2>1. held[1] \in ID /\ held[2] \in Role /\ Up(parents, held[1]) \in SUBSET ID
        BY <1>8, <1>15 DEF ClosureVisit, Running
    <2>2. ~OnStack(held[1])
        BY <1>15 DEF IInv, ClosureInv, ClosureVisit, Running, OnStack
    <2>3. Stack(frames')
        BY <1>15, <1>b, <2>1, <2>2 DEF ClosureVisit
    <2>4. <<held[2], Up(parents, held[1])>> \in Role \X SUBSET ID
        BY <2>1
    <2>5. out' \subseteq Role \X SUBSET ID
        BY <1>15, <1>a, <2>4 DEF ClosureVisit, Kinds
    <2> QED
        BY <1>0, <1>15, <1>a, <2>1, <2>3, <2>5 DEF ClosureVisit, Kinds, fixed, history, Nothing
<1>16. CASE ClosureLost
    BY <1>0, <1>16, <1>a DEF ClosureLost, Kinds, fixed, history, Nothing
<1>17. ASSUME NEW x \in Roots, Start("closure", x)
       PROVE  (Kinds /\ Stack(frames))'
    BY <1>3, <1>17, HelpersAssumption
<1>18. ASSUME NEW x, WalkMissing(x) \/ CircleMissing(x) \/ WalkLost
       PROVE  Fail
    BY <1>18 DEF WalkMissing, CircleMissing, WalkLost
<1> QED
    BY StepCases, <1>1, <1>2, <1>3, <1>4, <1>5, <1>6, <1>9, <1>10, <1>11, <1>12, <1>13, <1>14,
       <1>15, <1>16, <1>17, <1>18

-----------------------------------------------------------------------------
(***************************************************************************)
(* Control.                                                                *)
(***************************************************************************)
LEMMA ConsistentStep ==
    ASSUME IInv, [Next]_hpvars
    PROVE  Consistent'
<1>1. AnyEdit
    BY StepKeepsInstance, EditIsOne DEF Edit, AnyEdit
<1> QED
    BY <1>1, EditKeepsConsistent DEF IInv

\* Every step keeps each helper to the variables it uses.
LEMMA ControlStep ==
    ASSUME IInv, [Next]_hpvars
    PROVE  ControlInv'
<1> USE DEF ControlInv
<1>0. ControlInv /\ Roots \subseteq ID
    BY HelpersAssumption DEF IInv
<1>1. CASE UNCHANGED hpvars
    BY <1>0, <1>1 DEF hpvars, fixed, history, Nothing
<1>2. CASE Edit
    BY <1>0, <1>2 DEF Edit, history, Nothing
<1>3. ASSUME NEW h \in {"walk", "circle"}, Start(h, None)
      PROVE  ControlInv'
    BY <1>0, <1>3 DEF Start, Nothing
<1>4. ASSUME NEW x \in Roots, Start("closure", x)
      PROVE  ControlInv'
    BY <1>0, <1>4 DEF Start, Nothing
<1>5. CASE Finish
    BY <1>5 DEF Finish, Nothing
<1>6. CASE Ascend
    BY <1>0, <1>6 DEF Ascend, fixed, Nothing
<1>7. CASE Complete
    BY <1>0, <1>7 DEF Complete, Return, fixed, Nothing
<1>8. ASSUME NEW x, WalkFetch(x)
      PROVE  ControlInv'
    BY <1>0, <1>8 DEF WalkFetch, Running, Fetch, FramesWithout, fixed
<1>9. ASSUME NEW x, WalkMissing(x) \/ CircleMissing(x) \/ WalkLost
      PROVE  ControlInv'
    BY <1>0, <1>9 DEF WalkMissing, CircleMissing, CircleAt, WalkLost, Running, Fail, Return, fixed
<1>10. CASE WalkPass
    BY <1>0, <1>10 DEF WalkPass, Running, fixed, Nothing
<1>11. ASSUME NEW x, CircleFound(x)
       PROVE  ControlInv'
    BY <1>0, <1>11 DEF CircleFound, CircleAt, Running, Return, fixed
<1>12. ASSUME NEW x, CircleLeaf(x) \/ CircleDescend(x) \/ CirclePass(x)
       PROVE  ControlInv'
    BY <1>0, <1>12 DEF CircleLeaf, CircleDescend, CirclePass, CircleAt, Running, Skip, fixed, Nothing
<1>13. ASSUME NEW x, ClosureFetch(x) \/ ClosurePass(x)
       PROVE  ControlInv'
    BY <1>0, <1>13 DEF ClosureFetch, ClosurePass, Running, Fetch, Skip, fixed
<1>14. CASE ClosureVisit \/ ClosureLost
    BY <1>0, <1>14 DEF ClosureVisit, ClosureLost, Running, fixed
<1> QED
    BY StepCases, <1>1, <1>2, <1>3, <1>4, <1>5, <1>6, <1>7, <1>8, <1>9, <1>10, <1>11, <1>12,
       <1>13, <1>14

-----------------------------------------------------------------------------
(***************************************************************************)
(* History.                                                                *)
(***************************************************************************)
\* Steps of a helper that is running change neither the instance nor history.
LEMMA StepsAreFixed ==
    ASSUME [Next]_hpvars
    PROVE  \/ Edit
           \/ \E h \in {"walk", "circle"} : Start(h, None)
           \/ \E x \in Roots : Start("closure", x)
           \/ Finish
           \/ UNCHANGED fixed
BY StepCases
DEF hpvars, Ascend, Complete, Return, Fail, Fetch, Skip, WalkFetch, WalkMissing, WalkPass, WalkLost,
    CircleFound, CircleMissing, CircleLeaf, CircleDescend, CirclePass, ClosureFetch, ClosurePass,
    ClosureVisit, ClosureLost

\* Every step keeps what the history variables record.
LEMMA HistoryStep ==
    ASSUME IInv, [Next]_hpvars
    PROVE  HistoryInv'
<1>0. HistoryInv
    BY DEF IInv
<1>1. CASE UNCHANGED fixed
    BY <1>0, <1>1 DEF HistoryInv, fixed, history, hvars, Links, Objects, Live
<1>2. CASE Edit
    <2> SUFFICES ASSUME op # "none"
                 PROVE  HistoryInv'
        BY <1>2 DEF HistoryInv, Edit
    <2>1. Links' \subseteq linked' /\ Objects' \subseteq lived' /\ begun' \subseteq Live' \cup gone'
        BY <1>0, <1>2 DEF HistoryInv, Edit
    <2>2. ASSUME quiet'
          PROVE  gone' = {} /\ linked' = Links'
        <3>1. quiet /\ hvars' = hvars
            BY <1>2, <2>2 DEF Edit
        <3>2. Live' = Live /\ Links' = Links
            BY <3>1 DEF hvars, Live, Links
        <3>3. gone = {} /\ linked = Links
            BY <1>0, <3>1 DEF HistoryInv
        <3>4. gone' = gone \cup (Live \ Live') /\ linked' = linked \cup Links'
            BY <1>2 DEF Edit
        <3> QED
            BY <3>2, <3>3, <3>4
    <2> QED
        BY <2>1, <2>2 DEF HistoryInv
<1>3. ASSUME NEW h \in {"walk", "circle", "closure"}, NEW x, Start(h, x)
      PROVE  HistoryInv'
    <2>1. gone' = {}
        BY <1>3 DEF Start, IInv, ControlInv
    <2>2. linked' = Links' /\ lived' = Objects' /\ begun' = Live'
        BY <1>3 DEF Start, hvars, Links, Objects, Live
    <2> QED
        BY <2>1, <2>2 DEF HistoryInv
<1>4. CASE Finish
    BY <1>4 DEF Finish, HistoryInv
<1> QED
    BY StepsAreFixed, <1>1, <1>2, <1>3, <1>4

\* The role in hand stays one that lived under its id.
LEMMA HeldStep ==
    ASSUME IInv, [Next]_hpvars
    PROVE  HeldInv'
<1> USE DEF HeldInv
<1>0. HeldInv /\ ControlInv
    BY DEF IInv
<1>1. CASE UNCHANGED hpvars
    BY <1>0, <1>1 DEF hpvars, fixed, history, Nothing
<1>2. CASE Edit
    BY <1>0, <1>2 DEF Edit, Nothing
<1>3. ASSUME NEW h \in {"walk", "circle", "closure"}, NEW x, Start(h, x)
      PROVE  HeldInv'
    BY <1>0, <1>3 DEF Start, ControlInv, Nothing
<1>4. CASE Finish
    BY <1>4 DEF Finish
<1>5. CASE Ascend \/ Complete
    BY <1>0, <1>5 DEF Ascend, Complete, Return, fixed, history, Nothing
<1>6. ASSUME NEW x, WalkFetch(x) \/ ClosureFetch(x)
      PROVE  HeldInv'
    <2>1. x \in Live /\ op # "none" /\ Fetch(x)
        BY <1>6 DEF WalkFetch, ClosureFetch, Running
    <2>2. x \in ID /\ roles[x] \in Role
        BY <2>1 DEF IInv, TypeOK, HierarchyTypeOK
    <2>3. IdOf[roles[x]] = x
        BY <2>1 DEF IInv, Consistent
    <2>4. roles[x] \in lived
        BY <2>1 DEF IInv, HistoryInv, Objects
    <2>5. held' = <<x, roles[x]>> /\ lived' = lived
        BY <2>1 DEF Fetch, fixed, history
    <2> QED
        BY <2>2, <2>3, <2>4, <2>5
<1>7. ASSUME Fail
      PROVE  HeldInv'
    BY <1>0, <1>7 DEF Fail, Return, fixed, history, Nothing
<1>8. ASSUME held' = Nothing
      PROVE  HeldInv'
    BY <1>8
<1>9. ASSUME op = "circle", UNCHANGED fixed
      PROVE  HeldInv'
    BY <1>9 DEF fixed
<1>10. ASSUME NEW x, CircleFound(x) \/ CircleMissing(x) \/ CircleLeaf(x) \/ CircleDescend(x) \/ CirclePass(x)
       PROVE  op = "circle" /\ UNCHANGED fixed
    BY <1>10 DEF CircleFound, CircleMissing, CircleLeaf, CircleDescend, CirclePass, CircleAt, Running,
                 Fail, Return, Skip
<1>11. ASSUME NEW x, ClosurePass(x)
       PROVE  held' = Nothing
    BY <1>11 DEF ClosurePass, Skip
<1>12. WalkPass \/ ClosureVisit \/ ClosureLost => held' = Nothing
    BY DEF WalkPass, ClosureVisit, ClosureLost
<1>13. ASSUME NEW x, WalkMissing(x) \/ WalkLost
       PROVE  Fail
    BY <1>13 DEF WalkMissing, WalkLost
<1> HIDE DEF HeldInv
<1> QED
    BY StepCases, <1>1, <1>2, <1>3, <1>4, <1>5, <1>6, <1>7, <1>8, <1>9, <1>10, <1>11, <1>12, <1>13

-----------------------------------------------------------------------------
(***************************************************************************)
(* What is to come was a role once.                                        *)
(***************************************************************************)
\* Taking an id leaves the lists with fewer ids.
LEMMA TakenLists ==
    ASSUME Stack(frames), NEW x, Take(x)
    PROVE  /\ ids' \subseteq ids
           /\ \A i \in DOMAIN frames : FramesWithout(x)[i].todo \subseteq frames[i].todo
           /\ DOMAIN FramesWithout(x) = DOMAIN frames
           /\ x \in ids \/ (frames # <<>> /\ x \in frames[1].todo)
<1>1. frames \in Seq(Frame)
    BY DEF Stack
<1>2. /\ FramesWithout(x) \in Seq(Frame)
      /\ Len(FramesWithout(x)) = Len(frames)
      /\ \A i \in 1 .. Len(frames) :
            FramesWithout(x)[i].todo = IF i = 1 THEN frames[1].todo \ {x} ELSE frames[i].todo
    BY <1>1, TakenFrom
<1>3. DOMAIN FramesWithout(x) = DOMAIN frames /\ DOMAIN frames = 1 .. Len(frames)
    BY <1>1, <1>2
<1>4. \A i \in DOMAIN frames : FramesWithout(x)[i].todo \subseteq frames[i].todo
    BY <1>2, <1>3
<1>5. ids' \subseteq ids
    BY DEF Take
<1>6. x \in ids \/ (frames # <<>> /\ x \in frames[1].todo)
    <2>1. frames # <<>> => Head(frames) = frames[1]
        BY <1>1
    <2> QED
        BY <2>1 DEF Take, Offered
<1> QED
    BY <1>3, <1>4, <1>5, <1>6

\* Every id still to look at stays one that was a role once.
LEMMA KnownStep ==
    ASSUME IInv, [Next]_hpvars
    PROVE  KnownInv'
<1>0. KnownInv /\ ControlInv /\ Stack(frames)
    BY TypeParts DEF IInv
<1>1. CASE UNCHANGED hpvars
    BY <1>0, <1>1 DEF KnownInv, NotExistMeansRemoved, hpvars, fixed, history, Live, hvars, Nothing
<1>2. CASE Edit
    <2>1. op # "none" => Live \cup gone \subseteq Live' \cup gone'
        BY <1>2 DEF Edit
    <2>2. op # "none" => gone \subseteq gone'
        BY <1>2 DEF Edit
    <2>3. op = "none" => result = "running"
        BY <1>0 DEF ControlInv
    <2>4. UNCHANGED <<op, ids, frames, held, result>>
        BY <1>2 DEF Edit
    <2> QED
        BY <1>0, <2>1, <2>2, <2>3, <2>4 DEF KnownInv, NotExistMeansRemoved, Nothing
<1>3. ASSUME NEW h \in {"walk", "circle", "closure"}, NEW x, Start(h, x)
      PROVE  KnownInv'
    <2>1. frames' = <<>> /\ held' = Nothing /\ result' = "running"
        BY <1>0, <1>3 DEF Start, ControlInv
    <2>2. h # "closure" => ids' = Live'
        BY <1>3 DEF Start, hvars, Live
    <2>3. op' = h
        BY <1>3 DEF Start
    <2> QED
        BY <2>1, <2>2, <2>3 DEF KnownInv, NotExistMeansRemoved, Nothing
<1>4. CASE Finish
    BY <1>4 DEF Finish, KnownInv, NotExistMeansRemoved
<1> SUFFICES ASSUME UNCHANGED fixed
             PROVE  KnownInv'
    BY StepsAreFixed, <1>2, <1>3, <1>4
<1>5. Live' = Live /\ gone' = gone /\ op' = op
    BY DEF fixed, history, hvars, Live
<1>6. ASSUME NEW x, Take(x), frames' = FramesWithout(x), result' = result,
             held' = held \/ (held' = <<x, roles[x]>> /\ x \in Live)
      PROVE  KnownInv'
    <2>1. (op = "walk" /\ held' # Nothing) => held'[1] \in Live \cup gone
        BY <1>0, <1>6 DEF KnownInv
    <2> QED
        BY <1>0, <1>5, <1>6, <2>1, TakenLists DEF KnownInv, NotExistMeansRemoved
<1>7. ASSUME UNCHANGED <<ids, frames, held>>, result' # result => gone # {} \/ result' # "ErrRoleNotExist"
      PROVE  KnownInv'
    BY <1>0, <1>5, <1>7 DEF KnownInv, NotExistMeansRemoved, Nothing
<1>8. CASE Ascend
    <2>1. frames # <<>> /\ frames' = Tail(frames) /\ UNCHANGED <<ids, held, result>>
        BY <1>8 DEF Ascend
    <2>2. \A i \in DOMAIN frames' : i + 1 \in DOMAIN frames /\ frames'[i] = frames[i+1]
        BY <1>0, <2>1, Popped DEF Stack
    <2> QED
        BY <1>0, <1>5, <2>1, <2>2 DEF KnownInv, NotExistMeansRemoved, Nothing
<1>9. CASE Complete
    <2>1. UNCHANGED <<ids, frames, held>> /\ result' = "nil"
        BY <1>9 DEF Complete, Return
    <2> QED
        BY <1>7, <2>1
<1>10. ASSUME NEW x, WalkFetch(x) \/ ClosureFetch(x)
       PROVE  KnownInv'
    BY <1>6, <1>10 DEF WalkFetch, ClosureFetch, Fetch
<1>11. ASSUME NEW x, CircleLeaf(x) \/ CirclePass(x) \/ ClosurePass(x)
       PROVE  KnownInv'
    BY <1>6, <1>11 DEF CircleLeaf, CirclePass, ClosurePass, Skip
<1>12. ASSUME NEW x, WalkMissing(x)
       PROVE  KnownInv'
    <2>1. gone # {}
        BY <1>0, <1>12 DEF WalkMissing, Running, KnownInv
    <2>2. UNCHANGED <<ids, frames, held>>
        BY <1>12 DEF WalkMissing, Fail, Return
    <2> QED
        BY <1>7, <2>1, <2>2
<1>13. CASE WalkLost
    <2>1. gone # {}
        BY <1>0, <1>13 DEF WalkLost, Running, KnownInv
    <2>2. UNCHANGED <<ids, frames, held>>
        BY <1>13 DEF WalkLost, Fail, Return
    <2> QED
        BY <1>7, <2>1, <2>2
<1>14. ASSUME NEW x, CircleMissing(x)
       PROVE  KnownInv'
    <2>1. x \in ids \/ (frames # <<>> /\ x \in frames[1].todo)
        BY <1>0, <1>14 DEF CircleMissing, CircleAt, Offered, Stack
    <2>2. frames # <<>> => 1 \in DOMAIN frames
        BY <1>0 DEF Stack
    <2>3. gone # {}
        BY <1>0, <1>14, <2>1, <2>2 DEF CircleMissing, CircleAt, Running, KnownInv
    <2>4. UNCHANGED <<ids, frames, held>>
        BY <1>14 DEF CircleMissing, Fail, Return
    <2> QED
        BY <1>7, <2>3, <2>4
<1>15. CASE WalkPass
    BY <1>0, <1>5, <1>15 DEF WalkPass, Running, KnownInv, NotExistMeansRemoved
<1>16. ASSUME NEW x, CircleFound(x)
       PROVE  KnownInv'
    BY <1>0, <1>5, <1>16 DEF CircleFound, CircleAt, Running, Return, KnownInv, NotExistMeansRemoved
<1>17. ASSUME NEW x, CircleDescend(x)
       PROVE  KnownInv'
    <2> DEFINE f == [id |-> x, todo |-> Up(parents, x)]
               s == FramesWithout(x)
    <2>1. Take(x) /\ x \in ID /\ x \in Live /\ op = "circle"
        BY <1>17 DEF CircleDescend, CircleAt, Running
    <2>2. f \in Frame /\ f.todo \subseteq Live
        <3>1. Up(parents, x) \subseteq Live
            BY DEF IInv, Consistent, Up
        <3>2. Live \subseteq ID
            BY DEF IInv, TypeOK, HierarchyTypeOK
        <3> QED
            BY <2>1, <3>1, <3>2 DEF Frame
    <2>3. s \in Seq(Frame) /\ \A i \in DOMAIN s : s[i].todo \subseteq Live \cup gone
        BY <1>0, <2>1, TakenLists, TakenFrom DEF Stack, KnownInv
    <2>4. frames' = <<f>> \o s
        BY <1>17 DEF CircleDescend, Searching
    <2> HIDE DEF f, s
    <2>5. \A i \in DOMAIN frames' : frames'[i].todo \subseteq Live \cup gone
        <3>1. /\ Len(frames') = Len(s) + 1 /\ frames' \in Seq(Frame)
              /\ frames'[1] = f
              /\ \A i \in 1 .. Len(s) : frames'[i+1] = s[i]
            BY <2>2, <2>3, <2>4, Pushed
        <3>2. \A i \in DOMAIN frames' : i = 1 \/ (i - 1 \in DOMAIN s /\ frames'[i] = s[i-1])
            BY <2>3, <3>1
        <3> QED
            BY <2>2, <2>3, <3>1, <3>2
    <2>6. ids' \subseteq ids /\ held' = held /\ result' = result
        BY <1>17 DEF CircleDescend, Take
    <2> QED
        BY <1>0, <1>5, <2>1, <2>5, <2>6 DEF KnownInv, NotExistMeansRemoved
<1>18. CASE ClosureVisit \/ ClosureLost
    BY <1>0, <1>5, <1>18 DEF ClosureVisit, ClosureLost, Running, KnownInv, NotExistMeansRemoved
<1>19. ASSUME NEW h \in {"walk", "circle"}, Start(h, None)
       PROVE  KnownInv'
    BY <1>3, <1>19
<1>20. ASSUME NEW x \in Roots, Start("closure", x)
       PROVE  KnownInv'
    BY <1>3, <1>20
<1> QED
    BY StepCases, <1>1, <1>2, <1>4, <1>8, <1>9, <1>10, <1>11, <1>12, <1>13, <1>14, <1>15, <1>16,
       <1>17, <1>18, <1>19, <1>20

-----------------------------------------------------------------------------
(***************************************************************************)
(* Walk.                                                                   *)
(***************************************************************************)
\* Steps of the other two helpers.
LEMMA OtherHelpers ==
    ASSUME NEW x,
           \/ CircleFound(x) \/ CircleMissing(x) \/ CircleLeaf(x) \/ CircleDescend(x) \/ CirclePass(x)
           \/ ClosureFetch(x) \/ ClosurePass(x) \/ ClosureVisit \/ ClosureLost
    PROVE  op' \in {"circle", "closure"}
BY DEF CircleFound, CircleMissing, CircleLeaf, CircleDescend, CirclePass, CircleAt, ClosureFetch,
       ClosurePass, ClosureVisit, ClosureLost, Running, Fail, Return, Skip, Fetch, fixed

\* Every step keeps the invariant of Walk.
LEMMA WalkStep ==
    ASSUME IInv, [Next]_hpvars
    PROVE  WalkInv'
<1> USE DEF WalkInv
<1>0. WalkInv /\ ControlInv /\ HeldInv
    BY DEF IInv
<1>1. CASE UNCHANGED hpvars
    BY <1>0, <1>1 DEF hpvars, fixed, history
<1>2. CASE Edit
    <2>1. UNCHANGED <<op, ids, held, out>> /\ (op = "walk" => begun' = begun /\ lived \subseteq lived')
        BY <1>2 DEF Edit
    <2> QED
        BY <1>0, <2>1
<1>3. ASSUME Start("walk", None)
      PROVE  WalkInv'
    <2>1. held' = Nothing /\ out' = {} /\ ids' = Live /\ begun' = Live
        BY <1>0, <1>3 DEF Start, ControlInv
    <2>2. None \notin Live
        BY HelpersAssumption DEF IInv, TypeOK, HierarchyTypeOK
    <2> QED
        BY <2>1, <2>2 DEF Nothing
<1>4. ASSUME NEW h \in {"circle", "closure"}, NEW x, Start(h, x)
      PROVE  WalkInv'
    BY <1>4 DEF Start
<1>5. CASE Finish
    BY <1>5 DEF Finish
<1>6. ASSUME UNCHANGED <<fixed, ids, held, out>>
      PROVE  WalkInv'
    BY <1>0, <1>6 DEF fixed, history
<1>7. ASSUME NEW x, Ascend \/ Complete \/ WalkMissing(x) \/ WalkLost
      PROVE  UNCHANGED <<fixed, ids, held, out>>
    BY <1>7 DEF Ascend, Complete, WalkMissing, WalkLost, Fail, Return
<1>8. ASSUME NEW x, WalkFetch(x)
      PROVE  WalkInv'
    <2>1. op = "walk" /\ frames = <<>> /\ held = Nothing /\ x \in ids /\ x \in Live
        BY <1>0, <1>8 DEF WalkFetch, Running, ControlInv
    <2>2. ids' = ids \ {x} /\ held'[1] = x /\ UNCHANGED <<op, out, begun, lived>>
        BY <1>8, <2>1 DEF WalkFetch, Fetch, Take, fixed, history
    <2>3. None \notin begun
        BY HelpersAssumption DEF IInv, TypeOK
    <2> QED
        BY <1>0, <2>1, <2>2, <2>3 DEF Nothing
<1>9. CASE WalkPass
    <2> DEFINE new == <<held[2], Up(parents, held[1])>>
    <2>1. op = "walk" /\ held # Nothing
        BY <1>9 DEF WalkPass, Running
    <2>2. held[1] \in ID /\ IdOf[held[2]] = held[1] /\ held[2] \in lived
        BY <1>0, <2>1 DEF HeldInv
    <2>3. held' = Nothing /\ out' = out \cup {new} /\ UNCHANGED <<op, ids, begun, lived>>
        BY <1>9 DEF WalkPass, fixed, history
    <2>4. held'[1] = None
        BY <2>3 DEF Nothing
    <2>5. None \notin ids /\ \A pair \in out : IdOf[pair[1]] # None
        <3>1. \A pair \in out : IdOf[pair[1]] \in ID
            BY IdOfAssumption DEF IInv, TypeOK
        <3> QED
            BY <3>1, HelpersAssumption DEF IInv, TypeOK
    <2>6. new[1] = held[2] /\ IdOf[new[1]] = held[1] /\ held[1] # None
        BY <2>2, HelpersAssumption
    <2> HIDE DEF new
    <2> QED
        BY <1>0, <2>1, <2>2, <2>3, <2>4, <2>5, <2>6
<1>10. ASSUME op' \in {"circle", "closure"}
       PROVE  WalkInv'
    BY <1>10
<1> HIDE DEF WalkInv
<1> QED
    BY StepCases, OtherHelpers, <1>1, <1>2, <1>3, <1>4, <1>5, <1>6, <1>7, <1>8, <1>9, <1>10

-----------------------------------------------------------------------------
(***************************************************************************)
(* The path of InherCircle.                                                *)
(***************************************************************************)
LEMMA PathStep ==
    ASSUME IInv, [Next]_hpvars
    PROVE  PathInv'
<1>0. PathInv /\ ControlInv /\ Stack(frames)
    BY TypeParts DEF IInv
<1>a. frames \in Seq(Frame) /\ Len(frames) \in Nat /\ DOMAIN frames = 1 .. Len(frames)
    BY <1>0 DEF Stack
<1>1. CASE UNCHANGED hpvars
    BY <1>0, <1>1 DEF PathInv, OnStack, hpvars, fixed, history
<1>2. CASE Edit
    <2>1. UNCHANGED <<op, frames, held, result>> /\ (op = "circle" => linked \subseteq linked')
        BY <1>2 DEF Edit
    <2> QED
        BY <1>0, <2>1 DEF PathInv, OnStack
<1>3. ASSUME NEW h \in {"walk", "circle", "closure"}, NEW x, Start(h, x)
      PROVE  PathInv'
    <2>1. frames' = <<>> /\ result' = "running"
        BY <1>0, <1>3 DEF Start, ControlInv
    <2> QED
        BY <2>1 DEF PathInv
<1>4. CASE Finish
    BY <1>4 DEF Finish, PathInv
<1>5. ASSUME op' # "circle"
      PROVE  PathInv'
    BY <1>5 DEF PathInv
<1>6. ASSUME NEW x, WalkFetch(x) \/ WalkMissing(x) \/ WalkPass \/ WalkLost \/ ClosureFetch(x)
                      \/ ClosurePass(x) \/ ClosureVisit \/ ClosureLost
      PROVE  op' # "circle"
    BY <1>6 DEF WalkFetch, WalkMissing, WalkPass, WalkLost, ClosureFetch, ClosurePass, ClosureVisit,
                ClosureLost, Running, Fail, Return, Skip, Fetch, fixed
<1>7. CASE Ascend
    <2>1. frames # <<>> /\ frames' = Tail(frames) /\ UNCHANGED <<op, linked, result>> /\ result = "running"
        BY <1>7 DEF Ascend, fixed, history
    <2>2. DOMAIN frames' = 1 .. Len(frames) - 1 /\ Len(frames') = Len(frames) - 1
          /\ \A i \in DOMAIN frames' : i + 1 \in DOMAIN frames /\ frames'[i] = frames[i+1]
        BY <1>a, <2>1, Popped
    <2> SUFFICES ASSUME op = "circle"
                 PROVE  PathInv'
        BY <2>1 DEF PathInv
    <2>3. \A i \in DOMAIN frames' : \A p \in frames'[i].todo : <<frames'[i].id, p>> \in linked
        BY <1>0, <2>2 DEF PathInv
    <2>4. ASSUME NEW i \in 2 .. Len(frames')
          PROVE  <<frames'[i].id, frames'[i-1].id>> \in linked
        <3>1. i + 1 \in 2 .. Len(frames) /\ (i + 1) - 1 = i /\ i \in DOMAIN frames' /\ i - 1 \in DOMAIN frames'
            BY <1>a, <2>2
        <3>2. frames'[i] = frames[i+1] /\ frames'[i-1] = frames[i]
            BY <2>2, <3>1
        <3>3. <<frames[i+1].id, frames[(i+1)-1].id>> \in linked
            BY <1>0, <3>1 DEF PathInv
        <3> QED
            BY <3>1, <3>2, <3>3
    <2> QED
        BY <2>1, <2>3, <2>4 DEF PathInv
<1>8. ASSUME UNCHANGED <<fixed, frames>>, result' # "ErrFoundCircle"
      PROVE  PathInv'
    BY <1>0, <1>8 DEF PathInv, fixed, history
<1>9. ASSUME NEW x, Complete \/ CircleMissing(x)
      PROVE  UNCHANGED <<fixed, frames>> /\ result' # "ErrFoundCircle"
    BY <1>9 DEF Complete, CircleMissing, Fail, Return
<1>10. ASSUME NEW x, CircleFound(x)
       PROVE  PathInv'
    <2>1. UNCHANGED <<op, linked, frames>> /\ op = "circle" /\ held'[1] = x /\ OnStack(x) /\ Offered(x)
        BY <1>10 DEF CircleFound, CircleAt, Running, Return, fixed, history
    <2>2. frames # <<>>
        BY <2>1 DEF OnStack
    <2>3. x \in frames[1].todo
        BY <1>a, <2>1, <2>2 DEF Offered
    <2>4. OnStack(held[1])'
        BY <2>1 DEF OnStack
    <2> QED
        BY <1>0, <2>1, <2>2, <2>3, <2>4 DEF PathInv
<1>11. ASSUME NEW x, Take(x), NEW s, s = FramesWithout(x), op = "circle"
       PROVE  /\ s \in Seq(Frame) /\ Len(s) = Len(frames) /\ DOMAIN s = DOMAIN frames
              /\ \A i \in DOMAIN s : s[i].id = frames[i].id
              /\ \A i \in DOMAIN s : \A p \in s[i].todo : <<s[i].id, p>> \in linked
              /\ \A i \in 2 .. Len(s) : <<s[i].id, s[i-1].id>> \in linked
    <2>1. s \in Seq(Frame) /\ Len(s) = Len(frames) /\ DOMAIN s = DOMAIN frames
        BY <1>0, <1>a, <1>11, TakenFrom, TakenLists
    <2>2. \A i \in DOMAIN s : s[i].id = frames[i].id /\ s[i].todo \subseteq frames[i].todo
        BY <1>0, <1>a, <1>11, <2>1, TakenFrom, TakenLists
    <2>3. \A i \in DOMAIN s : \A p \in s[i].todo : <<s[i].id, p>> \in linked
        BY <1>0, <1>11, <2>1, <2>2 DEF PathInv
    <2>4. ASSUME NEW i \in 2 .. Len(s)
          PROVE  <<s[i].id, s[i-1].id>> \in linked
        <3>1. i \in DOMAIN s /\ i - 1 \in DOMAIN s /\ i \in 2 .. Len(frames)
            BY <1>a, <2>1
        <3> QED
            BY <1>0, <1>11, <2>2, <3>1 DEF PathInv
    <2> QED
        BY <2>1, <2>2, <2>3, <2>4
<1>12. ASSUME NEW x, CircleLeaf(x) \/ CirclePass(x)
       PROVE  PathInv'
    <2>1. op = "circle" /\ result = "running" /\ Skip(x)
        BY <1>12 DEF CircleLeaf, CirclePass, CircleAt, Running
    <2>2. Take(x) /\ frames' = FramesWithout(x) /\ UNCHANGED <<op, linked, result>>
        BY <2>1 DEF Skip, fixed, history
    <2> QED
        BY <1>11, <2>1, <2>2 DEF PathInv
<1>13. ASSUME NEW x, CircleDescend(x)
       PROVE  PathInv'
    <2> DEFINE f == [id |-> x, todo |-> Up(parents, x)]
               s == FramesWithout(x)
               t == <<f>> \o s
    <2>1. /\ op = "circle" /\ result = "running" /\ Take(x) /\ x \in Live /\ Offered(x)
          /\ frames' = t /\ UNCHANGED <<op, linked, result>>
        BY <1>13 DEF CircleDescend, CircleAt, Running, Searching, fixed, history
    <2>2. /\ s \in Seq(Frame) /\ Len(s) = Len(frames) /\ DOMAIN s = DOMAIN frames
          /\ \A i \in DOMAIN s : s[i].id = frames[i].id
          /\ \A i \in DOMAIN s : \A p \in s[i].todo : <<s[i].id, p>> \in linked
          /\ \A i \in 2 .. Len(s) : <<s[i].id, s[i-1].id>> \in linked
        BY <1>11, <2>1
    <2>3. f \in Frame /\ f.id = x /\ f.todo = Up(parents, x)
        BY <2>1, ParentsAreIDs DEF Frame, IInv, TypeOK, HierarchyTypeOK
    <2>4. ASSUME NEW p \in f.todo
          PROVE  <<x, p>> \in linked
        <3>1. <<x, p>> \in Live \X ID /\ p \in Up(parents, x)
            BY <2>1, <2>3, <2>4, ParentsAreIDs DEF IInv, TypeOK
        <3>2. <<x, p>> \in Links
            BY <3>1 DEF Links
        <3> QED
            BY <2>1, <3>2 DEF IInv, HistoryInv
    <2>5. frames # <<>> => 1 \in DOMAIN frames /\ <<frames[1].id, x>> \in linked
        <3> SUFFICES ASSUME frames # <<>>
                     PROVE  1 \in DOMAIN frames /\ <<frames[1].id, x>> \in linked
            OBVIOUS
        <3>1. x \in frames[1].todo /\ 1 \in DOMAIN frames
            BY <1>a, <2>1 DEF Offered
        <3> QED
            BY <1>0, <2>1, <3>1 DEF PathInv
    <2> HIDE DEF f, s
    <2>6. /\ t \in Seq(Frame) /\ Len(t) = Len(s) + 1 /\ t[1] = f
          /\ \A i \in 1 .. Len(s) : t[i+1] = s[i]
        BY <2>2, <2>3, Pushed
    <2> HIDE DEF t
    <2>7. DOMAIN t = 1 .. Len(s) + 1 /\ \A i \in DOMAIN t : i # 1 => i - 1 \in DOMAIN s /\ t[i] = s[i-1]
        BY <1>a, <2>2, <2>6
    <2>8. \A i \in DOMAIN t : \A p \in t[i].todo : <<t[i].id, p>> \in linked
        BY <2>2, <2>3, <2>4, <2>6, <2>7
    <2>9. ASSUME NEW i \in 2 .. Len(t)
          PROVE  <<t[i].id, t[i-1].id>> \in linked
        <3>1. CASE i = 2
            <4>1. frames # <<>> /\ t[2] = s[1] /\ 1 \in DOMAIN s
                BY <1>a, <2>2, <2>6, <2>9, <3>1
            <4> QED
                BY <2>2, <2>3, <2>5, <2>6, <3>1, <4>1
        <3>2. CASE i # 2
            <4>1. i - 1 \in 2 .. Len(s) /\ t[i] = s[i-1] /\ t[i-1] = s[(i-1)-1]
                BY <1>a, <2>2, <2>6, <2>7, <2>9, <3>2
            <4> QED
                BY <2>2, <4>1
        <3> QED
            BY <3>1, <3>2
    <2> QED
        BY <2>1, <2>8, <2>9 DEF PathInv
<1>14. ASSUME NEW h \in {"walk", "circle"}, Start(h, None)
       PROVE  PathInv'
    BY <1>3, <1>14
<1>15. ASSUME NEW x \in Roots, Start("closure", x)
       PROVE  PathInv'
    BY <1>3, <1>15
<1> QED
    BY StepCases, <1>1, <1>2, <1>4, <1>5, <1>6, <1>7, <1>8, <1>9, <1>10, <1>12, <1>13, <1>14, <1>15

-----------------------------------------------------------------------------
(***************************************************************************)
(* The search of InherCircle in an instance that is left alone.            *)
(***************************************************************************)
LEMMA SameGraph ==
    ASSUME UNCHANGED hvars
    PROVE  /\ Live' = Live /\ roles' = roles /\ parents' = parents
           /\ \A x : Ancestors(x)' = Ancestors(x)
           /\ \A x : NoCircleFrom(x)' <=> NoCircleFrom(x)
           /\ CircleState(ids, frames, seen)' <=> CircleState(ids', frames', seen')
<1>1. Live' = Live /\ roles' = roles /\ parents' = parents
    BY DEF hvars, Live
<1>2. \A x : Ancestors(x)' = Ancestors(x)
    BY <1>1 DEF Ancestors
<1>3. \A x : NoCircleFrom(x)' <=> NoCircleFrom(x)
    BY <1>1, <1>2 DEF NoCircleFrom
<1>4. CircleState(ids, frames, seen)' <=> CircleState(ids', frames', seen')
    BY <1>1, <1>2, <1>3 DEF CircleState
<1> QED
    BY <1>1, <1>2, <1>3, <1>4

\* The innermost search is done: its id leads to no circle.
LEMMA CircleAscend ==
    ASSUME Consistent, Stack(frames), frames # <<>>, frames[1].todo = {}, CircleState(ids, frames, seen)
    PROVE  CircleState(ids, Tail(frames), seen)
<1> DEFINE F == Tail(frames)
           x == frames[1].id
<1>1. frames \in Seq(Frame) /\ Len(frames) \in Nat /\ DOMAIN frames = 1 .. Len(frames) /\ 1 \in DOMAIN frames
    BY DEF Stack
<1>2. DOMAIN F = 1 .. Len(frames) - 1 /\ Len(F) = Len(frames) - 1
      /\ \A i \in DOMAIN F : i + 1 \in DOMAIN frames /\ F[i] = frames[i+1]
    BY <1>1, Popped
<1>3. NoCircleFrom(x)
    <2>1. \A p \in Up(parents, x) : NoCircleFrom(p)
        BY <1>1 DEF CircleState
    <2> HIDE DEF x
    <2> QED
        BY <2>1, NoCircleAbove
<1> HIDE DEF F
<1>4. \A y \in seen : NoCircleFrom(y)
    BY DEF CircleState
<1>5. ASSUME NEW y \in Live, y \notin ids, ~NoCircleFrom(y)
      PROVE  F # <<>> /\ y = F[Len(F)].id
    <2>1. y = frames[Len(frames)].id
        BY <1>5 DEF CircleState
    <2>2. Len(frames) # 1
        BY <1>3, <1>5, <2>1
    <2>3. Len(F) \in DOMAIN F /\ Len(F) + 1 = Len(frames)
        BY <1>1, <1>2, <2>2
    <2>4. F[Len(F)] = frames[Len(frames)]
        BY <1>2, <2>3
    <2>5. F # <<>>
        BY <2>3
    <2> QED
        BY <2>1, <2>4, <2>5
<1>6. ASSUME NEW i \in DOMAIN F
      PROVE  /\ F[i].id \in Live
             /\ F[i].todo \subseteq Up(parents, F[i].id)
             /\ \A p \in Up(parents, F[i].id) :
                   p \in F[i].todo \/ NoCircleFrom(p) \/ (i > 1 /\ p = F[i-1].id)
    <2>1. i + 1 \in DOMAIN frames /\ F[i] = frames[i+1] /\ i \in Nat /\ (i + 1) - 1 = i /\ i \in DOMAIN frames
        BY <1>1, <1>2
    <2>2. frames[i+1].id \in Live /\ frames[i+1].todo \subseteq Up(parents, frames[i+1].id)
        BY <2>1 DEF CircleState
    <2>3. ASSUME NEW p \in Up(parents, frames[i+1].id), p \notin frames[i+1].todo, ~NoCircleFrom(p)
          PROVE  i > 1 /\ p = F[i-1].id
        <3>1. p = frames[i].id
            BY <2>1, <2>3 DEF CircleState
        <3>2. i # 1
            BY <1>3, <2>3, <3>1
        <3>3. i - 1 \in DOMAIN F /\ (i - 1) + 1 = i /\ i > 1
            BY <1>1, <1>2, <3>2
        <3> QED
            BY <1>2, <3>1, <3>3
    <2> QED
        BY <2>1, <2>2, <2>3
<1>7. ASSUME NEW i \in DOMAIN F, NEW j \in DOMAIN F, i <= j
      PROVE  F[i].id \in Ancestors(F[j].id)
    <2>1. i + 1 \in DOMAIN frames /\ j + 1 \in DOMAIN frames /\ i + 1 <= j + 1
        BY <1>1, <1>2, <1>7
    <2>2. F[i] = frames[i+1] /\ F[j] = frames[j+1]
        BY <1>2
    <2>3. frames[i+1].id \in Ancestors(frames[j+1].id)
        BY <2>1 DEF CircleState
    <2> QED
        BY <2>2, <2>3
<1>8. CircleState(ids, F, seen)
    BY <1>4, <1>5, <1>6, <1>7 DEF CircleState
<1> QED
    BY <1>8 DEF F

\* An id is taken from which no circle is reached, or that is searched next.
LEMMA CircleTake ==
    ASSUME Stack(frames), NEW x, Take(x), CircleState(ids, frames, seen),
           NEW i \in DOMAIN FramesWithout(x)
    PROVE  LET F == FramesWithout(x) IN
           /\ i \in DOMAIN frames /\ F[i].id = frames[i].id
           /\ F[i].id \in Live
           /\ F[i].todo \subseteq Up(parents, F[i].id)
           /\ \A p \in Up(parents, F[i].id) :
                 \/ p \in F[i].todo
                 \/ NoCircleFrom(p)
                 \/ i > 1 /\ p = F[i-1].id
                 \/ i = 1 /\ p = x
           /\ \A j \in DOMAIN F : i <= j => F[i].id \in Ancestors(F[j].id)
<1> DEFINE F == FramesWithout(x)
<1>1. frames \in Seq(Frame) /\ Len(frames) \in Nat /\ DOMAIN frames = 1 .. Len(frames)
    BY DEF Stack
<1>2. /\ F \in Seq(Frame) /\ Len(F) = Len(frames)
      /\ \A k \in 1 .. Len(frames) :
            /\ F[k].id = frames[k].id
            /\ F[k].todo = IF k = 1 THEN frames[1].todo \ {x} ELSE frames[k].todo
    BY <1>1, TakenFrom
<1> i \in DOMAIN F
    OBVIOUS
<1> HIDE DEF F
<1>3. DOMAIN F = DOMAIN frames
    BY <1>1, <1>2
<1>4. F[i].id \in Live /\ F[i].todo \subseteq Up(parents, F[i].id)
    BY <1>1, <1>2, <1>3 DEF CircleState
<1>5. ASSUME NEW p \in Up(parents, F[i].id), p \notin F[i].todo, ~NoCircleFrom(p), ~(i = 1 /\ p = x)
      PROVE  i > 1 /\ p = F[i-1].id
    <2>1. p \notin frames[i].todo
        BY <1>1, <1>2, <1>3, <1>5
    <2>2. i > 1 /\ p = frames[i-1].id
        BY <1>1, <1>2, <1>3, <1>5, <2>1 DEF CircleState
    <2>3. i - 1 \in 1 .. Len(frames)
        BY <1>1, <1>3, <2>2
    <2> QED
        BY <1>2, <2>2, <2>3
<1>6. ASSUME NEW j \in DOMAIN F, i <= j
      PROVE  F[i].id \in Ancestors(F[j].id)
    BY <1>1, <1>2, <1>3, <1>6 DEF CircleState
<1>7. i \in DOMAIN frames /\ F[i].id = frames[i].id
    BY <1>1, <1>2, <1>3
<1> QED
    BY <1>4, <1>5, <1>6, <1>7 DEF F

\* An id that is passed over takes no circle with it.
LEMMA CirclePassed ==
    ASSUME Stack(frames), NEW x, Take(x), CircleState(ids, frames, seen), NoCircleFrom(x),
           NEW S, \A y \in S : NoCircleFrom(y)
    PROVE  CircleState(ids', FramesWithout(x), S)
<1> DEFINE F == FramesWithout(x)
<1>1. frames \in Seq(Frame)
    BY DEF Stack
<1>2. F \in Seq(Frame) /\ Len(F) = Len(frames) /\ DOMAIN F = DOMAIN frames
    BY <1>1, TakenFrom, TakenLists
<1>3. ASSUME NEW i \in DOMAIN F
      PROVE  /\ i \in DOMAIN frames /\ F[i].id = frames[i].id
             /\ F[i].id \in Live
             /\ F[i].todo \subseteq Up(parents, F[i].id)
             /\ \A p \in Up(parents, F[i].id) :
                   p \in F[i].todo \/ NoCircleFrom(p) \/ (i > 1 /\ p = F[i-1].id)
             /\ \A j \in DOMAIN F : i <= j => F[i].id \in Ancestors(F[j].id)
    BY <1>3, CircleTake
<1> HIDE DEF F
<1>4. ASSUME NEW y \in Live, y \notin ids', ~NoCircleFrom(y)
      PROVE  F # <<>> /\ y = F[Len(F)].id
    <2>1. y \notin ids
        BY <1>4 DEF Take, Offered
    <2>2. frames # <<>> /\ y = frames[Len(frames)].id
        BY <1>4, <2>1 DEF CircleState
    <2>3. Len(frames) \in DOMAIN frames /\ Len(F) \in DOMAIN F
        BY <1>1, <1>2, <2>2
    <2>4. F[Len(F)].id = frames[Len(frames)].id
        BY <1>2, <1>3, <2>3
    <2>5. F # <<>>
        BY <2>3
    <2> QED
        BY <2>2, <2>4, <2>5
<1>5. CircleState(ids', F, S)
    BY <1>3, <1>4 DEF CircleState
<1> QED
    BY <1>5 DEF F

\* The circle search goes down to an id on no path of its stack.
LEMMA CircleDescended ==
    ASSUME Stack(frames), NEW x \in ID, Take(x), x \in Live, HierarchyTypeOK,
           CircleState(ids, frames, seen)
    PROVE  CircleState(ids', Searching(x) \o FramesWithout(x), seen)
<1> DEFINE f == [id |-> x, todo |-> Up(parents, x)]
           F == FramesWithout(x)
           t == <<f>> \o F
<1>1. frames \in Seq(Frame) /\ Len(frames) \in Nat /\ DOMAIN frames = 1 .. Len(frames)
    BY DEF Stack
<1>2. F \in Seq(Frame) /\ Len(F) = Len(frames) /\ DOMAIN F = DOMAIN frames
    BY <1>1, TakenFrom, TakenLists
<1>3. ASSUME NEW i \in DOMAIN F
      PROVE  /\ i \in DOMAIN frames /\ F[i].id = frames[i].id
             /\ F[i].id \in Live
             /\ F[i].todo \subseteq Up(parents, F[i].id)
             /\ \A p \in Up(parents, F[i].id) :
                   \/ p \in F[i].todo
                   \/ NoCircleFrom(p)
                   \/ i > 1 /\ p = F[i-1].id
                   \/ i = 1 /\ p = x
             /\ \A j \in DOMAIN F : i <= j => F[i].id \in Ancestors(F[j].id)
    BY <1>3, CircleTake
<1>4. f \in Frame /\ f.id = x /\ f.todo = Up(parents, x)
    BY ParentsAreIDs DEF Frame
<1>5. Searching(x) \o F = t
    BY DEF Searching
<1>6. /\ t \in Seq(Frame) /\ Len(t) = Len(F) + 1 /\ t[1] = f
      /\ \A i \in 1 .. Len(F) : t[i+1] = F[i]
    <2> HIDE DEF f, F
    <2> QED
        BY <1>2, <1>4, Pushed
<1>7. x \in ids \/ (frames # <<>> /\ x \in frames[1].todo)
    BY TakenLists
<1> HIDE DEF F, t, f
<1>8. DOMAIN t = 1 .. Len(F) + 1 /\ \A i \in DOMAIN t : i # 1 => (i > 1 /\ i - 1 \in DOMAIN F /\ t[i] = F[i-1])
    BY <1>1, <1>2, <1>6
<1>9. frames # <<>> => x \in Up(parents, F[1].id) \cap Live /\ 1 \in DOMAIN F
    <2> SUFFICES ASSUME frames # <<>>
                 PROVE  x \in Up(parents, F[1].id) \cap Live /\ 1 \in DOMAIN F
        OBVIOUS
    <2>1. 1 \in DOMAIN frames /\ x \in frames[1].todo
        BY <1>1 DEF Take, Offered
    <2>2. x \in Up(parents, frames[1].id)
        BY <2>1 DEF CircleState
    <2> QED
        BY <1>2, <1>3, <2>1, <2>2
<1>10. ASSUME NEW y \in Live, y \notin ids', ~NoCircleFrom(y)
       PROVE  t # <<>> /\ y = t[Len(t)].id
    <2>1. CASE frames = <<>>
        <3>1. y = x
            BY <1>10, <2>1 DEF Take, CircleState
        <3>2. Len(t) = 1 /\ t # <<>>
            BY <1>1, <1>2, <1>6, <2>1
        <3> QED
            BY <1>4, <1>6, <3>1, <3>2
    <2>2. CASE frames # <<>>
        <3>1. y = frames[Len(frames)].id
            BY <1>10, <2>2 DEF Take, CircleState
        <3>2. Len(F) \in DOMAIN F /\ Len(F) = Len(frames) /\ Len(F) \in 1 .. Len(F)
            BY <1>1, <1>2, <2>2
        <3>3. t[Len(t)] = F[Len(F)] /\ F[Len(F)].id = frames[Len(frames)].id
            BY <1>3, <1>6, <3>2
        <3> QED
            BY <1>6, <3>1, <3>2, <3>3
    <2> QED
        BY <2>1, <2>2
<1>11. ASSUME NEW i \in DOMAIN t
       PROVE  /\ t[i].id \in Live
              /\ t[i].todo \subseteq Up(parents, t[i].id)
              /\ \A p \in Up(parents, t[i].id) :
                    p \in t[i].todo \/ NoCircleFrom(p) \/ (i > 1 /\ p = t[i-1].id)
    <2>1. CASE i = 1
        BY <1>4, <1>6, <2>1
    <2>2. CASE i # 1
        <3>1. i > 1 /\ i - 1 \in DOMAIN F /\ t[i] = F[i-1]
            BY <1>8, <2>2
        <3>2. ASSUME NEW p \in Up(parents, t[i].id), p \notin t[i].todo, ~NoCircleFrom(p)
              PROVE  p = t[i-1].id
            <4>1. CASE i - 1 = 1
                <5>1. p = x
                    BY <1>3, <3>1, <3>2, <4>1
                <5> QED
                    BY <1>4, <1>6, <4>1, <5>1
            <4>2. CASE i - 1 # 1
                <5>1. p = F[(i-1)-1].id
                    BY <1>3, <3>1, <3>2, <4>2
                <5>2. i - 1 \in DOMAIN t /\ i - 1 # 1
                    BY <1>8, <3>1, <4>2
                <5> QED
                    BY <1>8, <5>1, <5>2
            <4> QED
                BY <4>1, <4>2
        <3> QED
            BY <1>3, <3>1, <3>2
    <2> QED
        BY <2>1, <2>2
<1>12. ASSUME NEW i \in DOMAIN t, NEW j \in DOMAIN t, i <= j
       PROVE  t[i].id \in Ancestors(t[j].id)
    <2>1. CASE j = 1
        <3>1. i = 1
            BY <1>8, <1>12, <2>1
        <3> QED
            BY <1>4, <1>6, <2>1, <3>1, ReachSelf DEF Ancestors
    <2>2. CASE j # 1 /\ i # 1
        <3>1. i - 1 \in DOMAIN F /\ t[i] = F[i-1] /\ j - 1 \in DOMAIN F /\ t[j] = F[j-1] /\ i - 1 <= j - 1
            BY <1>2, <1>1, <1>8, <1>12, <2>2
        <3> QED
            BY <1>3, <3>1
    <2>3. CASE j # 1 /\ i = 1
        <3>1. j - 1 \in DOMAIN F /\ t[j] = F[j-1] /\ 1 <= j - 1 /\ frames # <<>>
            BY <1>2, <1>1, <1>8, <2>3
        <3>2. F[1].id \in Ancestors(F[j-1].id) /\ x \in Up(parents, F[1].id) \cap Live
            BY <1>3, <1>9, <3>1
        <3>3. x \in Ancestors(F[j-1].id)
            BY <3>2, ReachClosed DEF Ancestors, ClosedUpward
        <3> QED
            BY <1>4, <1>6, <2>3, <3>1, <3>3
    <2> QED
        BY <2>1, <2>2, <2>3
<1>13. \A y \in seen : NoCircleFrom(y)
    BY DEF CircleState
<1>14. CircleState(ids', t, seen)
    BY <1>10, <1>11, <1>12, <1>13 DEF CircleState
<1> QED
    BY <1>5, <1>14 DEF F

\* Every step keeps the invariant of the circle search.
LEMMA CircleStep ==
    ASSUME IInv, [Next]_hpvars
    PROVE  CircleInv'
<1>0. CircleInv /\ Consistent /\ Stack(frames) /\ HierarchyTypeOK
    BY TypeParts DEF IInv, TypeOK
<1> SUFFICES ASSUME op' = "circle", quiet'
             PROVE  CircleState(ids, frames, seen)'
    BY DEF CircleInv
<1>1. CASE Edit
    <2>1. CASE op = "none"
        BY <1>1, <2>1 DEF Edit
    <2>2. CASE op # "none"
        <3>1. quiet /\ UNCHANGED hvars /\ UNCHANGED <<op, ids, frames, seen>>
            BY <1>1, <2>2 DEF Edit
        <3>2. CircleState(ids, frames, seen)
            BY <1>0, <3>1 DEF CircleInv
        <3> QED
            BY <3>1, <3>2, SameGraph
    <2> QED
        BY <2>1, <2>2
<1>2. ASSUME NEW h \in {"walk", "circle", "closure"}, NEW x, Start(h, x)
      PROVE  CircleState(ids, frames, seen)'
    <2>1. UNCHANGED hvars /\ h = "circle" /\ ids' = Live /\ frames' = <<>> /\ seen' = {}
        BY <1>2 DEF Start, IInv, ControlInv
    <2>2. CircleState(ids', frames', seen')
        BY <2>1 DEF CircleState
    <2> QED
        BY <2>1, <2>2, SameGraph
<1>3. CASE Finish
    BY <1>3 DEF Finish
<1> SUFFICES ASSUME UNCHANGED fixed
             PROVE  CircleState(ids, frames, seen)'
    BY StepsAreFixed, <1>1, <1>2, <1>3
<1>4. /\ op = "circle" /\ quiet /\ UNCHANGED hvars
      /\ CircleState(ids, frames, seen)
    BY <1>0 DEF fixed, history, CircleInv
<1> SUFFICES CircleState(ids', frames', seen')
    BY <1>4, SameGraph
<1>a. ASSUME Edit \/ Finish \/ (\E h \in {"walk", "circle"} : Start(h, None))
               \/ (\E x \in Roots : Start("closure", x))
      PROVE  CircleState(ids', frames', seen')
    <2>1. CircleState(ids, frames, seen)'
        BY <1>a, <1>1, <1>2, <1>3
    <2> QED
        BY <2>1, <1>4, SameGraph
<1>5. ASSUME UNCHANGED <<ids, frames, seen>>
      PROVE  CircleState(ids', frames', seen')
    BY <1>4, <1>5
<1>6. ASSUME NEW x, UNCHANGED hpvars \/ Complete \/ CircleFound(x) \/ CircleMissing(x)
      PROVE  UNCHANGED <<ids, frames, seen>>
    BY <1>6 DEF hpvars, Complete, CircleFound, CircleMissing, Fail, Return
<1>7. CASE Ascend
    <2>1. frames # <<>> /\ Head(frames).todo = {} /\ frames' = Tail(frames) /\ UNCHANGED <<ids, seen>>
        BY <1>7 DEF Ascend
    <2>2. Head(frames) = frames[1]
        BY <1>0, <2>1 DEF Stack
    <2> QED
        BY <1>0, <1>4, <2>1, <2>2, CircleAscend
<1>8. ASSUME NEW x, CircleLeaf(x) \/ CirclePass(x)
      PROVE  CircleState(ids', frames', seen')
    <2>1. Take(x) /\ frames' = FramesWithout(x)
        BY <1>8 DEF CircleLeaf, CirclePass, Skip
    <2>2. NoCircleFrom(x) /\ \A y \in seen' : NoCircleFrom(y)
        <3>1. \A y \in seen : NoCircleFrom(y)
            BY <1>4 DEF CircleState
        <3>2. CASE CircleLeaf(x)
            <4>1. NoCircleFrom(x)
                BY <3>2, NoCircleAbove DEF CircleLeaf
            <4> QED
                BY <3>1, <3>2, <4>1 DEF CircleLeaf
        <3>3. CASE CirclePass(x)
            BY <3>1, <3>3 DEF CirclePass
        <3> QED
            BY <1>8, <3>2, <3>3
    <2> QED
        BY <1>0, <1>4, <2>1, <2>2, CirclePassed
<1>9. ASSUME NEW x, CircleDescend(x)
      PROVE  CircleState(ids', frames', seen')
    BY <1>0, <1>4, <1>9, CircleDescended DEF CircleDescend, CircleAt
<1>10. ASSUME NEW x, WalkFetch(x) \/ WalkMissing(x) \/ WalkPass \/ WalkLost \/ ClosureFetch(x)
                      \/ ClosurePass(x) \/ ClosureVisit \/ ClosureLost
       PROVE  op # "circle"
    BY <1>10 DEF WalkFetch, WalkMissing, WalkPass, WalkLost, ClosureFetch, ClosurePass, ClosureVisit,
                 ClosureLost, Running
<1> QED
    BY StepCases, <1>4, <1>5, <1>6, <1>7, <1>8, <1>9, <1>10, <1>a

-----------------------------------------------------------------------------
(***************************************************************************)
(* collectRoleClosure.                                                     *)
(***************************************************************************)
\* What the lists hold together, as ids are taken and searches begin and end.
LEMMA ListsTaken ==
    ASSUME Stack(frames), NEW x, Take(x)
    PROVE  ids' \cup Lists(FramesWithout(x)) \cup {x} = ids \cup Lists(frames)
<1> DEFINE F == FramesWithout(x)
<1>1. frames \in Seq(Frame) /\ DOMAIN frames = 1 .. Len(frames) /\ Len(frames) \in Nat
    BY DEF Stack
<1>2. /\ F \in Seq(Frame) /\ Len(F) = Len(frames) /\ DOMAIN F = DOMAIN frames
      /\ \A k \in DOMAIN frames : F[k].todo = IF k = 1 THEN frames[1].todo \ {x} ELSE frames[k].todo
    BY <1>1, TakenFrom, TakenLists
<1>3. x \in ids \/ (frames # <<>> /\ x \in frames[1].todo)
    BY TakenLists
<1> HIDE DEF F
<1>4. frames # <<>> => 1 \in DOMAIN frames
    BY <1>1
<1>5. CASE frames = <<>>
    <2>1. ids' = ids \ {x} /\ x \in ids /\ DOMAIN frames = {}
        BY <1>1, <1>3, <1>5 DEF Take
    <2>2. Lists(F) = {} /\ Lists(frames) = {}
        BY <1>2, <2>1 DEF Lists
    <2>3. ids' \cup Lists(F) \cup {x} = ids \cup Lists(frames)
        BY <2>1, <2>2
    <2> QED
        BY <2>3 DEF F
<1>6. CASE frames # <<>>
    <2>1. ids' = ids /\ x \in frames[1].todo /\ 1 \in DOMAIN frames
        BY <1>1, <1>4, <1>6 DEF Take, Offered
    <2>2. Lists(F) \cup {x} = Lists(frames)
        BY <1>2, <2>1 DEF Lists
    <2>3. ids' \cup Lists(F) \cup {x} = ids \cup Lists(frames)
        BY <2>1, <2>2
    <2> QED
        BY <2>3 DEF F
<1> QED
    BY <1>5, <1>6

\* What the frames of the closure still list, as it goes down and up.
LEMMA ListsSteps ==
    ASSUME Stack(frames), HierarchyTypeOK
    PROVE  /\ Lists(<<>>) = {}
           /\ frames # <<>> /\ frames[1].todo = {} => Lists(Tail(frames)) = Lists(frames)
           /\ \A x \in ID : Lists(Searching(x) \o frames) = Up(parents, x) \cup Lists(frames)
<1>1. frames \in Seq(Frame) /\ DOMAIN frames = 1 .. Len(frames) /\ Len(frames) \in Nat
    BY DEF Stack
<1>2. Lists(<<>>) = {}
    BY DEF Lists
<1>3. ASSUME frames # <<>>, frames[1].todo = {}
      PROVE  Lists(Tail(frames)) = Lists(frames)
    <2> DEFINE F == Tail(frames)
    <2>1. DOMAIN F = 1 .. Len(frames) - 1 /\ \A i \in DOMAIN F : F[i] = frames[i+1]
        BY <1>1, <1>3, Popped
    <2> HIDE DEF F
    <2>2. ASSUME NEW i \in DOMAIN frames, NEW p \in frames[i].todo
          PROVE  \E j \in DOMAIN F : p \in F[j].todo
        <3>1. i # 1
            BY <1>3, <2>2
        <3>2. i - 1 \in DOMAIN F /\ (i - 1) + 1 = i
            BY <1>1, <2>1, <3>1
        <3> QED
            BY <2>1, <2>2, <3>2
    <2>3. ASSUME NEW i \in DOMAIN F, NEW p \in F[i].todo
          PROVE  \E j \in DOMAIN frames : p \in frames[j].todo
        <3>1. i + 1 \in DOMAIN frames
            BY <1>1, <2>1
        <3> QED
            BY <2>1, <2>3, <3>1
    <2>4. Lists(F) = Lists(frames)
        BY <2>2, <2>3 DEF Lists
    <2> QED
        BY <2>4 DEF F
<1>4. ASSUME NEW x \in ID
      PROVE  Lists(Searching(x) \o frames) = Up(parents, x) \cup Lists(frames)
    <2> DEFINE f == [id |-> x, todo |-> Up(parents, x)]
               F == <<f>> \o frames
    <2>1. f \in Frame /\ f.todo = Up(parents, x)
        BY ParentsAreIDs DEF Frame
    <2>2. Searching(x) \o frames = F
        BY DEF Searching
    <2> HIDE DEF f
    <2>3. /\ F \in Seq(Frame) /\ Len(F) = Len(frames) + 1 /\ F[1] = f
          /\ \A i \in 1 .. Len(frames) : F[i+1] = frames[i]
        BY <1>1, <2>1, Pushed
    <2> HIDE DEF F
    <2>4. DOMAIN F = 1 .. Len(frames) + 1 /\ 1 \in DOMAIN F
        BY <1>1, <2>3
    <2>5. ASSUME NEW i \in DOMAIN F, NEW p \in F[i].todo
          PROVE  p \in Up(parents, x) \cup Lists(frames)
        <3>1. CASE i = 1
            BY <2>1, <2>3, <2>5, <3>1
        <3>2. CASE i # 1
            <4>1. i - 1 \in DOMAIN frames /\ F[i] = frames[i-1]
                BY <1>1, <2>3, <2>4, <3>2
            <4> QED
                BY <2>5, <4>1 DEF Lists
        <3> QED
            BY <3>1, <3>2
    <2>6. ASSUME NEW i \in DOMAIN frames, NEW p \in frames[i].todo
          PROVE  p \in Lists(F)
        <3>1. i + 1 \in DOMAIN F /\ F[i+1] = frames[i]
            BY <1>1, <2>3, <2>4
        <3> QED
            BY <2>6, <3>1 DEF Lists
    <2>7. Up(parents, x) \subseteq Lists(F)
        BY <2>1, <2>3, <2>4 DEF Lists
    <2>8. Lists(F) = Up(parents, x) \cup Lists(frames)
        BY <2>5, <2>6, <2>7 DEF Lists
    <2> QED
        BY <2>2, <2>8
<1> QED
    BY <1>2, <1>3, <1>4

\* Every step keeps the invariant of the closure.
LEMMA ClosureStep ==
    ASSUME IInv, [Next]_hpvars
    PROVE  ClosureInv'
<1>0. ClosureInv /\ ControlInv /\ HeldInv /\ Stack(frames)
    BY TypeParts DEF IInv
<1>1. CASE UNCHANGED hpvars
    BY <1>0, <1>1 DEF ClosureInv, hpvars, fixed, history, Nothing
<1>2. CASE Edit
    <2>1. UNCHANGED <<op, frames, seen, held, out>> /\ (op = "closure" => lived \subseteq lived')
        BY <1>2 DEF Edit
    <2> QED
        BY <1>0, <2>1 DEF ClosureInv, Nothing
<1>3. ASSUME NEW h \in {"walk", "circle", "closure"}, NEW x, Start(h, x)
      PROVE  ClosureInv'
    <2>1. frames' = <<>> /\ held' = Nothing /\ out' = {}
        BY <1>0, <1>3 DEF Start, ControlInv
    <2> QED
        BY <2>1 DEF ClosureInv, Nothing
<1>4. CASE Finish
    BY <1>4 DEF Finish, ClosureInv
<1> SUFFICES ASSUME UNCHANGED fixed, op = "closure"
             PROVE  ClosureInv'
    BY StepsAreFixed, <1>2, <1>3, <1>4 DEF ClosureInv, fixed
<1>5. UNCHANGED <<op, lived>>
    BY DEF fixed, history
<1>6. ASSUME NEW x, Take(x), frames' = FramesWithout(x)
      PROVE  \A i \in DOMAIN frames' : i \in DOMAIN frames /\ frames'[i].id = frames[i].id
    <2>1. frames \in Seq(Frame) /\ DOMAIN frames = 1 .. Len(frames)
        BY <1>0 DEF Stack
    <2>2. DOMAIN frames' = DOMAIN frames
        BY <1>0, <1>6, TakenLists
    <2>3. \A i \in 1 .. Len(frames) : frames'[i].id = frames[i].id
        BY <1>6, <2>1, TakenFrom
    <2> QED
        BY <2>1, <2>2, <2>3
<1>7. CASE Ascend
    <2>1. frames # <<>> /\ frames' = Tail(frames) /\ UNCHANGED <<seen, held, out>>
        BY <1>7 DEF Ascend
    <2>2. \A i \in DOMAIN frames' : i + 1 \in DOMAIN frames /\ frames'[i] = frames[i+1]
        BY <1>0, <2>1, Popped DEF Stack
    <2> QED
        BY <1>0, <1>5, <2>1, <2>2 DEF ClosureInv, Nothing
<1>8. CASE Complete
    BY <1>0, <1>5, <1>8 DEF Complete, Return, ClosureInv, Nothing
<1>9. ASSUME NEW x, ClosureFetch(x)
      PROVE  ClosureInv'
    BY <1>0, <1>5, <1>6, <1>9 DEF ClosureFetch, Fetch, ClosureInv
<1>10. ASSUME NEW x, ClosurePass(x)
       PROVE  ClosureInv'
    BY <1>0, <1>5, <1>6, <1>10 DEF ClosurePass, Skip, ClosureInv
<1>11. CASE ClosureVisit
    <2> DEFINE x == held[1]
               f == [id |-> x, todo |-> Up(parents, x)]
    <2>1. x \in ID /\ held[2] \in lived
        BY <1>0, <1>11 DEF ClosureVisit, HeldInv
    <2>2. f \in Frame /\ f.id = x
        BY <2>1, ParentsAreIDs DEF Frame, IInv, TypeOK
    <2>3. frames' = <<f>> \o frames /\ held' = Nothing /\ seen' = seen \cup {x}
          /\ out' = out \cup {<<held[2], Up(parents, x)>>}
        BY <1>11 DEF ClosureVisit, Searching
    <2> HIDE DEF f, x
    <2>4. frames \in Seq(Frame)
        BY <1>0 DEF Stack
    <2>5. /\ frames' \in Seq(Frame) /\ Len(frames') = Len(frames) + 1 /\ frames'[1] = f
          /\ \A i \in 1 .. Len(frames) : frames'[i+1] = frames[i]
        BY <2>2, <2>3, <2>4, Pushed
    <2>6. \A i \in DOMAIN frames' : i = 1 \/ (i - 1 \in DOMAIN frames /\ frames'[i] = frames[i-1])
        BY <2>4, <2>5
    <2>7. \A i \in DOMAIN frames' : frames'[i].id \in seen'
        BY <1>0, <2>2, <2>3, <2>5, <2>6 DEF ClosureInv
    <2>8. \A pair \in out' : pair[1] \in lived
        BY <1>0, <2>1, <2>3 DEF ClosureInv
    <2> QED
        BY <1>5, <2>3, <2>7, <2>8 DEF ClosureInv
<1>12. CASE ClosureLost
    BY <1>0, <1>5, <1>12 DEF ClosureLost, ClosureInv
<1>13. ASSUME NEW x, WalkFetch(x) \/ WalkMissing(x) \/ WalkPass \/ WalkLost \/ CircleFound(x)
                      \/ CircleMissing(x) \/ CircleLeaf(x) \/ CircleDescend(x) \/ CirclePass(x)
       PROVE  op # "closure"
    BY <1>13 DEF WalkFetch, WalkMissing, WalkPass, WalkLost, CircleFound, CircleMissing, CircleLeaf,
                 CircleDescend, CirclePass, CircleAt, Running
<1>14. ASSUME (\E h \in {"walk", "circle"} : Start(h, None)) \/ (\E x \in Roots : Start("closure", x))
       PROVE  ClosureInv'
    BY <1>3, <1>14
<1> QED
    BY StepCases, <1>1, <1>2, <1>4, <1>7, <1>8, <1>9, <1>10, <1>11, <1>12, <1>13, <1>14

\* Every step keeps what the closure has still to visit.
LEMMA WaitingStep ==
    ASSUME IInv, [Next]_hpvars
    PROVE  WaitingInv'
<1> DEFINE W == ids \cup Lists(frames) \cup {held[1]}
           W2 == ids' \cup Lists(frames') \cup {held'[1]}
<1>0. /\ WaitingInv /\ ClosureInv /\ ControlInv /\ HeldInv /\ Stack(frames) /\ HierarchyTypeOK
      /\ None \notin Live
    BY TypeParts, HelpersAssumption DEF IInv, TypeOK, HierarchyTypeOK
<1> SUFFICES ASSUME op' = "closure", quiet'
             PROVE  ClosureState(W, seen, held, out, root)'
    BY DEF WaitingInv
<1>1. UNCHANGED hvars => (ClosureState(W, seen, held, out, root)'
                              <=> ClosureState(W2, seen', held', out', root'))
    BY SameGraph DEF ClosureState, Lists
<1>2. CASE Edit
    <2>1. CASE op = "none"
        BY <1>2, <2>1 DEF Edit
    <2>2. CASE op # "none"
        <3>1. quiet /\ UNCHANGED hvars /\ UNCHANGED <<op, root, ids, frames, seen, held, out>>
            BY <1>2, <2>2 DEF Edit
        <3>2. ClosureState(W, seen, held, out, root)
            BY <1>0, <3>1 DEF WaitingInv
        <3>3. W2 = W
            BY <3>1
        <3> QED
            BY <1>1, <3>1, <3>2, <3>3
    <2> QED
        BY <2>1, <2>2
<1>3. ASSUME NEW h \in {"walk", "circle", "closure"}, NEW x, Start(h, x)
      PROVE  ClosureState(W, seen, held, out, root)'
    <2>1. UNCHANGED hvars /\ root' = x /\ ids' = {x} /\ frames' = <<>> /\ seen' = {} /\ held' = Nothing
          /\ out' = {}
        BY <1>0, <1>3 DEF Start, ControlInv
    <2>2. W2 = {x, None}
        <3>1. Lists(frames') = {}
            BY <2>1 DEF Lists
        <3> QED
            BY <2>1, <3>1 DEF Nothing
    <2>3. x \in Live => x \in Ancestors(x)
        BY ReachSelf DEF Ancestors
    <2> HIDE DEF W2
    <2>4. ClosureState(W2, {}, Nothing, {}, x)
        BY <1>0, <2>2, <2>3 DEF ClosureState
    <2> QED
        BY <1>1, <2>1, <2>4
<1>4. CASE Finish
    BY <1>4 DEF Finish
<1> SUFFICES ASSUME UNCHANGED fixed
             PROVE  ClosureState(W, seen, held, out, root)'
    BY StepsAreFixed, <1>2, <1>3, <1>4
<1>5. op = "closure" /\ UNCHANGED hvars /\ root' = root
    BY DEF fixed
<1>6. ClosureState(W, seen, held, out, root)
    BY <1>0 DEF fixed, history, WaitingInv
<1>7. ASSUME ClosureState(W2, seen', held', out', root)
      PROVE  ClosureState(W, seen, held, out, root)'
    BY <1>1, <1>5, <1>7
<1>8. CASE UNCHANGED hpvars \/ Complete
    <2>1. UNCHANGED <<ids, frames, seen, held, out>>
        BY <1>8 DEF hpvars, Complete, Return
    <2> QED
        BY <1>6, <1>7, <2>1
<1>9. CASE Ascend
    <2>1. frames # <<>> /\ Head(frames).todo = {} /\ frames' = Tail(frames) /\ UNCHANGED <<ids, seen, held, out>>
        BY <1>9 DEF Ascend
    <2>2. Head(frames) = frames[1]
        BY <1>0, <2>1 DEF Stack
    <2>3. Lists(frames') = Lists(frames)
        BY <1>0, <2>1, <2>2, ListsSteps
    <2> QED
        BY <1>6, <1>7, <2>1, <2>3
<1>10. ASSUME NEW x, ClosureFetch(x)
       PROVE  ClosureState(W, seen, held, out, root)'
    <2>1. held = Nothing /\ x \in Live /\ Take(x) /\ frames' = FramesWithout(x) /\ held' = <<x, roles[x]>>
          /\ UNCHANGED <<seen, out>>
        BY <1>10 DEF ClosureFetch, Fetch
    <2>2. ids' \cup Lists(frames') \cup {x} = ids \cup Lists(frames)
        BY <1>0, <2>1, ListsTaken
    <2>3. held[1] = None /\ held'[1] = x /\ held'[2] = roles[x]
        BY <2>1 DEF Nothing
    <2>4. W2 \cap Live = W \cap Live
        BY <1>0, <2>2, <2>3
    <2>5. x \in W2
        BY <2>3
    <2> HIDE DEF W, W2
    <2>6. \A y \in seen : Up(parents, y) \cap Live \subseteq seen \cup W2
        BY <1>6, <2>4 DEF ClosureState
    <2>7. ClosureState(W2, seen', held', out', root)
        BY <1>6, <2>1, <2>3, <2>4, <2>6 DEF ClosureState
    <2> QED
        BY <1>7, <2>7
<1>11. ASSUME NEW x, ClosurePass(x)
       PROVE  ClosureState(W, seen, held, out, root)'
    <2>1. x \notin Live \ seen /\ Take(x) /\ frames' = FramesWithout(x) /\ UNCHANGED <<seen, held, out>>
        BY <1>11 DEF ClosurePass, Skip
    <2>2. ids' \cup Lists(frames') \cup {x} = ids \cup Lists(frames)
        BY <1>0, <2>1, ListsTaken
    <2>3. W = W2 \cup {x}
        BY <2>1, <2>2
    <2> HIDE DEF W, W2
    <2>4. \A y \in seen : Up(parents, y) \cap Live \subseteq seen \cup W2
        BY <1>6, <2>1, <2>3 DEF ClosureState
    <2>5. ClosureState(W2, seen', held', out', root)
        BY <1>6, <2>1, <2>3, <2>4 DEF ClosureState
    <2> QED
        BY <1>7, <2>5
<1>12. CASE ClosureVisit
    <2> DEFINE x == held[1]
               pair == <<held[2], Up(parents, x)>>
    <2>1. /\ held # Nothing /\ x \in Live /\ held' = Nothing /\ seen' = seen \cup {x}
          /\ out' = out \cup {pair} /\ frames' = Searching(x) \o frames /\ ids' = ids
        BY <1>12 DEF ClosureVisit
    <2>2. x \in ID
        BY <1>0, <2>1 DEF HierarchyTypeOK
    <2>3. pair[1] = roles[x]
        BY <1>6, <2>1 DEF ClosureState
    <2>4. x \in W /\ W2 = (ids \cup Lists(frames) \cup {None}) \cup Up(parents, x)
        <3>1. Lists(frames') = Up(parents, x) \cup Lists(frames)
            BY <1>0, <2>1, <2>2, ListsSteps
        <3>2. held'[1] = None
            BY <2>1 DEF Nothing
        <3> QED
            BY <2>1, <3>1, <3>2
    <2>5. seen \cup W \subseteq seen' \cup W2
        BY <2>1, <2>4
    <2>6. W2 \subseteq W \cup {None} \cup Up(parents, x)
        BY <2>4
    <2> HIDE DEF x, pair, W, W2
    <2>7. x \in Ancestors(root) /\ Up(parents, x) \cap Live \subseteq Ancestors(root)
        <3>1. x \in Ancestors(root)
            BY <1>6, <2>1, <2>4 DEF ClosureState
        <3> QED
            BY <3>1, ReachClosed DEF Ancestors, ClosedUpward
    <2>8. seen' \subseteq Ancestors(root) /\ W2 \cap Live \subseteq Ancestors(root)
        BY <1>0, <1>6, <2>1, <2>6, <2>7 DEF ClosureState
    <2>9. { q[1] : q \in out' } = { roles[y] : y \in seen' }
        <3>1. { q[1] : q \in out } = { roles[y] : y \in seen }
            BY <1>6 DEF ClosureState
        <3>2. { q[1] : q \in out' } = { q[1] : q \in out } \cup {roles[x]}
            BY <2>1, <2>3
        <3>3. { roles[y] : y \in seen' } = { roles[y] : y \in seen } \cup {roles[x]}
            BY <2>1
        <3> QED
            BY <3>1, <3>2, <3>3
    <2>10. \A y \in seen' : Up(parents, y) \cap Live \subseteq seen' \cup W2
        <3>1. \A y \in seen : Up(parents, y) \cap Live \subseteq seen \cup W
            BY <1>6 DEF ClosureState
        <3> QED
            BY <2>1, <2>4, <2>5, <3>1
    <2>11. root \in Live => root \in seen' \cup W2
        BY <1>6, <2>5 DEF ClosureState
    <2>12. ClosureState(W2, seen', held', out', root)
        BY <2>1, <2>8, <2>9, <2>10, <2>11 DEF ClosureState
    <2> QED
        BY <1>7, <2>12
<1>13. CASE ClosureLost
    BY <1>6, <1>13 DEF ClosureLost, ClosureState
<1>14. ASSUME NEW x, WalkFetch(x) \/ WalkMissing(x) \/ WalkPass \/ WalkLost \/ CircleFound(x)
                      \/ CircleMissing(x) \/ CircleLeaf(x) \/ CircleDescend(x) \/ CirclePass(x)
       PROVE  op # "closure"
    BY <1>14 DEF WalkFetch, WalkMissing, WalkPass, WalkLost, CircleFound, CircleMissing, CircleLeaf,
                 CircleDescend, CirclePass, CircleAt, Running
<1>15. ASSUME (\E h \in {"walk", "circle"} : Start(h, None)) \/ (\E x \in Roots : Start("closure", x))
       PROVE  ClosureState(W, seen, held, out, root)'
    BY <1>3, <1>15
<1> HIDE DEF W
<1> QED
    BY StepCases, <1>2, <1>4, <1>5, <1>8, <1>9, <1>10, <1>11, <1>12, <1>13, <1>14, <1>15


-----------------------------------------------------------------------------
(***************************************************************************)
(* The theorems.                                                           *)
(***************************************************************************)
LEMMA InitHolds == Init => IInv
<1> SUFFICES ASSUME Init
             PROVE  IInv
    OBVIOUS
<1>1. /\ op = "none" /\ root = None /\ result = "running" /\ ids = {} /\ frames = <<>> /\ seen = {}
      /\ held = Nothing /\ out = {} /\ begun = {} /\ gone = {} /\ linked = {} /\ lived = {} /\ quiet
      /\ quiet = TRUE
    BY DEF Init
<1>2. Live = {} /\ DOMAIN parents = {}
    BY DEF Init, HierarchyInit, Live
<1>3. HierarchyTypeOK /\ Consistent
    BY <1>2 DEF Init, HierarchyInit, HierarchyTypeOK, Consistent, Live
<1>4. TypeOK
    <2>1. Stack(frames)
        BY <1>1 DEF Stack
    <2>2. Kinds
        BY <1>1, <1>3 DEF Kinds, Nothing
    <2> QED
        BY <1>1, <2>1, <2>2, TypeParts
<1>5. ControlInv
    BY <1>1 DEF ControlInv
<1>6. HeldInv /\ HistoryInv /\ KnownInv /\ NotExistMeansRemoved
    BY <1>1 DEF HeldInv, HistoryInv, KnownInv, NotExistMeansRemoved
<1>7. WalkInv /\ PathInv /\ CircleInv /\ ClosureInv /\ WaitingInv
    BY <1>1 DEF WalkInv, PathInv, CircleInv, ClosureInv, WaitingInv
<1> QED
    BY <1>3, <1>4, <1>5, <1>6, <1>7 DEF IInv

\* The inductive invariant holds in every state, whatever the helpers are
\* asked and whatever other goroutines do to the instance between their calls.
THEOREM InvAlways == Spec => []IInv
<1>1. IInv /\ [Next]_hpvars => IInv'
    <2> SUFFICES ASSUME IInv, [Next]_hpvars
                 PROVE  IInv'
        OBVIOUS
    <2>1. TypeOK' /\ Consistent' /\ ControlInv' /\ HeldInv' /\ HistoryInv' /\ KnownInv'
        BY TypeStep, ConsistentStep, ControlStep, HeldStep, HistoryStep, KnownStep
    <2>2. WalkInv' /\ PathInv' /\ CircleInv' /\ ClosureInv' /\ WaitingInv'
        BY WalkStep, PathStep, CircleStep, ClosureStep, WaitingStep
    <2> QED
        BY <2>1, <2>2 DEF IInv
<1> QED
    BY InitHolds, <1>1, PTL DEF Spec

\* Every variable holds a value of its kind, and no id is twice on the stack of
\* a search (the loop over stack at helper.go:55-59, seen at filter_scope.go:16).
THEOREM TypeCorrect == Spec => []TypeOK
<1>1. IInv => TypeOK
    BY DEF IInv
<1> QED
    BY InvAlways, <1>1, PTL

\* Walk and InherCircle return ErrRoleNotExist only if a role was removed while
\* they ran (helper.go:17-24, 60-63).
THEOREM NotExistMeansRemovedAlways == Spec => []NotExistMeansRemoved
<1>1. IInv => NotExistMeansRemoved
    BY DEF IInv, KnownInv
<1> QED
    BY InvAlways, <1>1, PTL

\* A walk that returns nil gave its handler every role of its snapshot exactly
\* once, and only objects that were registered during the walk (helper.go:16-28).
THEOREM WalkCompleteAlways == Spec => []WalkComplete
<1>1. IInv => WalkComplete
    <2> SUFFICES ASSUME IInv, op = "walk", result = "nil"
                 PROVE  /\ \A id \in begun :
                              Cardinality({ pair \in out : IdOf[pair[1]] = id }) = 1
                        /\ \A pair \in out : pair[1] \in lived
        BY DEF WalkComplete
    <2>1. WalkInv /\ ids = {} /\ held[1] = None /\ begun \subseteq ID /\ None \notin ID
        BY HelpersAssumption DEF IInv, ControlInv, TypeOK, Nothing
    <2>2. ASSUME NEW id \in begun
          PROVE  Cardinality({ pair \in out : IdOf[pair[1]] = id }) = 1
        <3>1. PICK pair \in out : IdOf[pair[1]] = id
            BY <2>1 DEF WalkInv
        <3>2. { pair2 \in out : IdOf[pair2[1]] = id } = {pair}
            BY <2>1, <3>1 DEF WalkInv
        <3> QED
            BY <3>2, FS_Singleton
    <2> QED
        BY <2>1, <2>2 DEF WalkInv
<1> QED
    BY InvAlways, <1>1, PTL

\* Every link of the circle that InherCircle reports existed at some moment of
\* the call, whatever edits ran meanwhile (helper.go:55-70).
THEOREM CircleWasLinkedAlways == Spec => []CircleWasLinked
<1>1. IInv => CircleWasLinked
    <2> SUFFICES ASSUME IInv, result = "ErrFoundCircle"
                 PROVE  CircleWasLinked
        BY DEF CircleWasLinked
    <2> DEFINE k == CHOOSE i \in DOMAIN frames : frames[i].id = held[1]
    <2>1. PathInv /\ op = "circle" /\ frames \in Seq(Frame)
        BY TypeParts DEF IInv, ControlInv, Stack
    <2>2. frames # <<>> /\ held[1] \in frames[1].todo /\ OnStack(held[1])
        BY <2>1 DEF PathInv
    <2>3. k \in DOMAIN frames
        BY <2>2 DEF OnStack
    <2> HIDE DEF k
    <2>4. DOMAIN frames = 1 .. Len(frames) /\ Len(frames) \in Nat /\ 1 \in DOMAIN frames
        BY <2>1, <2>2
    <2>5. <<frames[1].id, held[1]>> \in linked
        BY <2>1, <2>2, <2>4 DEF PathInv
    <2>6. \A i \in 2 .. k : <<frames[i].id, frames[i-1].id>> \in linked
        <3>1. \A i \in 2 .. k : i \in 2 .. Len(frames)
            BY <2>3, <2>4
        <3> QED
            BY <2>1, <3>1 DEF PathInv
    <2> QED
        BY <2>5, <2>6 DEF CircleWasLinked, k
<1> QED
    BY InvAlways, <1>1, PTL

\* In an instance that is left alone, InherCircle reports a circle if and only
\* if some role inherits from itself (helper.go:50-75).
THEOREM CircleExactAlways == Spec => []CircleExact
<1>1. IInv => CircleExact
    <2> SUFFICES ASSUME IInv, op = "circle", result # "running", quiet
                 PROVE  result = "ErrFoundCircle" <=> Cyclic(Live, parents)
        BY DEF CircleExact
    <2>1. CircleState(ids, frames, seen) /\ Consistent
        BY DEF IInv, CircleInv
    <2>2. frames \in Seq(Frame)
        BY TypeParts DEF IInv, Stack
    <2>3. CASE result = "ErrFoundCircle"
        <3>1. frames # <<>> /\ held[1] \in frames[1].todo /\ OnStack(held[1])
            BY <2>3 DEF IInv, PathInv
        <3>2. PICK k \in DOMAIN frames : frames[k].id = held[1]
            BY <3>1 DEF OnStack
        <3>3. 1 \in DOMAIN frames /\ 1 <= k
            BY <2>2, <3>1, <3>2
        <3> DEFINE x == frames[1].id
                   p == held[1]
        <3>4. x \in Live /\ p \in Up(parents, x)
            BY <2>1, <3>1, <3>3 DEF CircleState
        <3>5. p \in Live
            BY <2>1, <3>4 DEF Consistent, Up
        <3>6. x \in Ancestors(p)
            BY <2>1, <3>2, <3>3 DEF CircleState
        <3> QED
            BY <2>3, <3>4, <3>5, <3>6 DEF Cyclic, Ancestors
    <2>4. CASE result # "ErrFoundCircle"
        <3>1. result = "nil"
            <4>1. result # "ErrRoleNotExist"
                BY DEF IInv, KnownInv, NotExistMeansRemoved, HistoryInv
            <4>2. result # "handler error"
                BY DEF IInv, ControlInv
            <4> QED
                BY <2>4, <4>1, <4>2 DEF IInv, TypeOK
        <3>2. ids = {} /\ frames = <<>>
            BY <3>1 DEF IInv, ControlInv
        <3>3. \A x \in Live : NoCircleFrom(x) /\ x \in Ancestors(x)
            BY <2>1, <3>2, ReachSelf DEF CircleState, Ancestors
        <3>4. ~Cyclic(Live, parents)
            BY <3>3 DEF NoCircleFrom, Cyclic, Ancestors
        <3> QED
            BY <2>4, <3>4
    <2> QED
        BY <2>3, <2>4
<1> QED
    BY InvAlways, <1>1, PTL

\* collectRoleClosure returns objects that were registered during the call, and
\* in an instance that is left alone exactly those of the role and of all it
\* inherits from (filter_scope.go:15-38).
THEOREM ClosureExactAlways == Spec => []ClosureExact
<1>1. IInv => ClosureExact
    <2> SUFFICES ASSUME IInv, op = "closure", result = "nil"
                 PROVE  ClosureExact
        BY DEF ClosureExact
    <2> DEFINE objects == { pair[1] : pair \in out }
    <2>1. ids = {} /\ frames = <<>> /\ held[1] = None /\ None \notin Live
        BY HelpersAssumption DEF IInv, ControlInv, TypeOK, HierarchyTypeOK, Nothing
    <2>2. objects \subseteq lived
        BY DEF IInv, ClosureInv
    <2>3. ASSUME quiet
          PROVE  objects = { roles[x] : x \in Ancestors(root) }
        <3>1. ids \cup Lists(frames) \cup {held[1]} = {None}
            BY <2>1 DEF Lists
        <3>2. ClosureState({None}, seen, held, out, root)
            BY <2>3, <3>1 DEF IInv, WaitingInv
        <3>3. /\ objects = { roles[x] : x \in seen }
              /\ seen \subseteq Ancestors(root)
              /\ root \in Live => root \in seen
              /\ \A x \in seen : Up(parents, x) \cap Live \subseteq seen
            BY <2>1, <3>2 DEF ClosureState
        <3>4. Ancestors(root) \subseteq seen
            <4>1. CASE root \in Live
                <5>1. ClosedUpward(Live, parents, seen \cap Live)
                    BY <3>3 DEF ClosedUpward
                <5> QED
                    BY <3>3, <4>1, <5>1, ReachLeast DEF Ancestors
            <4>2. CASE root \notin Live
                BY <4>2, ReachSelf DEF Ancestors
            <4> QED
                BY <4>1, <4>2
        <3>5. seen = Ancestors(root)
            BY <3>3, <3>4
        <3> QED
            BY <3>3, <3>5
    <2> QED
        BY <2>2, <2>3 DEF ClosureExact
<1> QED
    BY InvAlways, <1>1, PTL
=============================================================================
