------------------------------ MODULE Helpers ------------------------------
(***************************************************************************)
(* The helpers that read an RBAC instance through several calls: Walk and  *)
(* InherCircle of src/helper.go, collectRoleClosure of src/filter_scope.go.*)
(* Each call (RoleIDs, Get, GetParents) is atomic, which StdRBACLocking    *)
(* shows; between two calls of a helper other goroutines edit the instance.*)
(*                                                                         *)
(* One goroutine runs one helper at a time:                                *)
(*   op      the helper, with its argument in root                         *)
(*   ids     role ids its outer loop has still to take, in any order       *)
(*   frames  the active calls of its depth-first search, innermost first:  *)
(*           the id and the parents that are still to be followed          *)
(*   seen    the ids its search skips                                      *)
(*   held    the id it is at and the role object Get returned for it       *)
(*   out     what it has produced: pairs of a role object and its parents  *)
(*   result  "running", or what it returned                                *)
(***************************************************************************)
EXTENDS Hierarchy, Integers, Sequences, FiniteSets

CONSTANTS
    Edits,  \* what other goroutines may do to the instance
    Roots,  \* the roles collectRoleClosure is asked for
    None    \* no id, no object

ASSUME HelpersAssumption ==
    /\ None \notin ID \cup Role
    /\ Roots \subseteq ID
    /\ Edits \subseteq
          [op : {"Add"}, role : Role]
            \cup [op : {"Remove"}, id : ID]
            \cup [op : {"SetParents", "RemoveParents"}, id : ID, ps : SUBSET ID]

VARIABLES
    op, root, ids, frames, seen, held, out, result,
    \* History since the helper started, which no action reads:
    begun,   \* the roles at its start
    gone,    \* the ids that have been removed
    linked,  \* every inheritance link there has been
    lived,   \* every role object that has been registered
    quiet    \* nobody has changed the instance

history == <<begun, gone, linked, lived, quiet>>
fixed == <<hvars, history, op, root>>
hpvars == <<fixed, ids, frames, seen, held, out, result>>

Links == { l \in Live \X ID : l[2] \in Up(parents, l[1]) }
Objects == { roles[id] : id \in Live }
Nothing == <<None, None>>

Init ==
    /\ HierarchyInit
    /\ op = "none" /\ root = None /\ result = "running"
    /\ ids = {} /\ frames = <<>> /\ seen = {} /\ held = Nothing /\ out = {}
    /\ begun = {} /\ gone = {} /\ linked = {} /\ lived = {} /\ quiet = TRUE

\* One call of another goroutine that changes the instance.
EditHierarchy ==
    \E e \in Edits :
        \/ e.op = "Add" /\ AddRole(e.role)
        \/ e.op = "Remove" /\ RemoveRole(e.id)
        \/ e.op = "SetParents" /\ BindParents(e.id, e.ps)
        \/ e.op = "RemoveParents" /\ UnbindParents(e.id, e.ps)

Edit ==
    /\ EditHierarchy
    /\ IF op = "none" THEN UNCHANGED history
       ELSE /\ gone' = gone \cup (Live \ Live')
            /\ linked' = linked \cup Links'
            /\ lived' = lived \cup Objects'
            /\ quiet' = (quiet /\ hvars' = hvars)
            /\ begun' = begun
    /\ UNCHANGED <<op, root, ids, frames, seen, held, out, result>>

\* The helper h starts.  Walk and InherCircle take a snapshot of the role ids;
\* collectRoleClosure starts from the role it is given.
Start(h, x) ==
    /\ op = "none"
    /\ op' = h /\ root' = x
    /\ ids' = IF h = "closure" THEN {x} ELSE Live
    /\ begun' = Live /\ linked' = Links /\ lived' = Objects
    /\ UNCHANGED <<hvars, gone, quiet, frames, seen, held, out, result>>

\* The helper's result is used and it is forgotten.
Finish ==
    /\ result # "running"
    /\ op' = "none" /\ root' = None /\ result' = "running"
    /\ ids' = {} /\ frames' = <<>> /\ seen' = {} /\ held' = Nothing /\ out' = {}
    /\ begun' = {} /\ gone' = {} /\ linked' = {} /\ lived' = {} /\ quiet' = TRUE
    /\ UNCHANGED hvars

-----------------------------------------------------------------------------
Running(h) == op = h /\ result = "running"

\* x is an id that the outer loop, or the innermost search, takes next.
Offered(x) == x \in IF frames = <<>> THEN ids ELSE Head(frames).todo

\* Faulty variant: the loop does not move on.
FramesUnmoved(x) == frames

\* The active searches once x is taken, and once x is searched in its turn.
FramesWithout(x) ==
    IF frames = <<>> THEN <<>> ELSE [frames EXCEPT ![1].todo = @ \ {x}]
Searching(x) == <<[id |-> x, todo |-> Up(parents, x)]>>

Take(x) ==
    /\ Offered(x)
    /\ ids' = IF frames = <<>> THEN ids \ {x} ELSE ids

Skip(x) ==
    /\ Take(x)
    /\ frames' = FramesWithout(x)
    /\ UNCHANGED <<fixed, held, out, result>>

Return(r) ==
    /\ result' = r
    /\ UNCHANGED <<fixed, ids, frames, seen, out>>

\* Faulty variant: the error stays in the loop's own err, and nil is returned.
FailShadowed == Return("nil") /\ UNCHANGED held

\* Get or GetParents answered with an error, which the helper passes on.
Fail == Return("ErrRoleNotExist") /\ UNCHANGED held

\* Faulty variant: a finished search keeps its slot on the stack, which its
\* caller shares, and the caller's id is lost.
AscendOverwriting ==
    /\ result = "running" /\ held = Nothing
    /\ frames # <<>> /\ Head(frames).todo = {}
    /\ frames' = IF Len(frames) = 1 THEN <<>>
                 ELSE <<[frames[2] EXCEPT !.id = frames[1].id]>> \o Tail(Tail(frames))
    /\ UNCHANGED <<fixed, ids, seen, held, out, result>>

\* The innermost search has followed all its parents.
Ascend ==
    /\ result = "running" /\ held = Nothing
    /\ frames # <<>> /\ Head(frames).todo = {}
    /\ frames' = Tail(frames)
    /\ UNCHANGED <<fixed, ids, seen, held, out, result>>

\* Nothing is left to do.
Complete ==
    /\ op # "none" /\ result = "running" /\ held = Nothing
    /\ frames = <<>> /\ ids = {}
    /\ Return("nil") /\ UNCHANGED held

\* Get, which Walk and collectRoleClosure call first.
Fetch(x) ==
    /\ Take(x)
    /\ frames' = FramesWithout(x)
    /\ held' = <<x, roles[x]>>
    /\ UNCHANGED <<fixed, seen, out, result>>

\* Faulty variant: a role that has no parents entry counts as missing.
HasEntry(x) == x \in DOMAIN parents

\* GetParents(x) answers without an error.
Known(x) == x \in Live

-----------------------------------------------------------------------------
\* Walk: for each id of the snapshot Get, then GetParents, then the handler,
\* which may fail and end the walk.
WalkGet ==
    /\ Running("walk") /\ held = Nothing
    /\ \E x \in ids : \/ x \in Live /\ Fetch(x)
                      \/ x \notin Live /\ Fail

WalkHandle ==
    /\ Running("walk") /\ held # Nothing
    /\ \/ /\ Known(held[1])
          /\ out' = out \cup {<<held[2], Up(parents, held[1])>>}
          /\ held' = Nothing
          /\ result' \in {"running", "handler error"}
          /\ UNCHANGED <<fixed, ids, frames, seen>>
       \/ ~Known(held[1]) /\ Fail

\* Faulty variant: only the caller's id is compared.
OnTop(x) == frames # <<>> /\ Head(frames).id = x

OnStack(x) == \E i \in DOMAIN frames : frames[i].id = x

\* InherCircle: a depth-first search from every role of the snapshot.  Only an
\* id that had no parents is remembered in seen ("skipped"); the ids of frames
\* are its stack, and it reports a circle when it meets one of them again.
CircleVisit ==
    /\ Running("circle")
    /\ \E x \in ID \ seen :
          /\ Offered(x)
          /\ \/ OnStack(x) /\ held' = <<x, None>> /\ Return("ErrFoundCircle")
             \/ ~OnStack(x) /\ ~Known(x) /\ Fail
             \/ /\ ~OnStack(x) /\ Known(x) /\ Up(parents, x) = {}
                /\ seen' = seen \cup {x} /\ Skip(x)
             \/ /\ ~OnStack(x) /\ Known(x) /\ Up(parents, x) # {}
                /\ Take(x)
                /\ frames' = Searching(x) \o FramesWithout(x)
                /\ UNCHANGED <<fixed, seen, held, out, result>>

CircleSkip ==
    /\ Running("circle")
    /\ \E x \in seen : Skip(x) /\ UNCHANGED seen

\* Faulty variant: the parents are marked with the id, before their turn.
MarkWithParents(x) == seen \cup {x} \cup Up(parents, x)

\* The ids collectRoleClosure has visited once x is.
Mark(x) == seen \cup {x}

\* collectRoleClosure: a depth-first search that visits every id once and goes
\* on without an id that Get or GetParents does not know.
ClosureGet ==
    /\ Running("closure") /\ held = Nothing
    /\ \E x \in ID : \/ x \in Live \ seen /\ Fetch(x)
                     \/ x \notin Live \ seen /\ Skip(x) /\ UNCHANGED seen

ClosureExpand ==
    LET x == held[1] IN
    /\ Running("closure") /\ held # Nothing
    /\ held' = Nothing
    /\ \/ /\ Known(x)
          /\ seen' = Mark(x)
          /\ out' = out \cup {<<held[2], Up(parents, x)>>}
          /\ frames' = Searching(x) \o frames
       \/ ~Known(x) /\ UNCHANGED <<seen, out, frames>>
    /\ UNCHANGED <<fixed, ids, result>>

-----------------------------------------------------------------------------
Step == Ascend \/ Complete \/ WalkGet \/ WalkHandle
          \/ CircleVisit \/ CircleSkip \/ ClosureGet \/ ClosureExpand

Next ==
    \/ Edit
    \/ Start("walk", None) \/ Start("circle", None)
    \/ \E x \in Roots : Start("closure", x)
    \/ Step
    \/ Finish

\* The helper's goroutine is scheduled again and again; nobody has to edit.
Spec == Init /\ [][Next]_hpvars /\ WF_hpvars(Step)

-----------------------------------------------------------------------------
\* Every variable holds a value of its kind; no id is twice on the stack.
TypeOK ==
    /\ HierarchyTypeOK
    /\ op \in {"none", "walk", "circle", "closure"}
    /\ root \in ID \cup {None}
    /\ ids \subseteq ID /\ seen \subseteq ID
    /\ frames \in Seq([id : ID, todo : SUBSET ID])
    /\ \A i, j \in DOMAIN frames : frames[i].id = frames[j].id => i = j
    /\ held \in (ID \cup {None}) \X (Role \cup {None})
    /\ out \subseteq Role \X SUBSET ID
    /\ result \in {"running", "nil", "ErrRoleNotExist", "ErrFoundCircle", "handler error"}
    /\ begun \subseteq ID /\ gone \subseteq ID
    /\ linked \subseteq ID \X ID /\ lived \subseteq Role /\ quiet \in BOOLEAN

\* A walk that returns nil gave its handler every role that was registered
\* when it began, each id once, and no object that was not registered at some
\* moment of the walk (helper.go:16-28).
WalkComplete ==
    (op = "walk" /\ result = "nil") =>
        /\ \A id \in begun :
              Cardinality({ pair \in out : IdOf[pair[1]] = id }) = 1
        /\ \A pair \in out : pair[1] \in lived

\* A walk, or a circle search, fails with ErrRoleNotExist only when a role
\* was removed while it ran: the error never comes from an instance that is
\* left alone or only extended (helper.go:17-24, 60-63).
NotExistMeansRemoved == result = "ErrRoleNotExist" => gone # {}

\* When the instance is left alone, InherCircle reports a circle exactly when
\* some role inherits from itself (helper.go:50-75).
CircleExact ==
    (op = "circle" /\ result # "running" /\ quiet) =>
        (result = "ErrFoundCircle" <=> Cyclic(Live, parents))

\* Whatever edits run meanwhile, each link of the circle that InherCircle
\* reports existed at some moment of the call, though perhaps never all of
\* them at once (helper.go:55-70).
CircleWasLinked ==
    result = "ErrFoundCircle" =>
        LET k == CHOOSE i \in DOMAIN frames : frames[i].id = held[1] IN
        /\ <<frames[1].id, held[1]>> \in linked
        /\ \A i \in 2 .. k : <<frames[i].id, frames[i-1].id>> \in linked

\* When the instance is left alone, collectRoleClosure returns the role it was
\* asked for and all it inherits from; with edits, still only objects that
\* were registered at some moment of the call (filter_scope.go:15-33).
ClosureExact ==
    (op = "closure" /\ result = "nil") =>
        LET objects == { pair[1] : pair \in out } IN
        /\ objects \subseteq lived
        /\ quiet => objects = { roles[x] : x \in Ancestors(root) }

\* Every helper returns, in cyclic hierarchies and however the instance is
\* edited while it runs.
HelpersReturn == op # "none" ~> result # "running"
=============================================================================
