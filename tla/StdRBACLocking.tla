--------------------------- MODULE StdRBACLocking ---------------------------
(***************************************************************************)
(* src/rbac.go as it runs: goroutines that take rbac.mutex, loop over maps *)
(* one entry at a time, recurse in IsGranted, and unlock.                  *)
(*                                                                         *)
(* pc[c] is where client c is:                                             *)
(*   idle    between calls                                                 *)
(*   start   the call has begun; it asks for the mutex next                *)
(*   body    runs the operation once the mutex is granted                  *)
(*   bind, unbind, scrub    in the loop of SetParents, RemoveParents,      *)
(*           Remove, with the entries left in todo[c]                      *)
(*   walk    in recursionCheck: stack[c] holds, innermost first, the       *)
(*           parents each active call has still to visit                   *)
(*   unlock  about to release the mutex and return reply[c]                *)
(*                                                                         *)
(* Assign and Revoke act on a role object under that object's own mutex    *)
(* and never take rbac.mutex: they are one step here, StdRole opens it up. *)
(* A Go stack is bounded, and a goroutine that exceeds it ends the whole   *)
(* program (crashed): MaxDepth is that bound, in calls of recursionCheck.  *)
(***************************************************************************)
EXTENDS Hierarchy, Integers, Sequences

CONSTANTS Client, Requests, MaxDepth

ASSUME MaxDepthAssumption == MaxDepth \in Nat \ {0}

VARIABLES
    call, reply,  \* as in StdRBAC
    missed,       \* as in StdRBAC: a history variable, no action reads it
    rw,           \* StdRBAC.mutex
    pc, todo, stack, crashed

lvars == <<roles, parents, perms, call, reply, missed, rw, pc, todo, stack, crashed>>

M == INSTANCE RWMutex

-----------------------------------------------------------------------------
(***************************************************************************)
(* The refinement mapping.  An edit takes effect when it holds the lock    *)
(* and its validation has passed: what is left in todo counts as done.     *)
(***************************************************************************)
In(step) == { c \in Client : pc[c] = step }

Editor == CHOOSE c \in In("bind") \cup In("unbind") \cup In("scrub") : TRUE

EffectiveParents ==
    CASE In("bind") # {}   -> Bind(parents, call[Editor].id, todo[Editor])
      [] In("unbind") # {} -> Unbind(parents, call[Editor].id, todo[Editor])
      [] In("scrub") # {}  -> Scrub(parents, call[Editor].id)
      [] OTHER             -> parents

EffectiveReply ==
    [c \in Client |-> IF pc[c] \in {"bind", "unbind", "scrub"}
                      THEN [err |-> "nil"] ELSE reply[c]]

Contract == INSTANCE StdRBAC
            WITH parents <- EffectiveParents, reply <- EffectiveReply

ASSUME RequestsAssumption == Requests \subseteq Contract!RequestType

-----------------------------------------------------------------------------
Init ==
    /\ HierarchyInit
    /\ call = [c \in Client |-> Contract!NoCall]
    /\ reply = [c \in Client |-> Contract!NoReply]
    /\ missed = [c \in Client |-> {}]
    /\ rw = M!Free
    /\ pc = [c \in Client |-> "idle"]
    /\ todo = [c \in Client |-> {}]
    /\ stack = [c \in Client |-> <<>>]
    /\ crashed = FALSE

\* Client c is at one of steps, in a program that is still running.
At(c, steps) == ~crashed /\ pc[c] \in steps

Goto(c, step) == pc' = [pc EXCEPT ![c] = step]

\* The call's result is known: release the mutex next.
Answer(c, r) ==
    /\ reply' = [reply EXCEPT ![c] = r]
    /\ Goto(c, "unlock")
    /\ UNCHANGED <<call, rw, crashed>>

Begin(c) ==
    /\ At(c, {"idle"})
    /\ \E q \in Requests : call' = [call EXCEPT ![c] = q]
    /\ Goto(c, "start")
    /\ UNCHANGED <<hvars, reply, missed, rw, todo, stack, crashed>>

\* Faulty variant: Remove runs under the read lock.
WritersButRemove == {"Add", "SetParents", "GetParents", "RemoveParents"}

\* The operations that take rbac.mutex.Lock; GetParents does too.
Writers == {"Add", "Remove", "SetParents", "GetParents", "RemoveParents"}
RoleCalls == {"Assign", "Revoke"}

\* rbac.mutex.Lock() is called and wins over other writers.
Lock(c) ==
    /\ At(c, {"start"}) /\ call[c].op \in Writers
    /\ M!CanAnnounce(rw)
    /\ rw' = M!Announce(rw, c)
    /\ Goto(c, "body")
    /\ UNCHANGED <<hvars, call, reply, missed, todo, stack, crashed>>

\* rbac.mutex.RLock() is called; it may block behind a writer.
RLock(c) ==
    /\ At(c, {"start"}) /\ call[c].op \notin Writers \cup RoleCalls
    /\ rw' = M!RLock(rw, c)
    /\ Goto(c, "body")
    /\ UNCHANGED <<hvars, call, reply, missed, todo, stack, crashed>>

\* The operation op of client c holds the mutex the way it asked for it.
Enter(c, op) ==
    /\ At(c, {"body"}) /\ call[c].op = op
    /\ IF op \in Writers THEN M!Owns(rw, c) ELSE M!Reads(rw, c)

\* Enter a loop over the entries in S.
Loop(c, step, S) ==
    /\ Goto(c, step)
    /\ todo' = [todo EXCEPT ![c] = S]
    /\ UNCHANGED <<perms, call, reply, missed, rw, stack, crashed>>

\* One iteration of the loop at step, for entry e, sets parents to ps.
Iterate(c, step, e, ps) ==
    /\ At(c, {step})
    /\ parents' = ps
    /\ todo' = [todo EXCEPT ![c] = @ \ {e}]
    /\ UNCHANGED <<roles, perms, call, reply, missed, rw, pc, stack, crashed>>

Report(c, r) == Answer(c, r) /\ UNCHANGED <<hvars, missed, todo, stack>>

Add(c) ==
    LET r == call[c].role IN
    /\ Enter(c, "Add")
    /\ \/ AddRole(r) /\ Answer(c, Contract!Ok) /\ UNCHANGED <<missed, todo, stack>>
       \/ IdOf[r] \in Live /\ Report(c, Contract!Exist)

\* delete(rbac.roles, id), then a loop over every entry of rbac.parents.
Remove(c) ==
    LET id == call[c].id IN
    /\ Enter(c, "Remove")
    /\ \/ /\ id \in Live
          /\ roles' = [x \in Live \ {id} |-> roles[x]]
          /\ Loop(c, "scrub", DOMAIN parents)
          /\ UNCHANGED parents
       \/ id \notin Live /\ Report(c, Contract!NotExist)

ScrubEntry(c) ==
    LET id == call[c].id IN
    \E x \in todo[c] :
        Iterate(c, "scrub", x,
            IF x = id THEN [y \in DOMAIN parents \ {id} |-> parents[y]]
                      ELSE [parents EXCEPT ![x] = @ \ {id}])

\* Validate every id, create the entry, then a loop over the parents.
SetParents(c) ==
    LET id == call[c].id IN
    /\ Enter(c, "SetParents")
    /\ \/ /\ AllKnown(id, call[c].ps)
          /\ parents' = Bind(parents, id, {})
          /\ Loop(c, "bind", call[c].ps)
          /\ UNCHANGED roles
       \/ ~AllKnown(id, call[c].ps) /\ Report(c, Contract!NotExist)

BindParent(c) ==
    LET id == call[c].id IN
    \E p \in todo[c] :
        Iterate(c, "bind", p, [parents EXCEPT ![id] = @ \cup {p}])

RemoveParents(c) ==
    LET id == call[c].id IN
    /\ Enter(c, "RemoveParents")
    /\ \/ /\ AllKnown(id, call[c].ps)
          /\ Loop(c, "unbind", call[c].ps)
          /\ UNCHANGED <<roles, parents>>
       \/ ~AllKnown(id, call[c].ps) /\ Report(c, Contract!NotExist)

\* Deleting from the entry of an id that has none does nothing.
UnbindParent(c) ==
    LET id == call[c].id IN
    \E p \in todo[c] : Iterate(c, "unbind", p, Unbind(parents, id, {p}))

\* Faulty variant: the loop is left while entries remain.
LoopDoneEarly(c) ==
    /\ At(c, {"bind", "unbind", "scrub"})
    /\ Report(c, Contract!Ok)

LoopDone(c) ==
    /\ At(c, {"bind", "unbind", "scrub"}) /\ todo[c] = {}
    /\ Report(c, Contract!Ok)

Get(c) ==
    LET id == call[c].id IN
    /\ Enter(c, "Get")
    /\ \/ id \in Live /\ Report(c, Contract!Found(roles[id]))
       \/ id \notin Live /\ Report(c, Contract!NotExist)

GetParents(c) ==
    LET id == call[c].id IN
    /\ Enter(c, "GetParents")
    /\ \/ id \in Live /\ Report(c, Contract!Listed(Up(parents, id)))
       \/ id \notin Live /\ Report(c, Contract!NotExist)

RoleIDs(c) == Enter(c, "RoleIDs") /\ Report(c, Contract!Listed(Live))

-----------------------------------------------------------------------------
(***************************************************************************)
(* IsGranted.  A call of recursionCheck(x) asks the role for the           *)
(* permission; without it, it ranges over the parents of x, in any order,  *)
(* and recurses into those that are roles.  outer is the stack of the      *)
(* calls that are waiting for this one.                                    *)
(***************************************************************************)
Visit(c, x, outer) ==
    \/ /\ Len(outer) < MaxDepth
       /\ call[c].perm \in perms[roles[x]]
       /\ stack' = [stack EXCEPT ![c] = <<>>]
       /\ Answer(c, Contract!Granted(TRUE))
       /\ UNCHANGED <<hvars, missed, todo>>
    \/ /\ Len(outer) < MaxDepth
       /\ call[c].perm \notin perms[roles[x]]
       /\ missed' = [missed EXCEPT ![c] = @ \cup {roles[x]}]
       /\ stack' = [stack EXCEPT ![c] = <<Up(parents, x) \cap Live>> \o outer]
       /\ Goto(c, "walk")
       /\ UNCHANGED <<hvars, call, reply, rw, todo, crashed>>
    \/ /\ Len(outer) = MaxDepth
       /\ crashed' = TRUE
       /\ UNCHANGED <<hvars, call, reply, missed, rw, pc, todo, stack>>

IsGranted(c) ==
    LET id == call[c].id IN
    /\ Enter(c, "IsGranted")
    /\ \/ id \in Live /\ Visit(c, id, <<>>)
       \/ id \notin Live /\ Report(c, Contract!Granted(FALSE))

\* Faulty variant: the recursion is into the role the call started from.
DescendFromStart(c) ==
    /\ At(c, {"walk"})
    /\ \E p \in Head(stack[c]) :
          Visit(c, call[c].id, <<Head(stack[c]) \ {p}>> \o Tail(stack[c]))

Descend(c) ==
    /\ At(c, {"walk"})
    /\ \E p \in Head(stack[c]) :
          Visit(c, p, <<Head(stack[c]) \ {p}>> \o Tail(stack[c]))

\* No parent is left: this call of recursionCheck returns false.
Ascend(c) ==
    /\ At(c, {"walk"}) /\ Head(stack[c]) = {}
    /\ stack' = [stack EXCEPT ![c] = Tail(@)]
    /\ \/ /\ Len(stack[c]) = 1
          /\ Answer(c, Contract!Granted(FALSE))
          /\ UNCHANGED <<hvars, missed, todo>>
       \/ /\ Len(stack[c]) > 1
          /\ UNCHANGED <<hvars, call, reply, missed, rw, pc, todo, crashed>>

-----------------------------------------------------------------------------
\* Assign and Revoke, under the mutex of the role object alone.
EditRole(c) ==
    LET q == call[c] IN
    /\ At(c, {"start"})
    /\ \/ q.op = "Assign" /\ AssignPerms(q.role, q.perms)
       \/ q.op = "Revoke" /\ RevokePerms(q.role, q.perms)
    /\ Answer(c, Contract!Ok)
    /\ UNCHANGED <<missed, todo, stack>>

\* The mutex after client c releases what it holds.
Released(c) ==
    IF call[c].op \in RoleCalls THEN rw
    ELSE IF call[c].op \in Writers THEN M!Unlock(rw) ELSE M!RUnlock(rw, c)

\* Faulty variant: an early return on an error skips the unlock.
FinishUnlessError(c) ==
    /\ At(c, {"unlock"})
    /\ rw' = IF "err" \in DOMAIN reply[c] /\ reply[c] # Contract!Ok THEN rw ELSE Released(c)
    /\ call' = [call EXCEPT ![c] = Contract!NoCall]
    /\ reply' = [reply EXCEPT ![c] = Contract!NoReply]
    /\ missed' = [missed EXCEPT ![c] = {}]
    /\ Goto(c, "idle")
    /\ UNCHANGED <<hvars, todo, stack, crashed>>

\* Release the mutex and return to the client.
Finish(c) ==
    /\ At(c, {"unlock"})
    /\ rw' = Released(c)
    /\ call' = [call EXCEPT ![c] = Contract!NoCall]
    /\ reply' = [reply EXCEPT ![c] = Contract!NoReply]
    /\ missed' = [missed EXCEPT ![c] = {}]
    /\ Goto(c, "idle")
    /\ UNCHANGED <<hvars, todo, stack, crashed>>

Step(c) ==
    \/ Lock(c) \/ RLock(c)
    \/ Add(c) \/ Remove(c) \/ ScrubEntry(c)
    \/ SetParents(c) \/ BindParent(c) \/ RemoveParents(c) \/ UnbindParent(c)
    \/ LoopDone(c)
    \/ Get(c) \/ GetParents(c) \/ RoleIDs(c)
    \/ IsGranted(c) \/ Descend(c) \/ Ascend(c)
    \/ EditRole(c) \/ Finish(c)

Next == \E c \in Client : Begin(c) \/ Step(c)

Spec == Init /\ [][Next]_lvars

\* A goroutine inside a call is scheduled again and again, and a goroutine
\* that asks for the mutex is not passed over for ever (a starving
\* sync.Mutex is handed over in arrival order).  Nobody has to make a call.
Fairness ==
    \A c \in Client :
        /\ WF_lvars(Step(c))
        /\ SF_lvars(Lock(c))

FairSpec == Spec /\ Fairness

-----------------------------------------------------------------------------
Steps == {"idle", "start", "body", "bind", "unbind", "scrub", "walk", "unlock"}

\* Every variable holds a value of its kind; the loop and recursion state of
\* a client is empty outside the loops and the recursion.
TypeOK ==
    /\ HierarchyTypeOK
    /\ call \in [Client -> Requests \cup {Contract!NoCall}]
    /\ DOMAIN reply = Client
    /\ \A c \in Client : reply[c] \in {Contract!NoReply} \cup Contract!Answers(call[c].op)
    /\ missed \in [Client -> SUBSET Role]
    /\ rw \in M!Type(Client)
    /\ pc \in [Client -> Steps]
    /\ todo \in [Client -> SUBSET ID]
    /\ stack \in [Client -> Seq(SUBSET ID)]
    /\ crashed \in BOOLEAN
    /\ \A c \in Client :
          /\ todo[c] # {} => pc[c] \in {"bind", "unbind", "scrub"}
          /\ stack[c] # <<>> <=> pc[c] = "walk"

\* Every call takes effect at one moment between its start and its return,
\* with the answer of the contract at that moment, although its loops and
\* its recursion run in many steps between those of other goroutines.
LinearizesCalls == Contract!Spec

\* While a goroutine edits the maps entry by entry, no other edits them or
\* ranges over them, and none is in the middle of a walk: the Go runtime ends
\* a program that writes a map during an iteration (rbac.go:75-80, 120-122,
\* 147-152 against 203-211).
EditsExclude ==
    \A c, d \in Client :
        (c # d /\ pc[c] \in {"bind", "unbind", "scrub"}) =>
            pc[d] \notin {"bind", "unbind", "scrub", "walk"}

\* The recursion of IsGranted exhausts the stack in no hierarchy without a
\* cycle (rbac.go:196-212 keeps no record of the roles it has visited).
OverflowOnlyOnCycle == crashed => Cyclic(Live, parents)

\* A call that was started returns, unless the program dies: no goroutine
\* waits for ever for rbac.mutex, and IsGranted leaves its recursion.
EveryCallReturns ==
    \A c \in Client : pc[c] # "idle" ~> (pc[c] = "idle" \/ crashed)

\* README.md:56 says of an RBAC instance that "you can adjust the RBAC
\* instance anytime and it's absolutely safe": no sequence of calls ends the
\* program.
NeverCrashes == ~crashed
=============================================================================
