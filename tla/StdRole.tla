------------------------------ MODULE StdRole ------------------------------
(***************************************************************************)
(* src/role.go as it runs: one StdRole object and the goroutines that      *)
(* share it.                                                               *)
(*                                                                         *)
(* A StdRole is three pointers: its mutex and two maps.  NewRole sets all  *)
(* three; a StdRole that is embedded by value starts with nil pointers,    *)
(* which init, called by every method before it locks, replaces without    *)
(* any lock.  What goroutine g allocates in init is named g, what NewRole  *)
(* allocates is named New.                                                 *)
(*                                                                         *)
(* pc[g] is where goroutine g is:                                          *)
(*   idle           between calls                                          *)
(*   noargs         a call without permissions, which never locks         *)
(*   check, make    in init, before and in the branch for Fields[at[g]]    *)
(*   lock, wait     before, and blocked in, role.mutex.Lock or RLock       *)
(*   store, cache   in iteration at[g] of Assign or Revoke, before the     *)
(*                  update of permissions, of filterPermissions            *)
(*   read           in iteration at[g] of a method that reads permissions  *)
(*   unlock         before role.mutex.Unlock or RUnlock                    *)
(*   range          iterating over the map FilterPermissions returned      *)
(***************************************************************************)
EXTENDS RoleMaps

CONSTANTS
    HasCEL,    \* the permissions that have a CEL method
    New,       \* names what NewRole allocates
    Starts     \* how the role object may come to be shared

ASSUME HasCELAssumption == HasCEL \subseteq Permission

\* NewRole: made by NewRole.  Zero: a zero StdRole, embedded by value, that
\* goroutines share at once.  Warm: the same, but the call that initialises
\* it returns before a second goroutine uses it.
ASSUME StartsAssumption == Starts \subseteq {"NewRole", "Zero", "Warm"}

VARIABLES
    start,   \* which of Starts this role object is
    field,   \* the three pointers
    lock,    \* the state of each mutex
    pmap,    \* the content of each permissions map
    fmap,    \* the content of each filterPermissions map
    call, reply, pc, at,
    mu,      \* the mutex each goroutine called Lock or RLock on
    crashed  \* sync threw "Unlock of unlocked RWMutex"

svars == <<start, field, lock, pmap, fmap, call, reply, pc, at, mu, crashed>>
heap == <<start, field, lock, pmap, fmap>>

M == INSTANCE RWMutex

Fields == <<"mutex", "permissions", "filterPermissions">>
Owner == Goroutine \cup {New}

\* What is allocated is not nil.
ASSUME OwnerAssumption == Nil \notin Owner

EmptyMap == [id \in {} |-> Nil]

\* Faulty variant: Revoke takes the read lock.
ExclusiveAssign(g) == call[g].op = "Assign"

\* The methods that take role.mutex.Lock; the others take RLock or no lock.
Exclusive(g) == call[g].op \in {"Assign", "Revoke"}

-----------------------------------------------------------------------------
(***************************************************************************)
(* The refinement mapping: the map of the role, with the iterations that   *)
(* the goroutine inside the loop has still to run.                         *)
(***************************************************************************)
Stored == IF field["permissions"] = Nil THEN EmptyMap ELSE pmap[field["permissions"]]

InLoop == { g \in Goroutine : pc[g] \in {"store", "cache"} }

EffectiveMap ==
    IF InLoop = {} THEN Stored
    ELSE LET g == CHOOSE h \in InLoop : TRUE
             next == IF pc[g] = "store" THEN at[g] ELSE at[g] + 1
         IN  IF call[g].op = "Assign" THEN AssignFrom(Stored, call[g].perms, next)
                                      ELSE RevokeFrom(Stored, call[g].perms, next)

EffectiveReply ==
    [g \in Goroutine |-> IF pc[g] \in {"store", "cache"} THEN Ok ELSE reply[g]]

Contract == INSTANCE RoleContract
            WITH granted <- EffectiveMap, reply <- EffectiveReply

-----------------------------------------------------------------------------
Init ==
    /\ start \in Starts
    /\ field = [f \in {"mutex", "permissions", "filterPermissions"} |->
                    IF start = "NewRole" THEN New ELSE Nil]
    /\ lock = [o \in Owner |-> M!Free]
    /\ pmap = [o \in Owner |-> EmptyMap]
    /\ fmap = [o \in Owner |-> EmptyMap]
    /\ call = [g \in Goroutine |-> NoCall]
    /\ reply = [g \in Goroutine |-> NoReply]
    /\ pc = [g \in Goroutine |-> "idle"]
    /\ at = [g \in Goroutine |-> 1]
    /\ mu = [g \in Goroutine |-> Nil]
    /\ crashed = FALSE

\* Goroutine g is at one of steps, in a program that is still running.
At(g, steps) == ~crashed /\ pc[g] \in steps

\* Control moves to step, with the loop counter at i.
Goto(g, step, i) ==
    /\ pc' = [pc EXCEPT ![g] = step]
    /\ at' = [at EXCEPT ![g] = i]

Answer(g, r, step) ==
    /\ reply' = [reply EXCEPT ![g] = r]
    /\ Goto(g, step, 1)
    /\ UNCHANGED <<call, mu, crashed>>

Initialised == \A f \in DOMAIN field : field[f] # Nil

\* Assign, Revoke and Permit return before init when they get no permission.
Begin(g) ==
    /\ At(g, {"idle"})
    /\ start = "Warm" /\ ~Initialised => \A h \in Goroutine : pc[h] = "idle"
    /\ \E q \in RoleRequests :
          /\ call' = [call EXCEPT ![g] = q]
          /\ IF q.op \in {"Assign", "Revoke", "Permit"} /\ q.perms = <<>>
             THEN Goto(g, "noargs", 1) ELSE Goto(g, "check", 1)
    /\ UNCHANGED <<heap, reply, mu, crashed>>

NoArguments(g) ==
    /\ At(g, {"noargs"})
    /\ Answer(g, IF call[g].op = "Permit" THEN Permitted(FALSE) ELSE Ok, "return")
    /\ UNCHANGED heap

\* Control after the branch of init for the pointer Fields[at[g]].
NextField(g) ==
    IF at[g] < Len(Fields) THEN Goto(g, "check", at[g] + 1)
    ELSE IF call[g].op = "FilterPermissions" THEN Goto(g, "range", 1)
    ELSE Goto(g, "lock", 1)

CheckField(g) ==
    /\ At(g, {"check"})
    /\ IF field[Fields[at[g]]] = Nil THEN Goto(g, "make", at[g]) ELSE NextField(g)
    /\ UNCHANGED <<heap, call, reply, mu, crashed>>

MakeField(g) ==
    /\ At(g, {"make"})
    /\ field' = [field EXCEPT ![Fields[at[g]]] = g]
    /\ NextField(g)
    /\ UNCHANGED <<start, lock, pmap, fmap, call, reply, mu, crashed>>

\* role.mutex.Lock() or role.mutex.RLock() is called.
Lock(g) ==
    LET m == field["mutex"] IN
    /\ At(g, {"lock"})
    /\ \/ Exclusive(g) /\ M!CanAnnounce(lock[m])
          /\ lock' = [lock EXCEPT ![m] = M!Announce(@, g)]
       \/ ~Exclusive(g) /\ lock' = [lock EXCEPT ![m] = M!RLock(@, g)]
    /\ mu' = [mu EXCEPT ![g] = m]
    /\ Goto(g, "wait", 1)
    /\ UNCHANGED <<start, field, pmap, fmap, call, reply, crashed>>

\* The lock is granted.
Enter(g) ==
    /\ At(g, {"wait"})
    /\ IF Exclusive(g) THEN M!Owns(lock[mu[g]], g) ELSE M!Reads(lock[mu[g]], g)
    /\ Goto(g, IF call[g].op \in {"Assign", "Revoke"} THEN "store" ELSE "read", 1)
    /\ UNCHANGED <<heap, call, reply, mu, crashed>>

\* Faulty variant: Revoke sets the entry to nil and leaves its key.
StoreNil(g) ==
    LET m == field["permissions"]
        p == call[g].perms[at[g]]
    IN
    /\ At(g, {"store"})
    /\ pmap' = [pmap EXCEPT ![m] = IF call[g].op = "Assign"
                                   THEN AssignFrom(@, <<p>>, 1)
                                   ELSE [id \in DOMAIN @ \cup {IdOfPerm[p]} |->
                                            IF id = IdOfPerm[p] THEN Nil ELSE @[id]]]
    /\ Goto(g, "cache", at[g])
    /\ UNCHANGED <<start, field, lock, fmap, call, reply, mu, crashed>>

\* role.permissions[p.ID()] = p, or delete(role.permissions, p.ID()).
Store(g) ==
    LET m == field["permissions"]
        p == call[g].perms[at[g]]
    IN
    /\ At(g, {"store"})
    /\ pmap' = [pmap EXCEPT ![m] = IF call[g].op = "Assign"
                                   THEN AssignFrom(@, <<p>>, 1)
                                   ELSE RevokeFrom(@, <<p>>, 1)]
    /\ Goto(g, "cache", at[g])
    /\ UNCHANGED <<start, field, lock, fmap, call, reply, mu, crashed>>

\* Control after iteration at[g] of the loop of Assign or Revoke.
NextPerm(g) ==
    IF at[g] < Len(call[g].perms)
    THEN Goto(g, "store", at[g] + 1) /\ UNCHANGED <<call, reply, mu, crashed>>
    ELSE Answer(g, Ok, "unlock")

\* Faulty variant: assigning a permission without CEL leaves the old entry.
CacheAdditions(g) ==
    LET m == field["filterPermissions"]
        p == call[g].perms[at[g]]
    IN
    /\ At(g, {"cache"})
    /\ fmap' = [fmap EXCEPT ![m] = IF call[g].op = "Revoke" THEN RevokeFrom(@, <<p>>, 1)
                                   ELSE IF p \in HasCEL THEN AssignFrom(@, <<p>>, 1)
                                   ELSE @]
    /\ NextPerm(g)
    /\ UNCHANGED <<start, field, lock, pmap>>

\* The same for role.filterPermissions, which keeps the permissions with CEL.
Cache(g) ==
    LET m == field["filterPermissions"]
        p == call[g].perms[at[g]]
    IN
    /\ At(g, {"cache"})
    /\ fmap' = [fmap EXCEPT ![m] = IF call[g].op = "Assign" /\ p \in HasCEL
                                   THEN AssignFrom(@, <<p>>, 1)
                                   ELSE RevokeFrom(@, <<p>>, 1)]
    /\ NextPerm(g)
    /\ UNCHANGED <<start, field, lock, pmap>>

\* Permit's test of one permission: the entry with its id first, then all.
Matched(m, p) ==
    /\ p # Nil
    /\ \/ /\ IdOfPerm[p] \in DOMAIN m
          /\ <<m[IdOfPerm[p]], p>> \in Matching
       \/ \E id \in DOMAIN m : <<m[id], p>> \in Matching

\* Faulty variant: one matching permission is enough.
PermitAny(g) ==
    LET ps == call[g].perms IN
    /\ At(g, {"read"}) /\ call[g].op = "Permit"
    /\ IF Matched(pmap[field["permissions"]], ps[at[g]])
       THEN Answer(g, Permitted(TRUE), "unlock")
       ELSE Answer(g, Permitted(FALSE), "unlock")
    /\ UNCHANGED heap

\* One iteration of Permit's loop.
Permit(g) ==
    LET ps == call[g].perms
        m  == pmap[field["permissions"]]
    IN
    /\ At(g, {"read"}) /\ call[g].op = "Permit"
    /\ \/ ~Matched(m, ps[at[g]]) /\ Answer(g, Permitted(FALSE), "unlock")
       \/ /\ Matched(m, ps[at[g]]) /\ at[g] = Len(ps)
          /\ Answer(g, Permitted(TRUE), "unlock")
       \/ /\ Matched(m, ps[at[g]]) /\ at[g] < Len(ps)
          /\ Goto(g, "read", at[g] + 1)
          /\ UNCHANGED <<call, reply, mu, crashed>>
    /\ UNCHANGED heap

Permissions(g) ==
    /\ At(g, {"read"}) /\ call[g].op = "Permissions"
    /\ Answer(g, Listed(Held(pmap[field["permissions"]])), "unlock")
    /\ UNCHANGED heap

Get(g) ==
    LET m == pmap[field["permissions"]] IN
    /\ At(g, {"read"}) /\ call[g].op = "Get"
    /\ Answer(g, Found({ m[id] : id \in DOMAIN m \cap {call[g].id} }), "unlock")
    /\ UNCHANGED heap

\* role.mutex.Unlock() or RUnlock(): the pointer is read again, and sync
\* throws when that mutex is not locked in this way.
Unlock(g) ==
    LET m == field["mutex"]
        holders == IF Exclusive(g) THEN lock[m].writer ELSE lock[m].readers
    IN
    /\ At(g, {"unlock"})
    /\ crashed' = (holders = {})
    /\ IF Exclusive(g) THEN lock' = [lock EXCEPT ![m] = M!Unlock(@)]
       ELSE \E r \in (IF g \in holders THEN {g} ELSE holders \cup {g}) :
               lock' = [lock EXCEPT ![m] = M!RUnlock(@, r)]
    /\ Goto(g, "return", 1)
    /\ UNCHANGED <<start, field, pmap, fmap, call, reply, mu>>

\* The call returns; the caller of FilterPermissions stops iterating.
Return(g) ==
    /\ At(g, {"return", "range"})
    /\ call' = [call EXCEPT ![g] = NoCall]
    /\ reply' = [reply EXCEPT ![g] = NoReply]
    /\ mu' = [mu EXCEPT ![g] = Nil]
    /\ Goto(g, "idle", 1)
    /\ UNCHANGED <<heap, crashed>>

Next ==
    \E g \in Goroutine :
        \/ Begin(g) \/ NoArguments(g) \/ CheckField(g) \/ MakeField(g)
        \/ Lock(g) \/ Enter(g) \/ Store(g) \/ Cache(g)
        \/ Permit(g) \/ Permissions(g) \/ Get(g)
        \/ Unlock(g) \/ Return(g)

Spec == Init /\ [][Next]_svars

-----------------------------------------------------------------------------
PointerType == Owner \cup {Nil}

Steps == {"idle", "noargs", "check", "make", "lock", "wait", "store", "cache", "read",
          "unlock", "return", "range"}

\* Every variable holds a value of its kind; every map is keyed by the ids of
\* the permissions it holds; an idle goroutine has no call and no answer.
TypeOK ==
    /\ start \in Starts
    /\ field \in [{"mutex", "permissions", "filterPermissions"} -> PointerType]
    /\ lock \in [Owner -> M!Type(Goroutine)]
    /\ DOMAIN pmap = Owner /\ DOMAIN fmap = Owner
    /\ \A o \in Owner : \A m \in {pmap[o], fmap[o]} :
          /\ m \in [DOMAIN m -> Permission]
          /\ \A id \in DOMAIN m : IdOfPerm[m[id]] = id
    /\ call \in [Goroutine -> RoleRequests \cup {NoCall}]
    /\ DOMAIN reply = Goroutine
    /\ pc \in [Goroutine -> Steps]
    /\ at \in [Goroutine -> Nat]
    /\ mu \in [Goroutine -> PointerType]
    /\ crashed \in BOOLEAN
    /\ \A g \in Goroutine : pc[g] = "idle" => call[g] = NoCall /\ reply[g] = NoReply

\* Whenever no Assign or Revoke is inside its critical section, the filter
\* cache of the role is exactly the part of its permissions that carry a CEL
\* filter, so composing filters never uses a filter that was revoked or
\* replaced, and misses none (role.go:69-76, 126-129).
CacheMatches ==
    (field["permissions"] # Nil /\ field["filterPermissions"] # Nil /\ InLoop = {}) =>
       LET held == pmap[field["permissions"]] IN
       fmap[field["filterPermissions"]] =
          [id \in { x \in DOMAIN held : held[x] \in HasCEL } |-> held[id]]

\* What goroutine g writes, and what it reads, in its next step.
Writes(g) ==
    CASE pc[g] = "make"  -> {<<"field", Fields[at[g]]>>}
      [] pc[g] = "store" -> {<<"pmap", field["permissions"]>>}
      [] pc[g] = "cache" -> {<<"fmap", field["filterPermissions"]>>}
      [] OTHER           -> {}

Reads(g) ==
    CASE pc[g] = "check"            -> {<<"field", Fields[at[g]]>>}
      [] pc[g] \in {"lock", "unlock"} -> {<<"field", "mutex">>}
      [] pc[g] \in {"store", "read"} -> {<<"field", "permissions">>,
                                        <<"pmap", field["permissions"]>>}
      [] pc[g] = "cache"            -> {<<"field", "filterPermissions">>}
      [] pc[g] = "range"            -> {<<"fmap", field["filterPermissions"]>>}
      [] OTHER                      -> {}

\* No goroutine writes a pointer or a map of the role while another is about
\* to read or write it: the Go runtime ends the program when a map is written
\* during an iteration (LLM_CODER_GUIDE.md:20 "Thread-safe operations").
NoDataRace ==
    \A g, h \in Goroutine :
        g # h => Writes(g) \cap (Reads(h) \cup Writes(h)) = {}

\* role.go:34 says "You can embed this struct into your own role
\* implementation", and LLM_CODER_GUIDE.md:20 promises "Thread-safe
\* operations": no sequence of calls makes sync throw.
NoFatalUnlock == ~crashed

\* Every call on the role takes effect at one moment between its start and
\* its return, with all the permissions it names at once.
LinearizesRoleCalls == Contract!Spec
=============================================================================
