---------------------------- MODULE StdRoleProofs ----------------------------
(***************************************************************************)
(* src/role.go: a role object that NewRole made, or that one call has      *)
(* initialised before others use it, is safe to share, for every number of *)
(* goroutines and permissions and for every set of calls.                  *)
(***************************************************************************)
EXTENDS StdRole, SequenceTheorems, FiniteSetTheorems, WellFoundedInduction, TLAPS

-----------------------------------------------------------------------------
(***************************************************************************)
(* The inductive invariant.                                                *)
(***************************************************************************)
\* The steps after init, those between the call of Lock or RLock and the end
\* of Unlock or RUnlock, and those of a goroutine that was granted the lock.
Ready == {"lock", "wait", "store", "cache", "read", "unlock", "range"}
Locking == {"wait", "store", "cache", "read", "unlock"}
Inside == {"store", "cache", "read", "unlock"}

\* Until the pointers are set one goroutine is in a call, nothing is locked
\* and nothing is stored; and it goes through the pointers in order.
PointerOf(g) ==
    /\ pc[g] \in {"check", "make"} =>
          at[g] \in DOMAIN Fields /\ \A i \in 1 .. at[g] - 1 : field[Fields[i]] # Nil
    /\ pc[g] = "make" => field[Fields[at[g]]] = Nil
    /\ pc[g] \in Ready => Initialised

InitialisedInv ==
    /\ start = "NewRole" => Initialised
    /\ ~Initialised =>
          /\ \A g, h \in Goroutine : pc[g] # "idle" /\ pc[h] # "idle" => g = h
          /\ \A o \in Owner : lock[o] = M!Free /\ pmap[o] = EmptyMap /\ fmap[o] = EmptyMap
    /\ \A g \in Goroutine : PointerOf(g)

\* A goroutine is where its call goes, in range of the arguments, and has an
\* answer only once it is done with the maps.
ControlOf(g) ==
    /\ pc[g] = "idle" <=> call[g] = NoCall
    /\ reply[g] # NoReply <=> pc[g] \in {"unlock", "return"}
    /\ pc[g] = "noargs" => /\ call[g].op \in {"Assign", "Revoke", "Permit"}
                           /\ call[g].perms = <<>>
    /\ (pc[g] \in {"check", "make"} \cup Ready
          /\ call[g].op \in {"Assign", "Revoke", "Permit"}) => call[g].perms # <<>>
    /\ pc[g] \in {"store", "cache"} => /\ call[g].op \in {"Assign", "Revoke"}
                                       /\ at[g] \in DOMAIN call[g].perms
    /\ pc[g] = "read" => call[g].op \in {"Permit", "Permissions", "Get"}
    /\ (pc[g] = "read" /\ call[g].op = "Permit") => at[g] \in DOMAIN call[g].perms
    /\ pc[g] = "range" => call[g].op = "FilterPermissions"
    /\ pc[g] \in Locking \cup {"lock"} => call[g].op # "FilterPermissions"

ControlInv == \A g \in Goroutine : ControlOf(g)

\* Who has asked for the mutex is in its queues; a reader that waits has not
\* begun, and a writer that has begun found no reader left.
Mutex == lock[field["mutex"]]

MutexOf(g) ==
    /\ g \in Mutex.writer <=> pc[g] \in Locking /\ Exclusive(g)
    /\ g \in Mutex.readers \cup Mutex.waiting <=> pc[g] \in Locking /\ ~Exclusive(g)
    /\ g \in Mutex.waiting => pc[g] = "wait" /\ g \notin Mutex.readers
    /\ pc[g] \in Inside /\ Exclusive(g) => Mutex.readers = {}
    /\ pc[g] \in Locking => mu[g] = field["mutex"]

MutexInv ==
    Initialised =>
        /\ \A g, h \in Mutex.writer : g = h
        /\ \A g \in Goroutine : MutexOf(g)

\* The filter cache is right but for the permission whose iteration is on its
\* way, and that one is already where it belongs in the permissions.
Map == pmap[field["permissions"]]
FilterMap == fmap[field["filterPermissions"]]

Agree(id) ==
    /\ id \in DOMAIN FilterMap <=> id \in DOMAIN Map /\ Map[id] \in HasCEL
    /\ id \in DOMAIN FilterMap => FilterMap[id] = Map[id]

StoredOf(g) ==
    LET p == call[g].perms[at[g]] IN
    /\ call[g].op = "Assign" => IdOfPerm[p] \in DOMAIN Map /\ Map[IdOfPerm[p]] = p
    /\ call[g].op = "Revoke" => IdOfPerm[p] \notin DOMAIN Map

CacheInv ==
    Initialised =>
        /\ (\A g \in Goroutine : pc[g] # "cache") => \A id \in PermID : Agree(id)
        /\ \A g \in Goroutine : pc[g] = "cache" =>
              /\ StoredOf(g)
              /\ \A id \in PermID \ {IdOfPerm[call[g].perms[at[g]]]} : Agree(id)

\* The permissions that a Permit has looked at are covered.
PermitInv ==
    \A g \in Goroutine :
        (pc[g] = "read" /\ call[g].op = "Permit") =>
            \A j \in 1 .. at[g] - 1 : Covers(Map, call[g].perms[j])

IInv ==
    /\ TypeOK /\ InitialisedInv /\ ControlInv /\ MutexInv /\ CacheInv /\ PermitInv
    /\ NoFatalUnlock

-----------------------------------------------------------------------------
(***************************************************************************)
(* Edits of a map.                                                         *)
(***************************************************************************)
\* A set of positions has a last one.
LEMMA LastExists ==
    ASSUME NEW n \in Nat, NEW S \in SUBSET (1 .. n), S # {}
    PROVE  \E j \in S : \A k \in S : k <= j
<1> DEFINE above(j) == { k \in 1 .. n : k > j }
           T == { above(j) : j \in S }
           R == StrictSubsetOrdering(1 .. n)
<1>1. T \subseteq SUBSET (1 .. n) /\ T # {}
    OBVIOUS
<1>2. IsWellFoundedOn(R, SUBSET (1 .. n))
    <2> DEFINE D == 1 .. n
    <2>1. IsFiniteSet(D)
        BY FS_Interval
    <2> HIDE DEF D
    <2>2. FiniteSubsetsOf(D) = SUBSET D
        BY <2>1, FS_FiniteSubsetsOfFinite
    <2>3. IsWellFoundedOn(StrictSubsetOrdering(D), FiniteSubsetsOf(D))
        BY FS_StrictSubsetOrderingWellFounded
    <2> QED
        BY <2>2, <2>3 DEF D
<1>3. \E x \in T : \A y \in T : <<y, x>> \notin R
    <2> HIDE DEF R, T
    <2> QED
        BY <1>1, <1>2, WFMin
<1>4. PICK j \in S : \A k \in S : <<above(k), above(j)>> \notin R
    BY <1>3
<1>5. ASSUME NEW k \in S, k > j
      PROVE  FALSE
    <2>1. k \in above(j) /\ k \notin above(k) /\ above(k) \subseteq above(j)
        BY <1>5
    <2> QED
        BY <1>4, <2>1 DEF StrictSubsetOrdering
<1> QED
    BY <1>5

\* One permission replaces what is stored under its id.
LEMMA AssignOne ==
    ASSUME NEW m, NEW p \in Permission
    PROVE  LET a == AssignFrom(m, <<p>>, 1) IN
           /\ a = [id \in DOMAIN a |-> a[id]]
           /\ DOMAIN a = DOMAIN m \cup {IdOfPerm[p]}
           /\ a[IdOfPerm[p]] = p
           /\ \A id \in DOMAIN m : id # IdOfPerm[p] => a[id] = m[id]
<1> DEFINE ps == <<p>>
           named(id) == { j \in 1 .. Len(ps) : IdOfPerm[ps[j]] = id }
           last(id) == CHOOSE j \in named(id) : \A k \in named(id) : k <= j
<1>1. Len(ps) = 1 /\ ps[1] = p
    OBVIOUS
<1>2. named(IdOfPerm[p]) = {1}
    BY <1>1
<1>3. \A id : id # IdOfPerm[p] => named(id) = {}
    BY <1>1
<1>4. last(IdOfPerm[p]) = 1
    BY <1>2
<1>5. { IdOfPerm[ps[j]] : j \in 1 .. Len(ps) } = {IdOfPerm[p]}
    BY <1>1
<1>6. AssignFrom(m, ps, 1) =
        [id \in DOMAIN m \cup {IdOfPerm[p]} |-> IF named(id) # {} THEN ps[last(id)] ELSE m[id]]
    BY <1>5 DEF AssignFrom
<1> HIDE DEF ps, named, last
<1>7. /\ AssignFrom(m, ps, 1)[IdOfPerm[p]] = p
      /\ \A id \in DOMAIN m : id # IdOfPerm[p] => AssignFrom(m, ps, 1)[id] = m[id]
    BY <1>1, <1>2, <1>3, <1>4, <1>6
<1>8. /\ DOMAIN AssignFrom(m, ps, 1) = DOMAIN m \cup {IdOfPerm[p]}
      /\ AssignFrom(m, ps, 1) = [id \in DOMAIN AssignFrom(m, ps, 1) |-> AssignFrom(m, ps, 1)[id]]
    BY <1>6
<1> QED
    BY <1>7, <1>8 DEF ps

\* Revoking one permission takes its id out and nothing else.
LEMMA RevokeOne ==
    ASSUME NEW m, NEW p
    PROVE  LET r == RevokeFrom(m, <<p>>, 1) IN
           /\ r = [id \in DOMAIN r |-> r[id]]
           /\ DOMAIN r = DOMAIN m \ {IdOfPerm[p]}
           /\ \A id \in DOMAIN r : r[id] = m[id]
<1> DEFINE ps == <<p>>
<1>1. Len(ps) = 1 /\ ps[1] = p
    OBVIOUS
<1>2. { IdOfPerm[ps[j]] : j \in 1 .. Len(ps) } = {IdOfPerm[p]}
    BY <1>1
<1>3. RevokeFrom(m, ps, 1) = [id \in DOMAIN m \ {IdOfPerm[p]} |-> m[id]]
    BY <1>2 DEF RevokeFrom
<1> HIDE DEF ps
<1>4. LET r == RevokeFrom(m, ps, 1) IN
      /\ r = [id \in DOMAIN r |-> r[id]]
      /\ DOMAIN r = DOMAIN m \ {IdOfPerm[p]}
      /\ \A id \in DOMAIN r : r[id] = m[id]
    BY <1>3
<1> QED
    BY <1>4 DEF ps

\* An edit permission by permission comes to the edit with all of them.
LEMMA AssignStep ==
    ASSUME NEW m, NEW ps \in Seq(Permission), NEW i \in DOMAIN ps
    PROVE  AssignFrom(AssignFrom(m, <<ps[i]>>, 1), ps, i + 1) = AssignFrom(m, ps, i)
<1> DEFINE n == Len(ps)
           p == ps[i]
           a == AssignFrom(m, <<p>>, 1)
           named(k, id) == { j \in k .. n : IdOfPerm[ps[j]] = id }
           last(k, id) == CHOOSE j \in named(k, id) : \A x \in named(k, id) : x <= j
           ids(k) == { IdOfPerm[ps[j]] : j \in k .. n }
<1>1. n \in Nat /\ i \in 1 .. n /\ i \in Nat /\ i >= 1 /\ p \in Permission
    BY LenProperties, ElementOfSeq
<1>2. /\ DOMAIN a = DOMAIN m \cup {IdOfPerm[p]}
      /\ a[IdOfPerm[p]] = p
      /\ \A id \in DOMAIN m : id # IdOfPerm[p] => a[id] = m[id]
    BY <1>1, AssignOne
<1>3. AssignFrom(m, ps, i) =
        [id \in DOMAIN m \cup ids(i) |-> IF named(i, id) # {} THEN ps[last(i, id)] ELSE m[id]]
    BY DEF AssignFrom
<1>4. AssignFrom(a, ps, i + 1) =
        [id \in DOMAIN a \cup ids(i + 1) |->
            IF named(i + 1, id) # {} THEN ps[last(i + 1, id)] ELSE a[id]]
    BY DEF AssignFrom
<1>5. i .. n = {i} \cup (i + 1 .. n)
    BY <1>1
<1>6. ids(i) = {IdOfPerm[p]} \cup ids(i + 1)
    BY <1>5
<1>7. \A id : named(i, id) = named(i + 1, id) \cup (IF id = IdOfPerm[p] THEN {i} ELSE {})
    BY <1>5
<1>8. ASSUME NEW id, named(i + 1, id) # {}
      PROVE  named(i, id) # {} /\ last(i, id) = last(i + 1, id)
    <2>1. PICK l \in named(i + 1, id) : \A x \in named(i + 1, id) : x <= l
        <3> DEFINE S == named(i + 1, id)
        <3>1. S \in SUBSET (1 .. n) /\ S # {}
            BY <1>1, <1>8
        <3> HIDE DEF S, n
        <3>2. \E j \in S : \A k \in S : k <= j
            BY <1>1, <3>1, LastExists
        <3> QED
            BY <3>2 DEF S
    <2>2. l \in i + 1 .. n
        BY <2>1
    <2>3. l \in named(i, id) /\ \A x \in named(i, id) : x <= l
        BY <1>1, <1>7, <2>1, <2>2
    <2>4. \A x \in named(i, id) : (\A y \in named(i, id) : y <= x) => x = l
        BY <1>1, <2>2, <2>3
    <2>5. \A x \in named(i + 1, id) : (\A y \in named(i + 1, id) : y <= x) => x = l
        BY <1>1, <2>1, <2>2
    <2>6. last(i, id) = l
        <3> DEFINE S == named(i, id)
        <3>1. l \in S /\ (\A x \in S : x <= l) /\ \A x \in S : (\A y \in S : y <= x) => x = l
            BY <2>3, <2>4
        <3> HIDE DEF S
        <3>2. (CHOOSE j \in S : \A x \in S : x <= j) = l
            BY <3>1
        <3> QED
            BY <3>2 DEF S
    <2>7. last(i + 1, id) = l
        <3> DEFINE S == named(i + 1, id)
        <3>1. l \in S /\ (\A x \in S : x <= l) /\ \A x \in S : (\A y \in S : y <= x) => x = l
            BY <2>1, <2>5
        <3> HIDE DEF S
        <3>2. (CHOOSE j \in S : \A x \in S : x <= j) = l
            BY <3>1
        <3> QED
            BY <3>2 DEF S
    <2> QED
        BY <2>3, <2>6, <2>7
<1>9. ASSUME named(i + 1, IdOfPerm[p]) = {}
      PROVE  named(i, IdOfPerm[p]) # {} /\ last(i, IdOfPerm[p]) = i
    <2> DEFINE S == named(i, IdOfPerm[p])
    <2>1. S = {i}
        BY <1>7, <1>9
    <2> HIDE DEF S
    <2>2. (CHOOSE j \in S : \A x \in S : x <= j) = i
        BY <1>1, <2>1
    <2> QED
        BY <2>1, <2>2 DEF S
<1>10. \A id : (named(i + 1, id) = {} /\ id # IdOfPerm[p]) => named(i, id) = {}
    BY <1>7
<1>11. DOMAIN a \cup ids(i + 1) = DOMAIN m \cup ids(i)
    BY <1>2, <1>6
<1>12. \A id : named(i + 1, id) = {} => id \notin ids(i + 1)
    OBVIOUS
<1> HIDE DEF a, named, last, ids, n
<1>13. ASSUME NEW id \in DOMAIN m \cup ids(i)
       PROVE  (IF named(i + 1, id) # {} THEN ps[last(i + 1, id)] ELSE a[id])
                = (IF named(i, id) # {} THEN ps[last(i, id)] ELSE m[id])
    <2>1. CASE named(i + 1, id) # {}
        BY <1>8, <2>1
    <2>2. CASE named(i + 1, id) = {} /\ id = IdOfPerm[p]
        BY <1>2, <1>9, <2>2
    <2>3. CASE named(i + 1, id) = {} /\ id # IdOfPerm[p]
        BY <1>2, <1>6, <1>10, <1>12, <1>13, <2>3
    <2> QED
        BY <2>1, <2>2, <2>3
<1>14. AssignFrom(a, ps, i + 1) = AssignFrom(m, ps, i)
    BY <1>3, <1>4, <1>11, <1>13
<1> QED
    BY <1>14 DEF a

\* Revoking a list is revoking its first and then the rest.
LEMMA RevokeStep ==
    ASSUME NEW m, NEW ps \in Seq(Permission), NEW i \in DOMAIN ps
    PROVE  RevokeFrom(RevokeFrom(m, <<ps[i]>>, 1), ps, i + 1) = RevokeFrom(m, ps, i)
<1> DEFINE n == Len(ps)
           p == ps[i]
           r == RevokeFrom(m, <<p>>, 1)
           ids(k) == { IdOfPerm[ps[j]] : j \in k .. n }
<1>1. n \in Nat /\ i \in 1 .. n
    BY LenProperties
<1>2. DOMAIN r = DOMAIN m \ {IdOfPerm[p]} /\ \A id \in DOMAIN r : r[id] = m[id]
    BY RevokeOne
<1>3. i .. n = {i} \cup (i + 1 .. n)
    BY <1>1
<1>4. ids(i) = {IdOfPerm[p]} \cup ids(i + 1)
    BY <1>3
<1>5. /\ RevokeFrom(m, ps, i) = [id \in DOMAIN m \ ids(i) |-> m[id]]
      /\ RevokeFrom(r, ps, i + 1) = [id \in DOMAIN r \ ids(i + 1) |-> r[id]]
    BY DEF RevokeFrom
<1> HIDE DEF r, ids, n
<1>6. DOMAIN r \ ids(i + 1) = DOMAIN m \ ids(i)
    BY <1>2, <1>4
<1>7. RevokeFrom(r, ps, i + 1) = RevokeFrom(m, ps, i)
    BY <1>2, <1>5, <1>6
<1> QED
    BY <1>7 DEF r

\* When no permission is left the edit is done.
LEMMA NothingToDo ==
    ASSUME NEW m, m = [id \in DOMAIN m |-> m[id]], NEW ps, NEW i \in Nat, i .. Len(ps) = {}
    PROVE  AssignFrom(m, ps, i) = m /\ RevokeFrom(m, ps, i) = m
BY DEF AssignFrom, RevokeFrom

\* Permit's shortcut by id finds nothing that the search does not find.
LEMMA MatchedIsCovers == \A m, p : Matched(m, p) <=> Covers(m, p)
BY DEF Matched, Covers, Held

-----------------------------------------------------------------------------
(***************************************************************************)
(* Type correctness.                                                       *)
(***************************************************************************)
Step(g) ==
    \/ Begin(g) \/ NoArguments(g) \/ CheckField(g) \/ MakeField(g)
    \/ Lock(g) \/ Enter(g) \/ Store(g) \/ Cache(g)
    \/ Permit(g) \/ Permissions(g) \/ Get(g)
    \/ Unlock(g) \/ Return(g)

\* Each call carries the arguments of its method.
LEMMA CallArguments ==
    ASSUME TypeOK, NEW g \in Goroutine
    PROVE  /\ call[g].op \in {"Assign", "Revoke"} => call[g].perms \in Seq(Permission)
           /\ call[g].op = "Permit" => call[g].perms \in Seq(Permission \cup {Nil})
           /\ call[g] # NoCall =>
                 call[g].op \in {"Assign", "Revoke", "Permit", "Permissions", "Get",
                                 "FilterPermissions"}
<1>1. call[g] \in RoleRequestType \cup {NoCall}
    BY RoleRequestsAssumption DEF TypeOK
<1> QED
    BY <1>1 DEF RoleRequestType, Arguments, NoCall

\* The iteration of a loop has a permission to work on.
LEMMA LoopArgument ==
    ASSUME TypeOK, ControlInv, NEW g \in Goroutine, pc[g] \in {"store", "cache"}
    PROVE  /\ call[g].perms \in Seq(Permission)
           /\ at[g] \in 1 .. Len(call[g].perms)
           /\ DOMAIN call[g].perms = 1 .. Len(call[g].perms)
           /\ call[g].perms[at[g]] \in Permission
           /\ IdOfPerm[call[g].perms[at[g]]] \in PermID
<1>1. call[g].perms \in Seq(Permission) /\ at[g] \in DOMAIN call[g].perms
    BY CallArguments DEF ControlInv, ControlOf
<1>2. /\ DOMAIN call[g].perms = 1 .. Len(call[g].perms)
      /\ call[g].perms[at[g]] \in Permission
    BY <1>1, LenProperties, ElementOfSeq
<1> QED
    BY <1>1, <1>2, PermissionAssumption

\* A map stays one that is keyed by the ids of what it holds.
Keyed(m) ==
    /\ m \in [DOMAIN m -> Permission]
    /\ \A id \in DOMAIN m : IdOfPerm[m[id]] = id

\* Edits keep every permission under its own id.
LEMMA KeyedEdits ==
    ASSUME NEW m, Keyed(m), NEW p \in Permission
    PROVE  Keyed(AssignFrom(m, <<p>>, 1)) /\ Keyed(RevokeFrom(m, <<p>>, 1))
<1>1. Keyed(AssignFrom(m, <<p>>, 1))
    <2> DEFINE a == AssignFrom(m, <<p>>, 1)
    <2>1. /\ a = [id \in DOMAIN a |-> a[id]]
          /\ DOMAIN a = DOMAIN m \cup {IdOfPerm[p]}
          /\ a[IdOfPerm[p]] = p
          /\ \A id \in DOMAIN m : id # IdOfPerm[p] => a[id] = m[id]
        BY AssignOne
    <2> HIDE DEF a
    <2>2. \A id \in DOMAIN a : a[id] \in Permission /\ IdOfPerm[a[id]] = id
        BY <2>1 DEF Keyed
    <2>3. Keyed(a)
        BY <2>1, <2>2 DEF Keyed
    <2> QED
        BY <2>3 DEF a
<1>2. Keyed(RevokeFrom(m, <<p>>, 1))
    <2> DEFINE r == RevokeFrom(m, <<p>>, 1)
    <2>1. /\ r = [id \in DOMAIN r |-> r[id]]
          /\ DOMAIN r = DOMAIN m \ {IdOfPerm[p]}
          /\ \A id \in DOMAIN r : r[id] = m[id]
        BY RevokeOne
    <2> HIDE DEF r
    <2>2. \A id \in DOMAIN r : r[id] \in Permission /\ IdOfPerm[r[id]] = id
        BY <2>1 DEF Keyed
    <2>3. Keyed(r)
        BY <2>1, <2>2 DEF Keyed
    <2> QED
        BY <2>3 DEF r
<1> QED
    BY <1>1, <1>2

\* The types say that every permission is under its own id.
LEMMA TypeIsKeyed ==
    TypeOK => \A o \in Owner : Keyed(pmap[o]) /\ Keyed(fmap[o])
BY DEF TypeOK, Keyed

\* The operations of the lock keep its type.
LEMMA MutexType ==
    ASSUME NEW m \in M!Type(Goroutine), NEW g \in Goroutine
    PROVE  /\ M!Announce(m, g) \in M!Type(Goroutine)
           /\ M!RLock(m, g) \in M!Type(Goroutine)
           /\ M!Unlock(m) \in M!Type(Goroutine)
           /\ M!RUnlock(m, g) \in M!Type(Goroutine)
BY DEF M!Type, M!Announce, M!RLock, M!Unlock, M!RUnlock

\* The pointers are set before they are followed.
LEMMA ReadyPointers ==
    ASSUME TypeOK, InitialisedInv, NEW g \in Goroutine, pc[g] \in Ready
    PROVE  \A f \in DOMAIN field : field[f] \in Owner
BY DEF TypeOK, InitialisedInv, PointerOf, Initialised, PointerType

\* A goroutine that takes a step changes nothing of another.
LEMMA OthersKeep ==
    ASSUME TypeOK, NEW g \in Goroutine, Step(g), NEW h \in Goroutine, h # g
    PROVE  /\ pc'[h] = pc[h] /\ at'[h] = at[h] /\ call'[h] = call[h]
           /\ reply'[h] = reply[h] /\ mu'[h] = mu[h]
BY DEF TypeOK, Step, Begin, NoArguments, CheckField, MakeField, Lock, Enter, Store, Cache,
       Permit, Permissions, Get, Unlock, Return, At, Goto, Answer, NextField, NextPerm

\* Moving to another step, with or without an answer, keeps the types.
LEMMA GotoType ==
    ASSUME TypeOK, NEW g \in Goroutine, NEW step \in Steps, step # "idle",
           NEW i \in Nat, Goto(g, step, i)
    PROVE  /\ pc' \in [Goroutine -> Steps] /\ at' \in [Goroutine -> Nat]
           /\ \A h \in Goroutine : pc'[h] = "idle" => h # g /\ pc[h] = "idle"
BY DEF TypeOK, Goto

\* Where a method goes after a field of its owner.
LEMMA NextFieldGoes ==
    ASSUME TypeOK, NEW g \in Goroutine, at[g] \in DOMAIN Fields, NextField(g)
    PROVE  \/ at[g] < 3 /\ Goto(g, "check", at[g] + 1)
           \/ at[g] = 3 /\ call[g].op = "FilterPermissions" /\ Goto(g, "range", 1)
           \/ at[g] = 3 /\ call[g].op # "FilterPermissions" /\ Goto(g, "lock", 1)
BY DEF NextField, Fields

\* Every step keeps the types.
LEMMA TypeStep ==
    ASSUME IInv, NEW g \in Goroutine, Step(g)
    PROVE  TypeOK'
<1> USE DEF IInv
<1>1. ASSUME UNCHANGED <<heap, mu>>, crashed' \in BOOLEAN,
             call' \in [Goroutine -> RoleRequests \cup {NoCall}], DOMAIN reply' = Goroutine,
             pc' \in [Goroutine -> Steps], at' \in [Goroutine -> Nat],
             \A h \in Goroutine : pc'[h] = "idle" => call'[h] = NoCall /\ reply'[h] = NoReply
      PROVE  TypeOK'
    BY <1>1 DEF TypeOK, heap
<1>2. CASE Begin(g)
    <2>1. PICK step \in {"noargs", "check"} : Goto(g, step, 1)
        BY <1>2 DEF Begin
    <2>2. /\ pc' \in [Goroutine -> Steps] /\ at' \in [Goroutine -> Nat]
          /\ \A h \in Goroutine : pc'[h] = "idle" => h # g /\ pc[h] = "idle"
        BY <2>1, GotoType DEF Steps
    <2>3. /\ call' \in [Goroutine -> RoleRequests \cup {NoCall}]
          /\ \A h \in Goroutine : h # g => call'[h] = call[h]
        BY <1>2 DEF Begin, TypeOK
    <2> QED
        BY <1>1, <1>2, <2>2, <2>3 DEF TypeOK, Begin
<1>3. CASE NoArguments(g)
    BY <1>1, <1>3 DEF TypeOK, NoArguments, Answer, Goto, Steps
<1>4. CASE CheckField(g)
    <2>1. at[g] \in DOMAIN Fields
        BY <1>4 DEF CheckField, At, InitialisedInv, PointerOf
    <2>2. /\ pc' \in [Goroutine -> Steps] /\ at' \in [Goroutine -> Nat]
          /\ \A h \in Goroutine : pc'[h] = "idle" => h # g /\ pc[h] = "idle"
        BY <1>4, <2>1, GotoType, NextFieldGoes DEF CheckField, Steps, TypeOK
    <2> QED
        BY <1>1, <1>4, <2>2 DEF TypeOK, CheckField
<1>5. CASE MakeField(g)
    <2>1. at[g] \in DOMAIN Fields
        BY <1>5 DEF MakeField, At, InitialisedInv, PointerOf
    <2>2. /\ pc' \in [Goroutine -> Steps] /\ at' \in [Goroutine -> Nat]
          /\ \A h \in Goroutine : pc'[h] = "idle" => h # g /\ pc[h] = "idle"
        BY <1>5, <2>1, GotoType, NextFieldGoes DEF MakeField, Steps, TypeOK
    <2>3. field' \in [{"mutex", "permissions", "filterPermissions"} -> PointerType]
        BY <1>5, <2>1 DEF MakeField, TypeOK, PointerType, Owner
    <2> QED
        BY <1>5, <2>2, <2>3 DEF TypeOK, MakeField
<1>6. CASE Lock(g)
    <2>1. field["mutex"] \in Owner
        BY <1>6, ReadyPointers DEF Lock, At, Ready, TypeOK
    <2>2. lock' \in [Owner -> M!Type(Goroutine)]
        <3> DEFINE m == field["mutex"]
        <3>1. lock[m] \in M!Type(Goroutine)
            BY <2>1 DEF TypeOK
        <3>2. M!Announce(lock[m], g) \in M!Type(Goroutine) /\ M!RLock(lock[m], g) \in M!Type(Goroutine)
            BY <3>1, MutexType
        <3>3. \/ lock' = [lock EXCEPT ![m] = M!Announce(lock[m], g)]
              \/ lock' = [lock EXCEPT ![m] = M!RLock(lock[m], g)]
            BY <1>6 DEF Lock
        <3> QED
            BY <2>1, <3>2, <3>3 DEF TypeOK
    <2>3. mu' \in [Goroutine -> PointerType]
        BY <1>6, <2>1 DEF Lock, TypeOK, PointerType
    <2> QED
        BY <1>6, <2>2, <2>3 DEF TypeOK, Lock, Goto, Steps
<1>7. CASE Enter(g)
    BY <1>1, <1>7 DEF TypeOK, Enter, Goto, Steps
<1>8. CASE Store(g)
    <2> DEFINE m == field["permissions"]
               p == call[g].perms[at[g]]
    <2>1. m \in Owner /\ p \in Permission
        BY <1>8, ReadyPointers, LoopArgument DEF Store, At, Ready, TypeOK
    <2>2. Keyed(AssignFrom(pmap[m], <<p>>, 1)) /\ Keyed(RevokeFrom(pmap[m], <<p>>, 1))
        BY <2>1, KeyedEdits, TypeIsKeyed
    <2> HIDE DEF p
    <2>3. pmap' = [pmap EXCEPT ![m] = IF call[g].op = "Assign"
                                      THEN AssignFrom(pmap[m], <<p>>, 1)
                                      ELSE RevokeFrom(pmap[m], <<p>>, 1)]
        BY <1>8 DEF Store, p
    <2>4. DOMAIN pmap' = Owner /\ \A o \in Owner : Keyed(pmap'[o])
        BY <2>1, <2>2, <2>3, TypeIsKeyed DEF TypeOK
    <2>5. /\ pc' \in [Goroutine -> Steps] /\ at' \in [Goroutine -> Nat]
          /\ \A h \in Goroutine : pc'[h] = "idle" => h # g /\ pc[h] = "idle"
        BY <1>8, GotoType DEF Store, Steps, TypeOK
    <2> QED
        BY <1>8, <2>4, <2>5 DEF TypeOK, Store, Keyed
<1>9. CASE Cache(g)
    <2> DEFINE m == field["filterPermissions"]
               p == call[g].perms[at[g]]
    <2>1. m \in Owner /\ p \in Permission
        BY <1>9, ReadyPointers, LoopArgument DEF Cache, At, Ready, TypeOK
    <2>2. Keyed(AssignFrom(fmap[m], <<p>>, 1)) /\ Keyed(RevokeFrom(fmap[m], <<p>>, 1))
        BY <2>1, KeyedEdits, TypeIsKeyed
    <2> HIDE DEF p
    <2>3. fmap' = [fmap EXCEPT ![m] = IF call[g].op = "Assign" /\ p \in HasCEL
                                      THEN AssignFrom(fmap[m], <<p>>, 1)
                                      ELSE RevokeFrom(fmap[m], <<p>>, 1)]
        BY <1>9 DEF Cache, p
    <2>4. DOMAIN fmap' = Owner /\ \A o \in Owner : Keyed(fmap'[o])
        BY <2>1, <2>2, <2>3, TypeIsKeyed DEF TypeOK
    <2>5. NextPerm(g) /\ at[g] + 1 \in Nat
        BY <1>9 DEF Cache, TypeOK
    <2>6. /\ pc' \in [Goroutine -> Steps] /\ at' \in [Goroutine -> Nat]
          /\ \A h \in Goroutine : pc'[h] = "idle" => h # g /\ pc[h] = "idle"
        BY <2>5, GotoType DEF NextPerm, Answer, Steps, TypeOK
    <2>7. UNCHANGED <<call, mu, crashed>> /\ DOMAIN reply' = Goroutine
          /\ \A h \in Goroutine : h # g => reply'[h] = reply[h]
        BY <2>5 DEF NextPerm, Answer, TypeOK
    <2>8. UNCHANGED <<start, field, lock, pmap>>
        BY <1>9 DEF Cache
    <2>9. \A o \in Owner : \A x \in {pmap'[o], fmap'[o]} :
              x \in [DOMAIN x -> Permission] /\ \A id \in DOMAIN x : IdOfPerm[x[id]] = id
        BY <2>4, <2>8, TypeIsKeyed DEF Keyed
    <2>10. call' \in [Goroutine -> RoleRequests \cup {NoCall}] /\ mu' \in [Goroutine -> PointerType]
           /\ crashed' \in BOOLEAN
        BY <2>7 DEF TypeOK
    <2>11. \A h \in Goroutine : pc'[h] = "idle" => call'[h] = NoCall /\ reply'[h] = NoReply
        BY <2>6, <2>7 DEF TypeOK
    <2>12. start' \in Starts /\ field' = field /\ lock' = lock /\ DOMAIN pmap' = Owner
        BY <2>8 DEF TypeOK
    <2> QED
        BY <2>4, <2>6, <2>7, <2>9, <2>10, <2>11, <2>12 DEF TypeOK
<1>10. CASE Permit(g)
    <2>1. /\ pc' \in [Goroutine -> Steps] /\ at' \in [Goroutine -> Nat]
          /\ \A h \in Goroutine : pc'[h] = "idle" => h # g /\ pc[h] = "idle"
        <3>1. at[g] + 1 \in Nat
            BY DEF TypeOK
        <3>2. Goto(g, "unlock", 1) \/ Goto(g, "read", at[g] + 1)
            BY <1>10 DEF Permit, Answer
        <3> QED
            BY <3>1, <3>2, GotoType DEF Steps
    <2>2. UNCHANGED <<call, mu, crashed>> /\ DOMAIN reply' = Goroutine
          /\ \A h \in Goroutine : h # g => reply'[h] = reply[h]
        BY <1>10 DEF Permit, Answer, TypeOK
    <2> QED
        BY <1>1, <1>10, <2>1, <2>2 DEF TypeOK, Permit
<1>11. CASE Permissions(g) \/ Get(g)
    BY <1>1, <1>11 DEF TypeOK, Permissions, Get, Answer, Goto, Steps
<1>12. CASE Unlock(g)
    <2>1. field["mutex"] \in Owner
        BY <1>12, ReadyPointers DEF Unlock, At, Ready, TypeOK
    <2>2. lock[field["mutex"]] \in M!Type(Goroutine)
        BY <2>1 DEF TypeOK
    <2>3. lock[field["mutex"]].readers \subseteq Goroutine /\ lock[field["mutex"]].writer \subseteq Goroutine
        BY <2>2 DEF M!Type
    <2>4. lock' \in [Owner -> M!Type(Goroutine)]
        <3>1. CASE Exclusive(g)
            BY <1>12, <2>1, <2>2, <3>1, MutexType DEF Unlock, TypeOK
        <3>2. CASE ~Exclusive(g)
            <4>1. PICK r \in Goroutine :
                     lock' = [lock EXCEPT ![field["mutex"]] = M!RUnlock(@, r)]
                BY <1>12, <2>3, <3>2 DEF Unlock
            <4> QED
                BY <2>1, <2>2, <4>1, MutexType DEF TypeOK
        <3> QED
            BY <3>1, <3>2
    <2> QED
        BY <1>12, <2>4 DEF TypeOK, Unlock, Goto, Steps
<1>13. CASE Return(g)
    <2>1. mu' \in [Goroutine -> PointerType]
        BY <1>13 DEF Return, TypeOK, PointerType
    <2> QED
        BY <1>13, <2>1 DEF TypeOK, Return, Goto, Steps, heap
<1> QED
    BY <1>2, <1>3, <1>4, <1>5, <1>6, <1>7, <1>8, <1>9, <1>10, <1>11, <1>12, <1>13 DEF Step

-----------------------------------------------------------------------------
(***************************************************************************)
(* Control.                                                                *)
(***************************************************************************)
LEMMA GoesTo ==
    ASSUME TypeOK, NEW g \in Goroutine, NEW step, NEW i, Goto(g, step, i)
    PROVE  pc'[g] = step /\ at'[g] = i
BY DEF TypeOK, Goto

\* What an answer changes of control.
LEMMA AnswerGoes ==
    ASSUME TypeOK, NEW g \in Goroutine, NEW r, NEW step, Answer(g, r, step)
    PROVE  pc'[g] = step /\ reply'[g] = r /\ UNCHANGED <<call, mu, crashed>>
BY GoesTo DEF Answer, TypeOK

\* Where a goroutine comes from and where it goes.
LEMMA Destinations ==
    ASSUME TypeOK, NEW g \in Goroutine
    PROVE  /\ Begin(g) => pc[g] = "idle" /\ pc'[g] \in {"noargs", "check"}
           /\ NoArguments(g) => pc[g] = "noargs" /\ pc'[g] = "return"
           /\ Lock(g) => pc[g] = "lock" /\ pc'[g] = "wait"
           /\ Enter(g) => pc[g] = "wait" /\ pc'[g] \in {"store", "read"}
           /\ Permit(g) \/ Permissions(g) \/ Get(g) =>
                 pc[g] = "read" /\ pc'[g] \in {"read", "unlock"}
           /\ Unlock(g) => pc[g] = "unlock" /\ pc'[g] = "return"
           /\ Return(g) => pc[g] \in {"return", "range"} /\ pc'[g] = "idle"
<1>1. Begin(g) => pc[g] = "idle" /\ pc'[g] \in {"noargs", "check"}
    BY GoesTo DEF Begin, At
<1>2. NoArguments(g) => pc[g] = "noargs" /\ pc'[g] = "return"
    <2>1. ASSUME NoArguments(g)
          PROVE  \E r : Answer(g, r, "return")
        BY <2>1 DEF NoArguments
    <2> QED
        BY <2>1, AnswerGoes DEF NoArguments, At
<1>3. Lock(g) => pc[g] = "lock" /\ pc'[g] = "wait"
    BY GoesTo DEF Lock, At
<1>4. Enter(g) => pc[g] = "wait" /\ pc'[g] \in {"store", "read"}
    BY GoesTo DEF Enter, At
<1>5. /\ Unlock(g) => pc[g] = "unlock" /\ pc'[g] = "return"
      /\ Return(g) => pc[g] \in {"return", "range"} /\ pc'[g] = "idle"
    BY GoesTo DEF Unlock, Return, At
<1>6. Permit(g) => pc[g] = "read" /\ pc'[g] \in {"read", "unlock"}
    BY GoesTo, AnswerGoes DEF Permit, At
<1>7. Permissions(g) \/ Get(g) => pc[g] = "read" /\ pc'[g] \in {"read", "unlock"}
    BY AnswerGoes DEF Permissions, Get, At
<1> QED
    BY <1>1, <1>2, <1>3, <1>4, <1>5, <1>6, <1>7

\* An answer can be told from none.
LEMMA AnswersDiffer ==
    /\ Ok # NoReply
    /\ \A x : Permitted(x) # NoReply /\ Listed(x) # NoReply /\ Found(x) # NoReply
<1> DEFINE n == NoReply
<1>1. DOMAIN n = {"pending"}
    BY DEF NoReply
<1>2. DOMAIN Ok = {"err"}
    BY DEF Ok
<1>3. \A x : DOMAIN Permitted(x) = {"permitted"} /\ DOMAIN Listed(x) = {"perms"}
                /\ DOMAIN Found(x) = {"found"}
    BY DEF Permitted, Listed, Found
<1> HIDE DEF n
<1>4. Ok # n /\ \A x : Permitted(x) # n /\ Listed(x) # n /\ Found(x) # n
    BY <1>1, <1>2, <1>3
<1> QED
    BY <1>4 DEF n

\* Every step keeps a goroutine's place in line with its call.
LEMMA ControlStep ==
    ASSUME IInv, NEW g \in Goroutine, Step(g)
    PROVE  ControlInv'
<1>1. TypeOK /\ ControlInv /\ ControlOf(g)
    BY DEF IInv, ControlInv
<1>2. \A h \in Goroutine : h # g => ControlOf(h)'
    BY <1>1, OthersKeep DEF ControlInv, ControlOf
<1>3. ControlOf(g)'
    <2>1. CASE Begin(g)
        <3>1. reply[g] = NoReply /\ reply' = reply
            BY <1>1, <2>1 DEF Begin, At, ControlOf
        <3>2. PICK q \in RoleRequests :
                 /\ call' = [call EXCEPT ![g] = q]
                 /\ IF q.op \in {"Assign", "Revoke", "Permit"} /\ q.perms = <<>>
                    THEN Goto(g, "noargs", 1) ELSE Goto(g, "check", 1)
            BY <2>1 DEF Begin
        <3>3. call'[g] = q /\ q # NoCall
            <4>1. q.op # "none"
                BY RoleRequestsAssumption DEF RoleRequestType
            <4>2. DOMAIN call = Goroutine
                BY <1>1 DEF TypeOK
            <4> QED
                BY <3>2, <4>1, <4>2 DEF NoCall
        <3> QED
            <4>1. CASE q.op \in {"Assign", "Revoke", "Permit"} /\ q.perms = <<>>
                <5>1. pc'[g] = "noargs"
                    BY <1>1, <3>2, <4>1, GoesTo
                <5> QED
                    BY <3>1, <3>3, <4>1, <5>1 DEF ControlOf, Ready, Locking
            <4>2. CASE ~(q.op \in {"Assign", "Revoke", "Permit"} /\ q.perms = <<>>)
                <5>1. pc'[g] = "check"
                    BY <1>1, <3>2, <4>2, GoesTo
                <5> QED
                    BY <3>1, <3>3, <4>2, <5>1 DEF ControlOf, Ready, Locking
            <4> QED
                BY <4>1, <4>2
    <2>2. CASE NoArguments(g)
        <3>1. PICK r \in {Permitted(FALSE), Ok} : Answer(g, r, "return")
            BY <2>2 DEF NoArguments
        <3>2. pc'[g] = "return" /\ reply'[g] # NoReply /\ call' = call /\ pc[g] = "noargs"
            BY <1>1, <2>2, <3>1, AnswerGoes, AnswersDiffer DEF NoArguments, At
        <3> QED
            BY <1>1, <3>2 DEF ControlOf, Ready, Locking
    <2>3. CASE CheckField(g) \/ MakeField(g)
        <3>1. /\ pc[g] \in {"check", "make"} /\ at[g] \in DOMAIN Fields
              /\ UNCHANGED <<call, reply>>
            BY <2>3 DEF CheckField, MakeField, At, IInv, InitialisedInv, PointerOf
        <3>2. CASE NextField(g)
            BY <1>1, <3>1, <3>2, NextFieldGoes, GoesTo DEF ControlOf, Ready, Locking
        <3>3. CASE Goto(g, "make", at[g])
            BY <1>1, <3>1, <3>3, GoesTo DEF ControlOf, Ready, Locking
        <3> QED
            BY <2>3, <3>2, <3>3 DEF CheckField, MakeField
    <2>4. CASE Lock(g)
        BY <1>1, <2>4, GoesTo DEF Lock, At, ControlOf, Ready, Locking
    <2>5. CASE Enter(g)
        <3>1. pc[g] = "wait" /\ UNCHANGED <<call, reply>> /\ at'[g] = 1
              /\ pc'[g] = IF call[g].op \in {"Assign", "Revoke"} THEN "store" ELSE "read"
            BY <1>1, <2>5, GoesTo DEF Enter, At
        <3>2. call[g] # NoCall /\ call[g].op # "FilterPermissions"
              /\ (call[g].op \in {"Assign", "Revoke", "Permit"} => call[g].perms # <<>>)
            BY <1>1, <3>1 DEF ControlOf, Locking, Ready
        <3>3. call[g].op \in {"Assign", "Revoke", "Permit"} => 1 \in DOMAIN call[g].perms
            <4>1. \A T, s : s \in Seq(T) /\ s # <<>> => 1 \in DOMAIN s
                BY LenProperties, EmptySeq
            <4> QED
                BY <1>1, <3>2, <4>1, CallArguments
        <3>4. call[g].op \in {"Assign", "Revoke", "Permit", "Permissions", "Get"}
            BY <1>1, <3>2, CallArguments
        <3> QED
            BY <1>1, <3>1, <3>2, <3>3, <3>4 DEF ControlOf, Ready, Locking
    <2>6. CASE Store(g)
        BY <1>1, <2>6, GoesTo DEF Store, At, ControlOf, Ready, Locking
    <2>7. CASE Cache(g)
        <3>1. pc[g] = "cache" /\ NextPerm(g)
            BY <2>7 DEF Cache, At
        <3>2. at[g] \in 1 .. Len(call[g].perms) /\ DOMAIN call[g].perms = 1 .. Len(call[g].perms)
              /\ Len(call[g].perms) \in Nat
            BY <1>1, <3>1, LoopArgument, LenProperties
        <3>3. CASE at[g] < Len(call[g].perms)
            <4>1. pc'[g] = "store" /\ at'[g] = at[g] + 1 /\ UNCHANGED <<call, reply>>
                BY <1>1, <3>1, <3>3, GoesTo DEF NextPerm
            <4>2. at'[g] \in DOMAIN call[g].perms
                BY <3>2, <3>3, <4>1
            <4> QED
                BY <1>1, <3>1, <4>1, <4>2 DEF ControlOf, Ready, Locking
        <3>4. CASE ~(at[g] < Len(call[g].perms))
            BY <1>1, <3>1, <3>4, AnswerGoes, AnswersDiffer DEF NextPerm, ControlOf, Ready, Locking
        <3> QED
            BY <3>3, <3>4
    <2>8. CASE Permit(g)
        <3>1. pc[g] = "read" /\ call[g].op = "Permit" /\ at[g] \in DOMAIN call[g].perms
            BY <1>1, <2>8 DEF Permit, At, ControlOf
        <3>2. CASE \E b \in BOOLEAN : Answer(g, Permitted(b), "unlock")
            BY <1>1, <3>1, <3>2, AnswerGoes, AnswersDiffer DEF ControlOf, Ready, Locking
        <3>3. CASE /\ at[g] < Len(call[g].perms)
                   /\ Goto(g, "read", at[g] + 1)
                   /\ UNCHANGED <<call, reply, mu, crashed>>
            <4>1. call[g].perms \in Seq(Permission \cup {Nil})
                BY <1>1, <3>1, CallArguments
            <4>2. at[g] + 1 \in DOMAIN call[g].perms
                BY <3>1, <3>3, <4>1, LenProperties
            <4> QED
                BY <1>1, <3>1, <3>3, <4>2, GoesTo DEF ControlOf, Ready, Locking
        <3> QED
            BY <2>8, <3>2, <3>3 DEF Permit
    <2>9. CASE Permissions(g) \/ Get(g)
        BY <1>1, <2>9, AnswerGoes, AnswersDiffer
           DEF Permissions, Get, At, ControlOf, Ready, Locking
    <2>10. CASE Unlock(g)
        BY <1>1, <2>10, GoesTo DEF Unlock, At, ControlOf, Ready, Locking
    <2>11. CASE Return(g)
        <3>1. pc'[g] = "idle" /\ call'[g] = NoCall /\ reply'[g] = NoReply
            BY <1>1, <2>11, GoesTo DEF Return, TypeOK
        <3> QED
            BY <3>1 DEF ControlOf, Ready, Locking
    <2> QED
        BY <2>1, <2>2, <2>3, <2>4, <2>5, <2>6, <2>7, <2>8, <2>9, <2>10, <2>11 DEF Step
<1> QED
    BY <1>2, <1>3 DEF ControlInv

-----------------------------------------------------------------------------
(***************************************************************************)
(* Initialisation.                                                         *)
(***************************************************************************)
LEMMA FieldNames ==
    /\ DOMAIN Fields = 1 .. 3
    /\ \A i \in 1 .. 3 : Fields[i] \in {"mutex", "permissions", "filterPermissions"}
    /\ Fields[1] = "mutex" /\ Fields[2] = "permissions" /\ Fields[3] = "filterPermissions"
BY DEF Fields

\* Until the pointers are set, who is in a call is alone with it.
LEMMA MakerAlone ==
    ASSUME IInv, NEW g \in Goroutine, pc[g] = "make"
    PROVE  /\ ~Initialised
           /\ \A h \in Goroutine : h # g => pc[h] = "idle"
           /\ \A o \in Owner : lock[o] = M!Free /\ pmap[o] = EmptyMap /\ fmap[o] = EmptyMap
<1>1. at[g] \in DOMAIN Fields /\ field[Fields[at[g]]] = Nil
    BY DEF IInv, InitialisedInv, PointerOf
<1>2. ~Initialised
    BY <1>1, FieldNames DEF Initialised, IInv, TypeOK
<1> QED
    BY <1>2 DEF IInv, InitialisedInv

\* A pointer that is set stays set; no other step sets one.
LEMMA PointersStay ==
    ASSUME IInv, NEW g \in Goroutine, Step(g)
    PROVE  /\ start' = start
           /\ \A f \in DOMAIN field : field[f] # Nil => field'[f] = field[f]
           /\ ~MakeField(g) => field' = field
           /\ Initialised => field' = field /\ Initialised'
<1>1. CASE MakeField(g)
    <2>1. pc[g] = "make"
        BY <1>1 DEF MakeField, At
    <2>2. ~Initialised
        BY <2>1, MakerAlone
    <2>3. at[g] \in DOMAIN Fields /\ field[Fields[at[g]]] = Nil
        BY <2>1 DEF IInv, InitialisedInv, PointerOf
    <2> QED
        BY <1>1, <2>2, <2>3 DEF MakeField, IInv, TypeOK
<1>2. CASE ~MakeField(g)
    <2>1. start' = start /\ field' = field
        BY <1>2 DEF Step, Begin, NoArguments, CheckField, Lock, Enter, Store, Cache,
           Permit, Permissions, Get, Unlock, Return, heap
    <2> QED
        BY <1>2, <2>1 DEF Initialised
<1> QED
    BY <1>1, <1>2

\* Beyond a pointer that is set, init goes on to the next or ends.
LEMMA NextFieldReaches ==
    ASSUME TypeOK, NEW g \in Goroutine, at[g] \in DOMAIN Fields, NextField(g),
           DOMAIN field' = DOMAIN field,
           \A i \in 1 .. at[g] : field'[Fields[i]] # Nil
    PROVE  PointerOf(g)'
<1>1. CASE at[g] < 3 /\ Goto(g, "check", at[g] + 1)
    BY <1>1, GoesTo DEF PointerOf, Ready, Fields
<1>2. CASE at[g] = 3 /\ (Goto(g, "range", 1) \/ Goto(g, "lock", 1))
    <2>1. pc'[g] \in {"range", "lock"}
        BY <1>2, GoesTo
    <2>2. /\ field'["mutex"] # Nil /\ field'["permissions"] # Nil
          /\ field'["filterPermissions"] # Nil
        BY <1>2 DEF Fields
    <2>3. Initialised'
        BY <2>2 DEF Initialised, TypeOK
    <2> QED
        BY <2>1, <2>3 DEF PointerOf
<1> QED
    BY <1>1, <1>2, NextFieldGoes

\* Every step keeps what holds before and after the object is initialised.
LEMMA InitialisedStep ==
    ASSUME IInv, NEW g \in Goroutine, Step(g), "Zero" \notin Starts
    PROVE  InitialisedInv'
<1>1. TypeOK /\ PointerOf(g) /\ InitialisedInv
    BY DEF IInv, InitialisedInv
<1>2. (start = "NewRole" => Initialised)'
    BY <1>1, PointersStay DEF InitialisedInv
<1>3. ASSUME ~Initialised'
      PROVE  /\ \A h, k \in Goroutine : pc'[h] # "idle" /\ pc'[k] # "idle" => h = k
             /\ ~Initialised /\ UNCHANGED <<lock, pmap, fmap>>
    <2>1. ~Initialised
        BY <1>3, PointersStay
    <2>2. pc[g] \notin Ready
        BY <1>1, <2>1 DEF PointerOf
    <2>3. Begin(g) \/ NoArguments(g) \/ CheckField(g) \/ MakeField(g) \/ Return(g)
        BY <2>2 DEF Step, Lock, Enter, Store, Cache, Permit, Permissions, Get, Unlock, At, Ready
    <2>4. UNCHANGED <<lock, pmap, fmap>>
        BY <2>3 DEF Begin, NoArguments, CheckField, MakeField, Return, heap
    <2>5. \A h \in Goroutine : h # g => pc[h] = "idle"
        <3>1. CASE Begin(g)
            <4>1. start = "Warm"
                BY <1>1, <2>1, StartsAssumption DEF TypeOK, InitialisedInv
            <4> QED
                BY <2>1, <3>1, <4>1 DEF Begin
        <3>2. CASE pc[g] # "idle"
            BY <1>1, <2>1, <3>2 DEF InitialisedInv
        <3> QED
            BY <2>3, <3>1, <3>2 DEF NoArguments, CheckField, MakeField, Return, At
    <2>6. \A h \in Goroutine : h # g => pc'[h] = "idle"
        BY <1>1, <2>5, OthersKeep
    <2> QED
        BY <2>1, <2>4, <2>6
<1>4. ASSUME NEW h \in Goroutine, h # g
      PROVE  PointerOf(h)'
    <2>1. pc'[h] = pc[h] /\ at'[h] = at[h] /\ PointerOf(h)
        BY <1>1, <1>4, OthersKeep DEF InitialisedInv
    <2>2. CASE MakeField(g)
        <3>1. pc[h] = "idle"
            BY <1>4, <2>2, MakerAlone DEF MakeField, At
        <3> QED
            BY <2>1, <3>1 DEF PointerOf, Ready
    <2>3. CASE ~MakeField(g)
        <3>1. field' = field
            BY <2>3, PointersStay
        <3> QED
            BY <2>1, <3>1 DEF PointerOf, Initialised
    <2> QED
        BY <2>2, <2>3
<1>5. PointerOf(g)'
    <2>1. CASE Begin(g)
        <3>1. pc'[g] \in {"noargs", "check"} /\ at'[g] = 1
            BY <1>1, <2>1, GoesTo DEF Begin
        <3> QED
            BY <3>1 DEF PointerOf, Ready, Fields
    <2>2. CASE CheckField(g)
        <3>1. pc[g] = "check" /\ at[g] \in DOMAIN Fields /\ field' = field
            BY <1>1, <2>2 DEF CheckField, At, PointerOf, heap
        <3>2. CASE field[Fields[at[g]]] = Nil
            <4>1. pc'[g] = "make" /\ at'[g] = at[g]
                BY <1>1, <2>2, <3>2, GoesTo DEF CheckField
            <4> QED
                BY <1>1, <3>1, <3>2, <4>1 DEF PointerOf, Ready
        <3>3. CASE field[Fields[at[g]]] # Nil
            <4>1. NextField(g)
                BY <2>2, <3>3 DEF CheckField
            <4>2. \A i \in 1 .. at[g] : field'[Fields[i]] # Nil
                BY <1>1, <3>1, <3>3 DEF PointerOf, Fields
            <4> QED
                BY <1>1, <3>1, <4>1, <4>2, NextFieldReaches
        <3> QED
            BY <3>2, <3>3
    <2>3. CASE MakeField(g)
        <3>1. pc[g] = "make" /\ at[g] \in DOMAIN Fields
            BY <1>1, <2>3 DEF MakeField, At, PointerOf
        <3>2. field' = [field EXCEPT ![Fields[at[g]]] = g] /\ NextField(g)
            BY <2>3 DEF MakeField
        <3>3. \A i \in 1 .. at[g] : field'[Fields[i]] # Nil
            <4>1. \A i \in 1 .. at[g] - 1 : field[Fields[i]] # Nil
                BY <1>1, <3>1 DEF PointerOf
            <4>2. \A i \in 1 .. at[g] : Fields[i] \in DOMAIN field
                BY <1>1, <3>1, FieldNames DEF TypeOK
            <4>3. g # Nil
                BY OwnerAssumption DEF Owner
            <4>4. \A i \in 1 .. at[g] : i = at[g] \/ i \in 1 .. at[g] - 1
                BY <3>1, FieldNames
            <4> QED
                BY <3>2, <4>1, <4>2, <4>3, <4>4
        <3>4. DOMAIN field' = DOMAIN field
            BY <3>2
        <3> QED
            BY <1>1, <3>1, <3>2, <3>3, <3>4, NextFieldReaches
    <2>4. CASE pc[g] \in Ready \cup {"noargs", "return"}
        <3>1. field' = field /\ pc'[g] \in Ready \cup {"return", "idle"}
              /\ (pc'[g] \in Ready => pc[g] \in Ready)
            <4>1. field' = field
                BY <2>4, PointersStay DEF MakeField, At, Ready
            <4> QED
                <5>1. CASE NoArguments(g)
                    <6>1. \E r : Answer(g, r, "return")
                        BY <5>1 DEF NoArguments
                    <6> QED
                        BY <1>1, <4>1, <6>1, AnswerGoes DEF Ready
                <5>2. CASE Lock(g)
                    BY <1>1, <4>1, <5>2, GoesTo DEF Lock, At, Ready
                <5>3. CASE Enter(g)
                    BY <1>1, <4>1, <5>3, GoesTo DEF Enter, At, Ready
                <5>4. CASE Unlock(g) \/ Return(g)
                    BY <1>1, <4>1, <5>4, GoesTo DEF Unlock, Return, At, Ready
                <5>5. CASE Store(g) \/ Cache(g)
                    BY <1>1, <4>1, <5>5, GoesTo, AnswerGoes DEF Store, Cache, NextPerm, At, Ready
                <5>6. CASE Permit(g) \/ Permissions(g) \/ Get(g)
                    BY <1>1, <4>1, <5>6, GoesTo, AnswerGoes
                       DEF Permit, Permissions, Get, At, Ready
                <5> QED
                    BY <2>4, <5>1, <5>2, <5>3, <5>4, <5>5, <5>6
                       DEF Step, Begin, CheckField, MakeField, At, Ready
        <3> QED
            BY <1>1, <3>1 DEF PointerOf, Ready, Initialised
    <2> QED
        BY <2>1, <2>2, <2>3, <2>4 DEF Step, NoArguments, Lock, Enter, Store, Cache, Permit,
           Permissions, Get, Unlock, Return, At, Ready
<1> QED
    BY <1>1, <1>2, <1>3, <1>4, <1>5 DEF InitialisedInv

-----------------------------------------------------------------------------
(***************************************************************************)
(* Mutual exclusion.                                                       *)
(***************************************************************************)
LEMMA MutexIsOne ==
    ASSUME TypeOK, Initialised
    PROVE  /\ field["mutex"] \in Owner /\ field["permissions"] \in Owner
           /\ field["filterPermissions"] \in Owner
           /\ Mutex \in M!Type(Goroutine)
BY DEF TypeOK, Initialised, PointerType, Mutex

\* A writer that has begun has no other goroutine beside it.
LEMMA WriterAlone ==
    ASSUME IInv, NEW g \in Goroutine, pc[g] \in Inside, Exclusive(g),
           NEW h \in Goroutine, h # g
    PROVE  pc[h] \notin Inside
<1>1. Initialised
    BY DEF IInv, InitialisedInv, PointerOf, Inside, Ready
<1>2. MutexOf(g) /\ MutexOf(h) /\ \A x, y \in Mutex.writer : x = y
    BY <1>1 DEF IInv, MutexInv
<1>3. g \in Mutex.writer /\ Mutex.readers = {}
    BY <1>2 DEF MutexOf, Inside, Locking
<1>4. ~Exclusive(h) \/ pc[h] \notin Locking
    BY <1>2, <1>3 DEF MutexOf
<1> QED
    BY <1>2, <1>3, <1>4 DEF MutexOf, Inside, Locking

\* A step that neither calls Lock nor Unlock nor is granted the lock.
LEMMA QueuesKept ==
    ASSUME IInv, NEW g \in Goroutine, Step(g), Initialised,
           ~Lock(g), ~Enter(g), ~Unlock(g)
    PROVE  /\ lock' = lock
           /\ pc'[g] \in Locking <=> pc[g] \in Locking
           /\ pc'[g] \in Inside <=> pc[g] \in Inside
           /\ pc[g] \in Locking => UNCHANGED call /\ UNCHANGED mu
           /\ pc[g] # "wait"
<1>1. TypeOK /\ ~MakeField(g)
    BY MakerAlone DEF IInv, MakeField, At
<1>2. CASE Begin(g)
    <2>1. pc[g] = "idle" /\ pc'[g] \in {"noargs", "check"}
        BY <1>1, <1>2, GoesTo DEF Begin, At
    <2> QED
        BY <1>2, <2>1 DEF Begin, heap, Locking, Inside
<1>3. CASE NoArguments(g)
    <2>1. \E r : Answer(g, r, "return")
        BY <1>3 DEF NoArguments
    <2>2. pc[g] = "noargs" /\ pc'[g] = "return"
        BY <1>1, <1>3, <2>1, AnswerGoes DEF NoArguments, At
    <2> QED
        BY <1>3, <2>2 DEF NoArguments, heap, Locking, Inside
<1>4. CASE CheckField(g)
    <2>1. pc[g] = "check" /\ at[g] \in DOMAIN Fields /\ UNCHANGED heap
        BY <1>4 DEF CheckField, At, IInv, InitialisedInv, PointerOf
    <2>2. pc'[g] \in {"make", "check", "range", "lock"}
        BY <1>1, <1>4, <2>1, NextFieldGoes, GoesTo DEF CheckField
    <2> QED
        BY <2>1, <2>2 DEF heap, Locking, Inside
<1>5. CASE Store(g)
    BY <1>1, <1>5, GoesTo DEF Store, At, Locking, Inside
<1>6. CASE Cache(g)
    BY <1>1, <1>6, GoesTo, AnswerGoes DEF Cache, NextPerm, At, Locking, Inside
<1>7. CASE Permit(g) \/ Permissions(g) \/ Get(g)
    BY <1>1, <1>7, GoesTo, AnswerGoes DEF Permit, Permissions, Get, At, heap, Locking, Inside
<1>8. CASE Return(g)
    BY <1>1, <1>8, GoesTo DEF Return, At, heap, Locking, Inside
<1> QED
    BY <1>1, <1>2, <1>3, <1>4, <1>5, <1>6, <1>7, <1>8 DEF Step

\* Every step keeps the lock with the goroutines that hold it.
LEMMA MutexStep ==
    ASSUME IInv, NEW g \in Goroutine, Step(g)
    PROVE  MutexInv'
<1>1. SUFFICES ASSUME Initialised'
               PROVE  /\ \A h, k \in Mutex'.writer : h = k
                      /\ \A h \in Goroutine : MutexOf(h)'
    BY DEF MutexInv
<1>2. TypeOK /\ TypeOK'
    BY TypeStep DEF IInv
<1>3. CASE ~Initialised
    <2>1. MakeField(g)
        BY <1>1, <1>2, <1>3, PointersStay DEF Initialised
    <2>2. pc[g] = "make" /\ lock' = lock /\ at[g] \in DOMAIN Fields
        BY <2>1 DEF MakeField, At, IInv, InitialisedInv, PointerOf
    <2>3. pc'[g] \in {"check", "range", "lock"}
        BY <1>2, <2>1, <2>2, NextFieldGoes, GoesTo DEF MakeField
    <2>4. \A h \in Goroutine : h # g => pc'[h] = "idle"
        BY <1>2, <2>2, MakerAlone, OthersKeep
    <2>5. field'["mutex"] \in Owner
        BY <1>1, <1>2 DEF TypeOK, Initialised, PointerType
    <2>6. Mutex' = M!Free
        BY <2>2, <2>5, MakerAlone DEF Mutex
    <2>7. Mutex'.writer = {} /\ Mutex'.readers = {} /\ Mutex'.waiting = {}
        BY <2>6 DEF M!Free
    <2> QED
        BY <2>3, <2>4, <2>7 DEF MutexOf, Locking, Inside
<1>4. CASE Initialised
    <2>1. field' = field /\ field["mutex"] \in Owner /\ Mutex \in M!Type(Goroutine)
        BY <1>2, <1>4, PointersStay, MutexIsOne
    <2>2. /\ \A h, k \in Mutex.writer : h = k
          /\ \A h \in Goroutine : MutexOf(h)
        BY <1>4 DEF IInv, MutexInv
    <2>3. \A h \in Goroutine : h # g =>
             /\ pc'[h] = pc[h] /\ mu'[h] = mu[h] /\ (Exclusive(h)' <=> Exclusive(h))
        BY <1>2, OthersKeep DEF Exclusive
    <2>4. CASE ~Lock(g) /\ ~Enter(g) /\ ~Unlock(g)
        <3>1. /\ Mutex' = Mutex
              /\ pc'[g] \in Locking <=> pc[g] \in Locking
              /\ pc'[g] \in Inside <=> pc[g] \in Inside
              /\ pc[g] \in Locking => UNCHANGED call /\ UNCHANGED mu
              /\ pc[g] # "wait"
            BY <1>4, <2>1, <2>4, QueuesKept DEF Mutex
        <3>2. MutexOf(g)'
            BY <2>1, <2>2, <3>1 DEF MutexOf, Exclusive, Inside, Locking
        <3>3. \A h \in Goroutine : h # g => MutexOf(h)'
            BY <2>1, <2>2, <2>3, <3>1 DEF MutexOf
        <3> QED
            BY <2>2, <3>1, <3>2, <3>3
    <2>5. CASE Lock(g)
        <3>1. /\ pc[g] = "lock" /\ pc'[g] = "wait" /\ mu'[g] = field["mutex"]
              /\ Exclusive(g)' <=> Exclusive(g)
            BY <1>2, <2>5, GoesTo DEF Lock, At, Exclusive, TypeOK
        <3>2. g \notin Mutex.writer \cup Mutex.readers \cup Mutex.waiting
            BY <2>2, <3>1 DEF MutexOf, Locking
        <3>3. CASE /\ Exclusive(g) /\ Mutex.writer = {}
                   /\ Mutex' = M!Announce(Mutex, g)
            <4>1. /\ Mutex'.writer = {g} /\ Mutex'.readers = Mutex.readers
                  /\ Mutex'.waiting = Mutex.waiting
                BY <2>1, <3>3 DEF M!Announce, M!Type
            <4>2. MutexOf(g)'
                BY <2>1, <3>1, <3>2, <3>3, <4>1 DEF MutexOf, Inside, Locking
            <4>3. \A h \in Goroutine : h # g => MutexOf(h)'
                BY <2>1, <2>2, <2>3, <3>3, <4>1 DEF MutexOf
            <4> QED
                BY <4>1, <4>2, <4>3
        <3>4. CASE /\ ~Exclusive(g)
                   /\ Mutex' = M!RLock(Mutex, g)
            <4>1. CASE Mutex.writer = {}
                <5>1. /\ Mutex'.writer = {} /\ Mutex'.readers = Mutex.readers \cup {g}
                      /\ Mutex'.waiting = Mutex.waiting
                    BY <2>1, <3>4, <4>1 DEF M!RLock, M!Type
                <5>2. MutexOf(g)'
                    BY <2>1, <3>1, <3>2, <3>4, <5>1 DEF MutexOf, Inside, Locking
                <5>3. \A h \in Goroutine : h # g => MutexOf(h)'
                    BY <2>1, <2>2, <2>3, <4>1, <5>1 DEF MutexOf, Inside, Locking
                <5> QED
                    BY <5>1, <5>2, <5>3
            <4>2. CASE Mutex.writer # {}
                <5>1. /\ Mutex'.writer = Mutex.writer /\ Mutex'.readers = Mutex.readers
                      /\ Mutex'.waiting = Mutex.waiting \cup {g}
                    BY <2>1, <3>4, <4>2 DEF M!RLock, M!Type
                <5>2. MutexOf(g)'
                    BY <2>1, <3>1, <3>2, <3>4, <5>1 DEF MutexOf, Inside, Locking
                <5>3. \A h \in Goroutine : h # g => MutexOf(h)'
                    BY <2>1, <2>2, <2>3, <5>1 DEF MutexOf
                <5> QED
                    BY <2>2, <5>1, <5>2, <5>3
            <4> QED
                BY <4>1, <4>2
        <3>5. \/ Exclusive(g) /\ Mutex.writer = {} /\ Mutex' = M!Announce(Mutex, g)
              \/ ~Exclusive(g) /\ Mutex' = M!RLock(Mutex, g)
            <4> DEFINE m == field["mutex"]
            <4>1. m \in DOMAIN lock
                BY <1>2, <2>1 DEF TypeOK
            <4>2. \/ /\ Exclusive(g) /\ M!CanAnnounce(lock[m])
                     /\ lock' = [lock EXCEPT ![m] = M!Announce(lock[m], g)]
                  \/ ~Exclusive(g) /\ lock' = [lock EXCEPT ![m] = M!RLock(lock[m], g)]
                BY <2>5 DEF Lock
            <4>3. Mutex = lock[m] /\ Mutex' = lock'[m]
                BY <2>1 DEF Mutex
            <4> QED
                BY <4>1, <4>2, <4>3 DEF M!CanAnnounce
        <3> QED
            BY <3>3, <3>4, <3>5
    <2>6. CASE Enter(g)
        <3>1. /\ pc[g] = "wait" /\ pc'[g] \in {"store", "read"} /\ Mutex' = Mutex
              /\ mu' = mu /\ (Exclusive(g)' <=> Exclusive(g))
            BY <1>2, <2>1, <2>6, GoesTo DEF Enter, At, Exclusive, heap, Mutex
        <3>2. mu[g] = field["mutex"]
            BY <2>2, <3>1 DEF MutexOf, Locking
        <3>3. IF Exclusive(g) THEN Mutex.readers = {} ELSE g \in Mutex.readers
            BY <2>6, <3>2 DEF Enter, Mutex, M!Owns, M!Reads
        <3>4. MutexOf(g)'
            BY <2>1, <2>2, <3>1, <3>3 DEF MutexOf, Inside, Locking
        <3>5. \A h \in Goroutine : h # g => MutexOf(h)'
            BY <2>1, <2>2, <2>3, <3>1 DEF MutexOf
        <3> QED
            BY <2>2, <3>1, <3>4, <3>5
    <2>7. CASE Unlock(g)
        <3>1. /\ pc[g] = "unlock" /\ pc'[g] = "return" /\ (Exclusive(g)' <=> Exclusive(g))
            BY <1>2, <2>7, GoesTo DEF Unlock, At, Exclusive
        <3>2. CASE Exclusive(g)
            <4>1. g \in Mutex.writer /\ Mutex.readers = {}
                BY <2>2, <3>1, <3>2 DEF MutexOf, Inside, Locking
            <4>2. Mutex' = M!Unlock(Mutex)
                BY <1>2, <2>1, <2>7, <3>2 DEF Unlock, Mutex, TypeOK
            <4>3. /\ Mutex'.writer = {} /\ Mutex'.readers = Mutex.waiting /\ Mutex'.waiting = {}
                BY <4>1, <4>2 DEF M!Unlock
            <4>4. MutexOf(g)'
                BY <2>2, <3>1, <3>2, <4>3 DEF MutexOf, Inside, Locking
            <4>5. \A h \in Goroutine : h # g => MutexOf(h)'
                BY <2>1, <2>2, <2>3, <4>1, <4>3 DEF MutexOf, Inside, Locking
            <4> QED
                BY <4>3, <4>4, <4>5
        <3>3. CASE ~Exclusive(g)
            <4>1. g \in Mutex.readers
                BY <2>2, <3>1, <3>3 DEF MutexOf, Locking
            <4>2. Mutex' = M!RUnlock(Mutex, g)
                BY <1>2, <2>1, <2>7, <3>3, <4>1 DEF Unlock, Mutex, TypeOK
            <4>3. /\ Mutex'.writer = Mutex.writer /\ Mutex'.readers = Mutex.readers \ {g}
                  /\ Mutex'.waiting = Mutex.waiting
                BY <2>1, <4>2 DEF M!RUnlock, M!Type
            <4>4. MutexOf(g)'
                BY <2>2, <3>1, <3>3, <4>3 DEF MutexOf, Inside, Locking
            <4>5. \A h \in Goroutine : h # g => MutexOf(h)'
                BY <2>1, <2>2, <2>3, <4>3 DEF MutexOf
            <4> QED
                BY <2>2, <4>3, <4>4, <4>5
        <3> QED
            BY <3>2, <3>3
    <2> QED
        BY <2>4, <2>5, <2>6, <2>7
<1> QED
    BY <1>3, <1>4

\* Nobody unlocks a mutex that is not locked.
LEMMA NoFatalUnlockStep ==
    ASSUME IInv, NEW g \in Goroutine, Step(g)
    PROVE  NoFatalUnlock'
<1>1. CASE Unlock(g)
    <2>1. pc[g] = "unlock"
        BY <1>1 DEF Unlock, At
    <2>2. Initialised
        BY <2>1 DEF IInv, InitialisedInv, PointerOf, Ready
    <2>3. MutexOf(g)
        BY <2>2 DEF IInv, MutexInv
    <2>4. g \in IF Exclusive(g) THEN Mutex.writer ELSE Mutex.readers
        BY <2>1, <2>3 DEF MutexOf, Locking
    <2> QED
        BY <1>1, <2>4 DEF Unlock, Mutex, NoFatalUnlock
<1>2. CASE ~Unlock(g)
    <2>1. crashed' = crashed
        BY <1>2 DEF Step, Begin, NoArguments, CheckField, MakeField, Lock, Enter, Store, Cache,
           Permit, Permissions, Get, Return, NextPerm, Answer
    <2> QED
        BY <2>1 DEF IInv, NoFatalUnlock
<1> QED
    BY <1>1, <1>2

-----------------------------------------------------------------------------
(***************************************************************************)
(* The maps.                                                               *)
(***************************************************************************)
\* An iteration of Assign or Revoke has the maps to itself.
LEMMA IterationAlone ==
    ASSUME IInv, NEW g \in Goroutine, pc[g] \in {"store", "cache"}
    PROVE  /\ Initialised
           /\ call[g].op \in {"Assign", "Revoke"}
           /\ \A h \in Goroutine : h # g => pc[h] \notin Inside
<1>1. Initialised /\ call[g].op \in {"Assign", "Revoke"}
    BY DEF IInv, InitialisedInv, PointerOf, ControlInv, ControlOf, Ready
<1> QED
    BY <1>1, WriterAlone DEF Exclusive, Inside

\* Only an iteration changes a map, and goes on to the other half.
LEMMA MapsKept ==
    ASSUME IInv, NEW g \in Goroutine, Step(g), ~Store(g), ~Cache(g), Initialised
    PROVE  Map' = Map /\ FilterMap' = FilterMap /\ pc[g] # "cache" /\ pc'[g] # "cache"
<1>1. field' = field /\ TypeOK /\ ~MakeField(g)
    BY PointersStay, MakerAlone DEF IInv, MakeField, At
<1>2. UNCHANGED <<pmap, fmap>>
    BY <1>1 DEF Step, Begin, NoArguments, CheckField, Lock, Enter, Permit, Permissions, Get,
       Unlock, Return, heap
<1>3. pc[g] # "cache"
    BY <1>1 DEF Step, Begin, NoArguments, CheckField, Lock, Enter, Permit, Permissions, Get,
       Unlock, Return, At
<1>4. pc'[g] # "cache"
    <2>1. CASE CheckField(g)
        <3>1. at[g] \in DOMAIN Fields
            BY <2>1 DEF CheckField, At, IInv, InitialisedInv, PointerOf
        <3> QED
            BY <1>1, <2>1, <3>1, NextFieldGoes, GoesTo DEF CheckField
    <2>2. CASE Begin(g) \/ NoArguments(g) \/ Lock(g)
        BY <1>1, <2>2, Destinations
    <2>3. CASE Enter(g) \/ Unlock(g) \/ Return(g)
        BY <1>1, <2>3, Destinations
    <2>4. CASE Permit(g) \/ Permissions(g) \/ Get(g)
        BY <1>1, <2>4, Destinations
    <2> QED
        BY <1>1, <2>1, <2>2, <2>3, <2>4 DEF Step
<1> QED
    BY <1>1, <1>2, <1>3, <1>4 DEF Map, FilterMap

\* What one store of a loop does.
LEMMA StoreDoes ==
    ASSUME IInv, NEW g \in Goroutine, Store(g)
    PROVE  LET p == call[g].perms[at[g]] IN
           /\ Map' = IF call[g].op = "Assign" THEN AssignFrom(Map, <<p>>, 1)
                                              ELSE RevokeFrom(Map, <<p>>, 1)
           /\ FilterMap' = FilterMap
           /\ pc[g] = "store" /\ pc'[g] = "cache" /\ at'[g] = at[g] /\ call' = call
           /\ reply' = reply
<1> DEFINE p == call[g].perms[at[g]]
           m == field["permissions"]
           new == IF call[g].op = "Assign" THEN AssignFrom(pmap[m], <<p>>, 1)
                                           ELSE RevokeFrom(pmap[m], <<p>>, 1)
<1>1. pc[g] = "store" /\ TypeOK
    BY DEF Store, At, IInv
<1>2. m \in DOMAIN pmap
    BY <1>1, IterationAlone, MutexIsOne DEF TypeOK
<1>3. pmap' = [pmap EXCEPT ![m] = new] /\ field' = field
    BY DEF Store
<1> HIDE DEF new, p
<1>4. Map' = new
    BY <1>2, <1>3 DEF Map
<1>5. /\ pc'[g] = "cache" /\ at'[g] = at[g] /\ call' = call /\ reply' = reply
      /\ FilterMap' = FilterMap
    BY <1>1, GoesTo DEF Store, FilterMap
<1> QED
    BY <1>1, <1>4, <1>5 DEF new, p, Map

\* What the update of the filter map after a store does.
LEMMA CacheDoes ==
    ASSUME IInv, NEW g \in Goroutine, Cache(g)
    PROVE  LET p == call[g].perms[at[g]] IN
           /\ FilterMap' = IF call[g].op = "Assign" /\ p \in HasCEL
                           THEN AssignFrom(FilterMap, <<p>>, 1)
                           ELSE RevokeFrom(FilterMap, <<p>>, 1)
           /\ Map' = Map /\ call' = call
           /\ pc[g] = "cache"
           /\ \/ /\ at[g] < Len(call[g].perms)
                 /\ pc'[g] = "store" /\ at'[g] = at[g] + 1 /\ reply' = reply
              \/ /\ ~(at[g] < Len(call[g].perms))
                 /\ pc'[g] = "unlock" /\ reply' = [reply EXCEPT ![g] = Ok]
<1> DEFINE p == call[g].perms[at[g]]
           m == field["filterPermissions"]
           new == IF call[g].op = "Assign" /\ p \in HasCEL
                  THEN AssignFrom(fmap[m], <<p>>, 1)
                  ELSE RevokeFrom(fmap[m], <<p>>, 1)
<1>1. pc[g] = "cache" /\ TypeOK
    BY DEF Cache, At, IInv
<1>2. m \in DOMAIN fmap
    BY <1>1, IterationAlone, MutexIsOne DEF TypeOK
<1>3. fmap' = [fmap EXCEPT ![m] = new] /\ field' = field /\ Map' = Map
    BY DEF Cache, Map
<1> HIDE DEF new, p
<1>4. FilterMap' = new
    BY <1>2, <1>3 DEF FilterMap
<1>5. NextPerm(g)
    BY DEF Cache
<1>6. /\ call' = call
      /\ \/ /\ at[g] < Len(call[g].perms)
            /\ pc'[g] = "store" /\ at'[g] = at[g] + 1 /\ reply' = reply
         \/ /\ ~(at[g] < Len(call[g].perms))
            /\ pc'[g] = "unlock" /\ reply' = [reply EXCEPT ![g] = Ok]
    BY <1>1, <1>5, GoesTo DEF NextPerm, Answer
<1> QED
    BY <1>1, <1>3, <1>4, <1>6 DEF new, p, FilterMap

\* Every step keeps the filter map with the permissions.
LEMMA CacheStep ==
    ASSUME IInv, NEW g \in Goroutine, Step(g)
    PROVE  CacheInv'
<1>1. SUFFICES ASSUME Initialised'
               PROVE  /\ (\A h \in Goroutine : pc'[h] # "cache") => \A id \in PermID : Agree(id)'
                      /\ \A h \in Goroutine : pc'[h] = "cache" =>
                            /\ StoredOf(h)'
                            /\ \A id \in PermID \ {IdOfPerm[call'[h].perms[at'[h]]]} : Agree(id)'
    BY DEF CacheInv
<1>2. TypeOK /\ TypeOK'
    BY TypeStep DEF IInv
<1> DEFINE p == call[g].perms[at[g]]
<1>3. CASE ~Initialised
    <2>1. MakeField(g)
        BY <1>1, <1>2, <1>3, PointersStay DEF Initialised
    <2>2. /\ pc[g] = "make" /\ UNCHANGED <<pmap, fmap>> /\ at[g] \in DOMAIN Fields
        BY <2>1 DEF MakeField, At, IInv, InitialisedInv, PointerOf
    <2>3. \A h \in Goroutine : pc'[h] # "cache"
        <3>1. pc'[g] \in {"check", "range", "lock"}
            BY <1>2, <2>1, <2>2, NextFieldGoes, GoesTo DEF MakeField
        <3> QED
            BY <1>2, <2>2, <3>1, MakerAlone, OthersKeep
    <2>4. field'["permissions"] \in Owner /\ field'["filterPermissions"] \in Owner
        BY <1>1, <1>2 DEF TypeOK, Initialised, PointerType
    <2>5. Map' = EmptyMap /\ FilterMap' = EmptyMap
        BY <2>2, <2>4, MakerAlone DEF Map, FilterMap
    <2>6. DOMAIN Map' = {} /\ DOMAIN FilterMap' = {}
        BY <2>5 DEF EmptyMap
    <2> QED
        BY <2>3, <2>6 DEF Agree
<1>4. CASE Initialised /\ Store(g)
    <2>1. \A h \in Goroutine : pc[h] # "cache"
        BY <1>4, IterationAlone DEF Store, At, Inside
    <2>2. \A id \in PermID : Agree(id)
        BY <1>4, <2>1 DEF IInv, CacheInv
    <2>3. p \in Permission /\ call[g].op \in {"Assign", "Revoke"}
        BY <1>4, LoopArgument, IterationAlone DEF Store, At, IInv
    <2>4. /\ Map' = IF call[g].op = "Assign" THEN AssignFrom(Map, <<p>>, 1)
                                             ELSE RevokeFrom(Map, <<p>>, 1)
          /\ FilterMap' = FilterMap
          /\ pc'[g] = "cache" /\ at'[g] = at[g] /\ call' = call
        BY <1>4, StoreDoes
    <2>5. \A h \in Goroutine : pc'[h] = "cache" => h = g
        BY <1>2, <2>1, OthersKeep
    <2> HIDE DEF p
    <2>6. CASE call[g].op = "Assign"
        <3>1. /\ DOMAIN Map' = DOMAIN Map \cup {IdOfPerm[p]}
              /\ Map'[IdOfPerm[p]] = p
              /\ \A id \in DOMAIN Map : id # IdOfPerm[p] => Map'[id] = Map[id]
            <4> DEFINE e == AssignFrom(Map, <<p>>, 1)
            <4>1. /\ DOMAIN e = DOMAIN Map \cup {IdOfPerm[p]}
                  /\ e[IdOfPerm[p]] = p
                  /\ \A id \in DOMAIN Map : id # IdOfPerm[p] => e[id] = Map[id]
                BY <2>3, AssignOne
            <4>2. Map' = e
                BY <2>4, <2>6
            <4> HIDE DEF e
            <4> QED
                BY <4>1, <4>2
        <3>2. \A id \in PermID \ {IdOfPerm[p]} : Agree(id)'
            BY <2>2, <2>4, <3>1 DEF Agree
        <3>3. StoredOf(g)'
            BY <2>4, <2>6, <3>1 DEF StoredOf, p
        <3> QED
            BY <2>4, <2>5, <3>2, <3>3 DEF p
    <2>7. CASE call[g].op = "Revoke"
        <3>1. /\ DOMAIN Map' = DOMAIN Map \ {IdOfPerm[p]}
              /\ \A id \in DOMAIN Map' : Map'[id] = Map[id]
            <4> DEFINE e == RevokeFrom(Map, <<p>>, 1)
            <4>1. /\ DOMAIN e = DOMAIN Map \ {IdOfPerm[p]}
                  /\ \A id \in DOMAIN e : e[id] = Map[id]
                BY RevokeOne
            <4>2. Map' = e
                BY <2>4, <2>7
            <4> HIDE DEF e
            <4> QED
                BY <4>1, <4>2
        <3>2. \A id \in PermID \ {IdOfPerm[p]} : Agree(id)'
            BY <2>2, <2>4, <3>1 DEF Agree
        <3>3. StoredOf(g)'
            BY <2>4, <2>7, <3>1 DEF StoredOf, p
        <3> QED
            BY <2>4, <2>5, <3>2, <3>3 DEF p
    <2> QED
        BY <2>3, <2>6, <2>7
<1>5. CASE Initialised /\ Cache(g)
    <2>1. pc[g] = "cache" /\ p \in Permission /\ IdOfPerm[p] \in PermID
          /\ call[g].op \in {"Assign", "Revoke"}
        BY <1>5, LoopArgument, IterationAlone DEF Cache, At, IInv
    <2>2. StoredOf(g) /\ \A id \in PermID \ {IdOfPerm[p]} : Agree(id)
        BY <1>5, <2>1 DEF IInv, CacheInv
    <2>3. /\ FilterMap' = IF call[g].op = "Assign" /\ p \in HasCEL
                          THEN AssignFrom(FilterMap, <<p>>, 1)
                          ELSE RevokeFrom(FilterMap, <<p>>, 1)
          /\ Map' = Map /\ pc'[g] # "cache"
        BY <1>5, CacheDoes
    <2>4. \A h \in Goroutine : pc'[h] # "cache"
        BY <1>2, <2>1, <2>3, IterationAlone, OthersKeep DEF Inside
    <2>5. /\ call[g].op = "Assign" => IdOfPerm[p] \in DOMAIN Map /\ Map[IdOfPerm[p]] = p
          /\ call[g].op = "Revoke" => IdOfPerm[p] \notin DOMAIN Map
        BY <2>2 DEF StoredOf
    <2> HIDE DEF p
    <2>6. CASE call[g].op = "Assign" /\ p \in HasCEL
        <3>1. /\ DOMAIN FilterMap' = DOMAIN FilterMap \cup {IdOfPerm[p]}
              /\ FilterMap'[IdOfPerm[p]] = p
              /\ \A id \in DOMAIN FilterMap : id # IdOfPerm[p] => FilterMap'[id] = FilterMap[id]
            <4> DEFINE e == AssignFrom(FilterMap, <<p>>, 1)
            <4>1. /\ DOMAIN e = DOMAIN FilterMap \cup {IdOfPerm[p]}
                  /\ e[IdOfPerm[p]] = p
                  /\ \A id \in DOMAIN FilterMap : id # IdOfPerm[p] => e[id] = FilterMap[id]
                BY <2>1, AssignOne
            <4>2. FilterMap' = e
                BY <2>3, <2>6
            <4> HIDE DEF e
            <4> QED
                BY <4>1, <4>2
        <3>2. \A id \in PermID : Agree(id)'
            BY <2>2, <2>3, <2>5, <2>6, <3>1 DEF Agree
        <3> QED
            BY <2>4, <3>2
    <2>7. CASE ~(call[g].op = "Assign" /\ p \in HasCEL)
        <3>1. /\ DOMAIN FilterMap' = DOMAIN FilterMap \ {IdOfPerm[p]}
              /\ \A id \in DOMAIN FilterMap' : FilterMap'[id] = FilterMap[id]
            <4> DEFINE e == RevokeFrom(FilterMap, <<p>>, 1)
            <4>1. /\ DOMAIN e = DOMAIN FilterMap \ {IdOfPerm[p]}
                  /\ \A id \in DOMAIN e : e[id] = FilterMap[id]
                BY RevokeOne
            <4>2. FilterMap' = e
                BY <2>3, <2>7
            <4> HIDE DEF e
            <4> QED
                BY <4>1, <4>2
        <3>2. \A id \in PermID : Agree(id)'
            BY <2>1, <2>2, <2>3, <2>5, <2>7, <3>1 DEF Agree
        <3> QED
            BY <2>4, <3>2
    <2> QED
        BY <2>6, <2>7
<1>6. CASE Initialised /\ ~Store(g) /\ ~Cache(g)
    <2>1. Map' = Map /\ FilterMap' = FilterMap /\ pc[g] # "cache" /\ pc'[g] # "cache"
        BY <1>6, MapsKept
    <2>2. \A id : Agree(id)' <=> Agree(id)
        BY <2>1 DEF Agree
    <2>3. \A h \in Goroutine : h # g =>
             pc'[h] = pc[h] /\ call'[h] = call[h] /\ at'[h] = at[h]
        BY <1>2, OthersKeep
    <2>4. \A h \in Goroutine : h # g => (StoredOf(h)' <=> StoredOf(h))
        BY <2>1, <2>3 DEF StoredOf
    <2> QED
        BY <1>6, <2>1, <2>2, <2>3, <2>4 DEF IInv, CacheInv
<1> QED
    BY <1>3, <1>4, <1>5, <1>6

\* Every step keeps covered what a Permit has passed.
LEMMA PermitInvStep ==
    ASSUME IInv, NEW g \in Goroutine, Step(g)
    PROVE  PermitInv'
<1>1. SUFFICES ASSUME NEW h \in Goroutine, pc'[h] = "read", call'[h].op = "Permit"
               PROVE  \A j \in 1 .. at'[h] - 1 : Covers(Map', call'[h].perms[j])
    BY DEF PermitInv, Covers, Held
<1>2. TypeOK /\ PermitInv
    BY DEF IInv
<1>3. CASE h # g
    <2>1. pc[h] = "read" /\ call'[h] = call[h] /\ at'[h] = at[h]
        BY <1>1, <1>2, <1>3, OthersKeep
    <2>2. Initialised
        BY <2>1 DEF IInv, InitialisedInv, PointerOf, Ready
    <2>3. ~Store(g) /\ ~Cache(g)
        BY <1>3, <2>1, IterationAlone DEF Store, Cache, At, Inside
    <2>4. Map' = Map
        BY <2>2, <2>3, MapsKept
    <2> QED
        BY <1>1, <1>2, <2>1, <2>4 DEF PermitInv
<1>4. CASE h = g
    <2>1. CASE Permit(g)
        <3>1. /\ pc[g] = "read" /\ call[g].op = "Permit" /\ call' = call /\ Map' = Map
            BY <2>1 DEF Permit, At, Answer, heap, Map
        <3>2. /\ Matched(Map, call[g].perms[at[g]])
              /\ at'[g] = at[g] + 1
            <4>1. pc'[g] = "read"
                BY <1>1, <1>4
            <4>2. \A b \in BOOLEAN : ~Answer(g, Permitted(b), "unlock")
                BY <1>2, <4>1, AnswerGoes
            <4>3. Matched(Map, call[g].perms[at[g]]) /\ Goto(g, "read", at[g] + 1)
                BY <2>1, <4>2 DEF Permit, Map
            <4> QED
                BY <1>2, <4>3, GoesTo
        <3>3. Covers(Map, call[g].perms[at[g]])
            BY <3>2, MatchedIsCovers
        <3>4. at[g] \in Nat
            BY <1>2 DEF TypeOK
        <3>5. \A j \in 1 .. at'[g] - 1 : j = at[g] \/ j \in 1 .. at[g] - 1
            BY <3>2, <3>4
        <3> QED
            BY <1>2, <1>4, <3>1, <3>3, <3>5 DEF PermitInv
    <2>2. CASE Enter(g)
        <3>1. at'[g] = 1
            BY <1>2, <2>2, GoesTo DEF Enter
        <3> QED
            BY <1>4, <3>1
    <2>3. CASE ~Permit(g) /\ ~Enter(g)
        <3>1. pc'[g] # "read"
            <4>1. CASE CheckField(g) \/ MakeField(g)
                <5>1. at[g] \in DOMAIN Fields
                    BY <4>1 DEF CheckField, MakeField, At, IInv, InitialisedInv, PointerOf
                <5> QED
                    BY <1>2, <4>1, <5>1, NextFieldGoes, GoesTo DEF CheckField, MakeField
            <4>2. CASE Begin(g) \/ NoArguments(g) \/ Lock(g)
                BY <1>2, <4>2, Destinations
            <4>3. CASE Store(g) \/ Cache(g)
                BY <4>3, StoreDoes, CacheDoes
            <4>4. CASE Permissions(g) \/ Get(g) \/ Unlock(g) \/ Return(g)
                BY <1>2, <4>4, GoesTo, AnswerGoes DEF Permissions, Get, Unlock, Return
            <4> QED
                BY <2>3, <4>1, <4>2, <4>3, <4>4 DEF Step
        <3> QED
            BY <1>1, <1>4, <3>1
    <2> QED
        BY <2>1, <2>2, <2>3
<1> QED
    BY <1>3, <1>4

-----------------------------------------------------------------------------
(***************************************************************************)
(* The theorems.  They are about every way a role object may come to be    *)
(* shared but one, a zero StdRole that several goroutines use at once.     *)
(***************************************************************************)
LEMMA InitHolds ==
    ASSUME "Zero" \notin Starts
    PROVE  Init => IInv
<1> SUFFICES ASSUME Init
             PROVE  IInv
    OBVIOUS
<1> DEFINE kinds == {"mutex", "permissions", "filterPermissions"}
           first == IF start = "NewRole" THEN New ELSE Nil
<1>1. field = [f \in kinds |-> first] /\ (start = "NewRole" => first = New)
    BY DEF Init
<1>2. New \in Owner /\ New # Nil
    BY OwnerAssumption DEF Owner
<1>3. first \in PointerType
    BY <1>2 DEF PointerType
<1>4. DOMAIN EmptyMap = {} /\ EmptyMap \in [DOMAIN EmptyMap -> Permission]
    BY DEF EmptyMap
<1>5. M!Free \in M!Type(Goroutine)
    BY DEF M!Free, M!Type
<1>6. TypeOK
    <2> HIDE DEF first
    <2>1. field \in [kinds -> PointerType]
        BY <1>1, <1>3
    <2>2. \A o \in Owner : pmap[o] = EmptyMap /\ fmap[o] = EmptyMap
        BY DEF Init
    <2>3. mu \in [Goroutine -> PointerType]
        BY DEF Init, PointerType
    <2>4. \A o \in Owner : \A m \in {pmap[o], fmap[o]} :
              m \in [DOMAIN m -> Permission] /\ \A id \in DOMAIN m : IdOfPerm[m[id]] = id
        BY <1>4, <2>2
    <2> QED
        BY <1>5, <2>1, <2>3, <2>4 DEF Init, TypeOK, Steps
<1>7. InitialisedInv
    <2>1. start = "NewRole" => Initialised
        BY <1>1, <1>2 DEF Initialised
    <2>2. \A g \in Goroutine : PointerOf(g)
        BY DEF Init, PointerOf, Ready
    <2> QED
        BY <2>1, <2>2 DEF Init, InitialisedInv
<1>8. ControlInv
    BY DEF Init, ControlInv, ControlOf, Ready, Locking
<1>9. MutexInv
    <2>1. ASSUME Initialised
          PROVE  Mutex = M!Free
        <3>1. field["mutex"] \in Owner
            BY <1>6, <2>1, MutexIsOne
        <3> QED
            BY <3>1 DEF Init, Mutex
    <2>2. ASSUME Initialised
          PROVE  Mutex.writer = {} /\ Mutex.readers = {} /\ Mutex.waiting = {}
        BY <2>1, <2>2 DEF M!Free
    <2> QED
        BY <2>2 DEF Init, MutexInv, MutexOf, Locking, Inside
<1>10. CacheInv
    <2>1. ASSUME Initialised
          PROVE  Map = EmptyMap /\ FilterMap = EmptyMap
        <3>1. field["permissions"] \in Owner /\ field["filterPermissions"] \in Owner
            BY <1>6, <2>1, MutexIsOne
        <3> QED
            BY <3>1 DEF Init, Map, FilterMap
    <2>2. \A g \in Goroutine : pc[g] # "cache"
        BY DEF Init
    <2>3. ASSUME Initialised, NEW id \in PermID
          PROVE  Agree(id)
        BY <1>4, <2>1, <2>3 DEF Agree
    <2> QED
        BY <2>2, <2>3 DEF CacheInv
<1>11. PermitInv /\ NoFatalUnlock
    BY DEF Init, PermitInv, NoFatalUnlock
<1> QED
    BY <1>6, <1>7, <1>8, <1>9, <1>10, <1>11 DEF IInv

\* A step that changes nothing keeps the invariant.
LEMMA InvStutter ==
    ASSUME IInv, UNCHANGED svars
    PROVE  IInv'
<1>1. TypeOK'
    BY DEF IInv, TypeOK, svars
<1>2. Initialised' <=> Initialised
    BY DEF Initialised, svars
<1>3. InitialisedInv'
    BY <1>2 DEF IInv, InitialisedInv, PointerOf, svars
<1>4. ControlInv'
    BY DEF IInv, ControlInv, ControlOf, svars
<1>5. MutexInv'
    BY <1>2 DEF IInv, MutexInv, MutexOf, Mutex, Exclusive, svars
<1>6. CacheInv'
    BY <1>2 DEF IInv, CacheInv, StoredOf, Agree, Map, FilterMap, svars
<1>7. PermitInv' /\ NoFatalUnlock'
    BY DEF IInv, PermitInv, NoFatalUnlock, Map, svars
<1> QED
    BY <1>1, <1>3, <1>4, <1>5, <1>6, <1>7 DEF IInv

\* The invariant is inductive, unless the object is used as a zero value.
LEMMA InvStep ==
    ASSUME "Zero" \notin Starts
    PROVE  IInv /\ [Next]_svars => IInv'
<1>1. ASSUME IInv, NEW g \in Goroutine, Step(g)
      PROVE  IInv'
    BY <1>1, TypeStep, InitialisedStep, ControlStep, MutexStep, CacheStep, PermitInvStep,
       NoFatalUnlockStep DEF IInv
<1>2. IInv /\ Next => IInv'
    BY <1>1 DEF Next, Step
<1> QED
    BY <1>2, InvStutter

\* The invariant holds in every state of a role object that is not a zero
\* StdRole shared from its first call on.
THEOREM InvAlways ==
    ASSUME "Zero" \notin Starts
    PROVE  Spec => []IInv
<1>1. Init => IInv
    BY InitHolds
<1>2. IInv /\ [Next]_svars => IInv'
    BY InvStep
<1> QED
    BY <1>1, <1>2, PTL DEF Spec

\* Every variable of role.go's object keeps its kind, and its maps stay keyed
\* by the ids of the permissions in them.
THEOREM TypeCorrect ==
    ASSUME "Zero" \notin Starts
    PROVE  Spec => []TypeOK
<1>1. IInv => TypeOK
    BY DEF IInv
<1> QED
    BY <1>1, InvAlways, PTL

\* No goroutine unlocks a mutex that it has not locked (role.go:45, 78): what
\* the run role_zero finds needs a zero StdRole shared from its first call on.
THEOREM NoFatalUnlockAlways ==
    ASSUME "Zero" \notin Starts
    PROVE  Spec => []NoFatalUnlock
<1>1. IInv => NoFatalUnlock
    BY DEF IInv
<1> QED
    BY <1>1, InvAlways, PTL

\* Between the critical sections of Assign and Revoke the filter cache is the
\* part of the permissions with a CEL filter, whatever was assigned over what
\* (role.go:69-76, 126-129).
THEOREM CacheMatchesAlways ==
    ASSUME "Zero" \notin Starts
    PROVE  Spec => []CacheMatches
<1>1. IInv => CacheMatches
    <2> SUFFICES ASSUME IInv, field["permissions"] # Nil, field["filterPermissions"] # Nil,
                        InLoop = {}
                 PROVE  FilterMap = [id \in { x \in DOMAIN Map : Map[x] \in HasCEL } |-> Map[id]]
        BY DEF CacheMatches, Map, FilterMap
    <2>1. field["permissions"] \in Owner /\ field["filterPermissions"] \in Owner
        BY DEF IInv, TypeOK, PointerType
    <2>2. Keyed(Map) /\ Keyed(FilterMap)
        BY <2>1, TypeIsKeyed DEF IInv, Map, FilterMap
    <2>3. \A id \in PermID : Agree(id)
        <3>1. CASE Initialised
            BY <3>1 DEF IInv, CacheInv, InLoop
        <3>2. CASE ~Initialised
            <4>1. Map = EmptyMap /\ FilterMap = EmptyMap
                BY <2>1, <3>2 DEF IInv, InitialisedInv, Map, FilterMap
            <4>2. DOMAIN Map = {} /\ DOMAIN FilterMap = {}
                BY <4>1 DEF EmptyMap
            <4> QED
                BY <4>2 DEF Agree
        <3> QED
            BY <3>1, <3>2
    <2>4. DOMAIN Map \subseteq PermID /\ DOMAIN FilterMap \subseteq PermID
        BY <2>2, PermissionAssumption DEF Keyed
    <2>5. DOMAIN FilterMap = { x \in DOMAIN Map : Map[x] \in HasCEL }
        BY <2>3, <2>4 DEF Agree
    <2>6. \A id \in DOMAIN FilterMap : FilterMap[id] = Map[id]
        BY <2>3, <2>4 DEF Agree
    <2>7. FilterMap = [id \in DOMAIN FilterMap |-> FilterMap[id]]
        BY <2>2 DEF Keyed
    <2> QED
        BY <2>5, <2>6, <2>7
<1> QED
    BY <1>1, InvAlways, PTL

\* No goroutine writes a pointer or a map of the role while another is about
\* to read or write it, as long as nobody ranges over the map that
\* FilterPermissions hands out (role.go:62-158; the run role_range shows what
\* happens if somebody does).
THEOREM NoDataRaceAlways ==
    ASSUME "Zero" \notin Starts, \A q \in RoleRequests : q.op # "FilterPermissions"
    PROVE  Spec => []NoDataRace
<1>1. IInv => NoDataRace
    <2> SUFFICES ASSUME IInv, NEW g \in Goroutine, NEW h \in Goroutine, g # h
                 PROVE  Writes(g) \cap (Reads(h) \cup Writes(h)) = {}
        BY DEF NoDataRace
    <2>1. CASE pc[g] = "make"
        <3>1. pc[h] = "idle"
            BY <2>1, MakerAlone
        <3>2. Reads(h) = {} /\ Writes(h) = {}
            BY <3>1 DEF Reads, Writes
        <3> QED
            BY <3>2
    <2>2. CASE pc[g] \in {"store", "cache"}
        <3>1. pc[h] \notin Inside /\ Initialised
            BY <2>2, IterationAlone
        <3>2. pc[h] # "range"
            <4>1. call[h] \in RoleRequests \cup {NoCall} /\ (pc[h] = "range" => call[h].op = "FilterPermissions")
                BY DEF IInv, TypeOK, ControlInv, ControlOf
            <4> QED
                BY <4>1 DEF NoCall
        <3>3. pc[h] # "make"
            BY <3>1, MakerAlone
        <3>4. Writes(h) = {}
            BY <3>1, <3>3 DEF Writes, Inside
        <3>5. \A x \in Reads(h) : x[1] = "field"
            BY <3>1, <3>2 DEF Reads, Inside
        <3>6. \A x \in Writes(g) : x[1] \in {"pmap", "fmap"}
            BY <2>2 DEF Writes
        <3> QED
            BY <3>4, <3>5, <3>6
    <2>3. CASE pc[g] \notin {"make", "store", "cache"}
        BY <2>3 DEF Writes
    <2> QED
        BY <2>1, <2>2, <2>3
<1> QED
    BY <1>1, InvAlways, PTL

-----------------------------------------------------------------------------
(***************************************************************************)
(* Every call on a role object takes effect at one moment, with all the    *)
(* permissions it names at once: each step of StdRole is, under its        *)
(* refinement mapping, a step of RoleContract or changes nothing that the  *)
(* contract speaks of.                                                     *)
(***************************************************************************)
(***************************************************************************)
(* The contract's operators are the same operators.                        *)
(***************************************************************************)
LEMMA SameMaps ==
    ASSUME NEW m, NEW ps, NEW i
    PROVE  /\ Contract!AssignFrom(m, ps, i) = AssignFrom(m, ps, i)
           /\ Contract!RevokeFrom(m, ps, i) = RevokeFrom(m, ps, i)
           /\ Contract!CoversAll(m, ps) <=> CoversAll(m, ps)
           /\ Contract!Held(m) = Held(m)
<1>1. Contract!AssignFrom(m, ps, i) = AssignFrom(m, ps, i)
    BY DEF Contract!AssignFrom, AssignFrom
<1>2. Contract!RevokeFrom(m, ps, i) = RevokeFrom(m, ps, i)
    BY DEF Contract!RevokeFrom, RevokeFrom
<1>3. Contract!CoversAll(m, ps) <=> CoversAll(m, ps)
    BY DEF Contract!CoversAll, CoversAll, Contract!Covers, Covers, Contract!Held, Held
<1> QED
    BY <1>1, <1>2, <1>3 DEF Contract!Held, Held

\* The contract's values are the role's own.
LEMMA SameAnswers ==
    /\ Contract!NoCall = NoCall /\ Contract!NoReply = NoReply /\ Contract!Ok = Ok
    /\ \A x : /\ Contract!Permitted(x) = Permitted(x)
              /\ Contract!Listed(x) = Listed(x) /\ Contract!Found(x) = Found(x)
BY DEF Contract!NoCall, NoCall, Contract!NoReply, NoReply, Contract!Ok, Ok,
       Contract!Permitted, Permitted, Contract!Listed, Listed, Contract!Found, Found

-----------------------------------------------------------------------------
(***************************************************************************)
(* What the mapping makes of the map and of the answers.                   *)
(***************************************************************************)
\* The map that the iterations which g has still to run leave.
Finished(g, i) ==
    IF call[g].op = "Assign" THEN AssignFrom(Map, call[g].perms, i)
                             ELSE RevokeFrom(Map, call[g].perms, i)

EffectiveInv ==
    /\ Initialised => Stored = Map
    /\ ~Initialised => Stored = EmptyMap
    /\ InLoop = {} => EffectiveMap = Stored
    /\ \A g \in Goroutine :
          /\ pc[g] = "store" => EffectiveMap = Finished(g, at[g])
          /\ pc[g] = "cache" => EffectiveMap = Finished(g, at[g] + 1)
    /\ Stored = [id \in DOMAIN Stored |-> Stored[id]]
    /\ EffectiveMap = [id \in DOMAIN EffectiveMap |-> EffectiveMap[id]]

\* What an edit leaves is a function.
LEMMA EditsAreMaps ==
    ASSUME NEW m, NEW ps, NEW i
    PROVE  /\ AssignFrom(m, ps, i) = [id \in DOMAIN AssignFrom(m, ps, i) |-> AssignFrom(m, ps, i)[id]]
           /\ RevokeFrom(m, ps, i) = [id \in DOMAIN RevokeFrom(m, ps, i) |-> RevokeFrom(m, ps, i)[id]]
BY DEF AssignFrom, RevokeFrom

\* The state the contract is shown is the role's, with the edit in
\* progress done.
LEMMA EffectiveIs == IInv => EffectiveInv
<1> SUFFICES ASSUME IInv
             PROVE  EffectiveInv
    OBVIOUS
<1>1. Initialised => Stored = Map
    BY MutexIsOne, OwnerAssumption DEF IInv, Stored, Map
<1>2. ~Initialised => Stored = EmptyMap
    BY DEF IInv, TypeOK, InitialisedInv, Stored, PointerType
<1>3. InLoop = {} => EffectiveMap = Stored
    BY DEF EffectiveMap
<1>4. Stored = [id \in DOMAIN Stored |-> Stored[id]]
    <2>1. Initialised => Keyed(Stored)
        BY <1>1, MutexIsOne, TypeIsKeyed DEF IInv, Map
    <2>2. EmptyMap = [id \in DOMAIN EmptyMap |-> EmptyMap[id]]
        BY DEF EmptyMap
    <2> QED
        BY <1>2, <2>1, <2>2 DEF Keyed
<1>5. ASSUME NEW g \in Goroutine, pc[g] \in {"store", "cache"}
      PROVE  /\ pc[g] = "store" => EffectiveMap = Finished(g, at[g])
             /\ pc[g] = "cache" => EffectiveMap = Finished(g, at[g] + 1)
    <2>1. InLoop = {g}
        BY <1>5, IterationAlone DEF InLoop, Inside
    <2>2. Stored = Map
        BY <1>1, <1>5, IterationAlone
    <2>3. EffectiveMap =
            LET h == CHOOSE x \in {g} : TRUE
                next == IF pc[h] = "store" THEN at[h] ELSE at[h] + 1
            IN  IF call[h].op = "Assign" THEN AssignFrom(Map, call[h].perms, next)
                                         ELSE RevokeFrom(Map, call[h].perms, next)
        BY <2>1, <2>2 DEF EffectiveMap
    <2>4. (CHOOSE x \in {g} : TRUE) = g
        OBVIOUS
    <2>5. EffectiveMap = Finished(g, IF pc[g] = "store" THEN at[g] ELSE at[g] + 1)
        BY <2>3, <2>4 DEF Finished
    <2> QED
        BY <2>5
<1>6. EffectiveMap = [id \in DOMAIN EffectiveMap |-> EffectiveMap[id]]
    <2>1. CASE InLoop = {}
        BY <1>3, <1>4, <2>1
    <2>2. ASSUME NEW g \in Goroutine, pc[g] \in {"store", "cache"}
          PROVE  EffectiveMap = [id \in DOMAIN EffectiveMap |-> EffectiveMap[id]]
        <3>1. PICK i : EffectiveMap = Finished(g, i)
            BY <1>5, <2>2
        <3> QED
            BY <3>1, EditsAreMaps DEF Finished
    <2> QED
        BY <2>1, <2>2 DEF InLoop
<1> QED
    BY <1>1, <1>2, <1>3, <1>4, <1>5, <1>6 DEF EffectiveInv

\* The same after a step.
LEMMA EffectiveNext == IInv' => EffectiveInv'
BY EffectiveIs, PTL

\* A step outside a loop leaves the mapped map as it is.
LEMMA EffectiveKept ==
    ASSUME IInv, IInv', NEW g \in Goroutine, Step(g),
           pc[g] \notin {"store", "cache"}, pc'[g] \notin {"store", "cache"}
    PROVE  EffectiveMap' = EffectiveMap
<1>1. EffectiveInv /\ EffectiveInv' /\ TypeOK
    BY EffectiveIs, EffectiveNext DEF IInv
<1>2. \A h \in Goroutine : h # g =>
         pc'[h] = pc[h] /\ at'[h] = at[h] /\ call'[h] = call[h]
    BY <1>1, OthersKeep
<1>3. ~Store(g) /\ ~Cache(g)
    BY DEF Store, Cache, At
<1>4. CASE ~Initialised
    <2>1. \A h \in Goroutine : pc[h] \notin {"store", "cache"}
        BY <1>4, IterationAlone
    <2>2. InLoop = {} /\ InLoop' = {}
        BY <1>2, <2>1 DEF InLoop
    <2>3. Stored' = EmptyMap
        <3>1. CASE ~Initialised'
            BY <1>1, <3>1 DEF EffectiveInv
        <3>2. CASE Initialised'
            <4>1. MakeField(g)
                BY <1>1, <1>4, <3>2, PointersStay DEF Initialised
            <4>2. pc[g] = "make" /\ UNCHANGED pmap
                BY <4>1 DEF MakeField, At
            <4>3. field'["permissions"] \in Owner
                BY <3>2 DEF IInv, TypeOK, Initialised, PointerType
            <4>4. Map' = EmptyMap
                BY <4>2, <4>3, MakerAlone DEF Map
            <4> QED
                BY <1>1, <3>2, <4>4 DEF EffectiveInv
        <3> QED
            BY <3>1, <3>2
    <2> QED
        BY <1>1, <1>4, <2>2, <2>3 DEF EffectiveInv
<1>5. CASE Initialised
    <2>1. Map' = Map /\ Initialised'
        BY <1>3, <1>5, MapsKept, PointersStay
    <2>2. CASE InLoop = {}
        <3>1. InLoop' = {}
            BY <1>2, <2>2 DEF InLoop
        <3> QED
            BY <1>1, <1>5, <2>1, <2>2, <3>1 DEF EffectiveInv
    <2>3. ASSUME NEW h \in Goroutine, pc[h] \in {"store", "cache"}
          PROVE  EffectiveMap' = EffectiveMap
        <3>1. pc'[h] = pc[h] /\ at'[h] = at[h] /\ call'[h] = call[h]
            BY <1>2, <2>3
        <3>2. \A i : Finished(h, i)' = Finished(h, i)
            BY <2>1, <3>1 DEF Finished
        <3> QED
            BY <1>1, <2>3, <3>1, <3>2 DEF EffectiveInv
    <2> QED
        BY <2>2, <2>3 DEF InLoop
<1> QED
    BY <1>4, <1>5

\* The mapped answer changes for the goroutine that takes the step only.
LEMMA EffectiveReplyStep ==
    ASSUME IInv, NEW g \in Goroutine, Step(g)
    PROVE  /\ EffectiveReply' =
                [EffectiveReply EXCEPT ![g] =
                    IF pc'[g] \in {"store", "cache"} THEN Ok ELSE reply'[g]]
           /\ EffectiveReply[g] = IF pc[g] \in {"store", "cache"} THEN Ok ELSE reply[g]
<1>1. \A h \in Goroutine : h # g => pc'[h] = pc[h] /\ reply'[h] = reply[h]
    BY OthersKeep DEF IInv
<1> QED
    BY <1>1 DEF EffectiveReply

\* Reading under the lock, there is no loop.
LEMMA ReaderSees ==
    ASSUME IInv, NEW g \in Goroutine, pc[g] = "read"
    PROVE  EffectiveMap = Map /\ EffectiveReply[g] = NoReply
<1>1. Initialised
    BY DEF IInv, InitialisedInv, PointerOf, Ready
<1>2. \A h \in Goroutine : pc[h] \notin {"store", "cache"}
    <2> SUFFICES ASSUME NEW h \in Goroutine, pc[h] \in {"store", "cache"}
                 PROVE  FALSE
        OBVIOUS
    <2> QED
        BY IterationAlone DEF Inside
<1>3. InLoop = {}
    BY <1>2 DEF InLoop
<1>4. reply[g] = NoReply
    BY DEF IInv, ControlInv, ControlOf
<1> QED
    BY <1>1, <1>3, <1>4, EffectiveIs DEF EffectiveInv, EffectiveReply

-----------------------------------------------------------------------------
(***************************************************************************)
(* Each step is the contract's, or changes nothing there.                  *)
(***************************************************************************)
\* A step that neither answers nor enters or leaves a loop shows nothing.
LEMMA Silent ==
    ASSUME IInv, IInv', NEW g \in Goroutine, Step(g),
           pc[g] \notin {"store", "cache"}, pc'[g] \notin {"store", "cache"},
           UNCHANGED <<call, reply>>
    PROVE  UNCHANGED Contract!rvars
<1>1. EffectiveMap' = EffectiveMap
    BY EffectiveKept
<1>2. EffectiveReply' = [EffectiveReply EXCEPT ![g] = EffectiveReply[g]]
    BY EffectiveReplyStep
<1>3. EffectiveReply' = EffectiveReply
    BY <1>2 DEF EffectiveReply
<1> QED
    BY <1>1, <1>3 DEF Contract!rvars

\* A step outside a loop that answers r.
LEMMA AnswerMaps ==
    ASSUME IInv, IInv', NEW g \in Goroutine, Step(g), NEW r, NEW step,
           pc[g] \notin {"store", "cache"}, step \notin {"store", "cache"}, Answer(g, r, step)
    PROVE  /\ EffectiveMap' = EffectiveMap
           /\ Contract!Answer(g, r)
<1>1. pc'[g] = step /\ reply'[g] = r /\ call' = call
    BY AnswerGoes DEF IInv
<1>2. EffectiveMap' = EffectiveMap
    BY <1>1, EffectiveKept
<1>3. EffectiveReply' = [EffectiveReply EXCEPT ![g] = r]
    BY <1>1, EffectiveReplyStep
<1> QED
    BY <1>1, <1>2, <1>3 DEF Contract!Answer

\* The start of a call is the contract's.
LEMMA BeginMaps ==
    ASSUME IInv, IInv', NEW g \in Goroutine, Begin(g)
    PROVE  Contract!Invoke(g)
<1>1. Step(g) /\ pc[g] = "idle" /\ pc'[g] \in {"noargs", "check"}
    BY Destinations DEF IInv, Step
<1>2. reply' = reply /\ \E q \in RoleRequests : call' = [call EXCEPT ![g] = q]
    BY DEF Begin
<1>3. EffectiveMap' = EffectiveMap
    BY <1>1, EffectiveKept
<1>4. EffectiveReply' = [EffectiveReply EXCEPT ![g] = EffectiveReply[g]]
    BY <1>1, <1>2, EffectiveReplyStep
<1>5. EffectiveReply' = EffectiveReply
    BY <1>4 DEF EffectiveReply
<1>6. call[g] = Contract!NoCall
    BY <1>1, SameAnswers DEF IInv, ControlInv, ControlOf
<1> QED
    BY <1>2, <1>3, <1>5, <1>6 DEF Contract!Invoke

\* A call without arguments answers the contract's way.
LEMMA NoArgumentsMaps ==
    ASSUME IInv, IInv', NEW g \in Goroutine, NoArguments(g)
    PROVE  Contract!Assign(g) \/ Contract!Revoke(g) \/ Contract!Permit(g)
<1> DEFINE r == IF call[g].op = "Permit" THEN Permitted(FALSE) ELSE Ok
<1>1. Step(g) /\ pc[g] = "noargs" /\ Answer(g, r, "return")
    BY DEF NoArguments, At, Step
<1>2. EffectiveMap' = EffectiveMap /\ Contract!Answer(g, r)
    <2> HIDE DEF r
    <2> QED
        BY <1>1, AnswerMaps
<1>3. call[g].op \in {"Assign", "Revoke", "Permit"} /\ call[g].perms = <<>> /\ reply[g] = NoReply
    BY <1>1 DEF IInv, ControlInv, ControlOf
<1>4. EffectiveReply[g] = Contract!NoReply
    BY <1>1, <1>3, SameAnswers DEF EffectiveReply
<1>5. /\ Contract!AssignFrom(EffectiveMap, call[g].perms, 1) = EffectiveMap
      /\ Contract!RevokeFrom(EffectiveMap, call[g].perms, 1) = EffectiveMap
    <2> DEFINE m == EffectiveMap
    <2>1. m = [id \in DOMAIN m |-> m[id]]
        BY EffectiveIs DEF EffectiveInv
    <2>2. 1 .. Len(<<>>) = {}
        OBVIOUS
    <2> HIDE DEF m
    <2>3. AssignFrom(m, <<>>, 1) = m /\ RevokeFrom(m, <<>>, 1) = m
        BY <2>1, <2>2, NothingToDo
    <2> QED
        BY <1>3, <2>3, SameMaps DEF m
<1>6. ~Contract!CoversAll(EffectiveMap, call[g].perms)
    BY <1>3 DEF Contract!CoversAll
<1>7. CASE call[g].op = "Assign"
    BY <1>2, <1>4, <1>5, <1>7, SameAnswers DEF Contract!Assign, Contract!Pending
<1>8. CASE call[g].op = "Revoke"
    BY <1>2, <1>4, <1>5, <1>8, SameAnswers DEF Contract!Revoke, Contract!Pending
<1>9. CASE call[g].op = "Permit"
    <2>1. Contract!Answer(g, Contract!Permitted(FALSE))
        BY <1>2, <1>9, SameAnswers
    <2>2. Contract!CoversAll(EffectiveMap, call[g].perms) = FALSE
        BY <1>6 DEF Contract!CoversAll
    <2> QED
        BY <1>2, <1>4, <1>9, <2>1, <2>2 DEF Contract!Permit, Contract!Pending
<1> QED
    BY <1>3, <1>7, <1>8, <1>9

\* Initialising and taking the lock show nothing to the contract.
LEMMA InitMethodMaps ==
    ASSUME IInv, IInv', NEW g \in Goroutine, CheckField(g) \/ MakeField(g) \/ Lock(g)
    PROVE  UNCHANGED Contract!rvars
<1>1. Step(g) /\ pc[g] \notin {"store", "cache"} /\ UNCHANGED <<call, reply>> /\ TypeOK
    BY DEF CheckField, MakeField, Lock, At, Step, IInv
<1>2. pc'[g] \notin {"store", "cache"}
    <2>1. CASE CheckField(g) \/ MakeField(g)
        <3>1. at[g] \in DOMAIN Fields
            BY <2>1 DEF CheckField, MakeField, At, IInv, InitialisedInv, PointerOf
        <3> QED
            BY <1>1, <2>1, <3>1, NextFieldGoes, GoesTo DEF CheckField, MakeField
    <2>2. CASE Lock(g)
        BY <1>1, <2>2, Destinations
    <2> QED
        BY <2>1, <2>2
<1> QED
    BY <1>1, <1>2, Silent

\* Assign and Revoke take effect when they own the lock.
LEMMA EnterMaps ==
    ASSUME IInv, IInv', NEW g \in Goroutine, Enter(g)
    PROVE  \/ Contract!Assign(g) \/ Contract!Revoke(g)
           \/ UNCHANGED Contract!rvars
<1>1. /\ Step(g) /\ pc[g] = "wait" /\ TypeOK /\ UNCHANGED <<call, reply>>
      /\ pc'[g] = (IF call[g].op \in {"Assign", "Revoke"} THEN "store" ELSE "read")
      /\ at'[g] = 1
    BY GoesTo DEF Enter, At, Step, IInv
<1>2. Initialised /\ reply[g] = NoReply
    BY <1>1 DEF IInv, InitialisedInv, PointerOf, ControlInv, ControlOf, Ready
<1>3. CASE call[g].op \in {"Assign", "Revoke"}
    <2>1. MutexOf(g) /\ Exclusive(g)
        BY <1>2, <1>3 DEF IInv, MutexInv, Exclusive
    <2>2. Mutex.readers = {} /\ g \in Mutex.writer
        BY <1>1, <2>1 DEF MutexOf, Locking, Enter, Mutex, M!Owns
    <2>3. \A h \in Goroutine : pc[h] \notin {"store", "cache"}
        <3> SUFFICES ASSUME NEW h \in Goroutine, pc[h] \in {"store", "cache"}
                     PROVE  FALSE
            OBVIOUS
        <3>1. h # g /\ Exclusive(h)
            BY <1>1, IterationAlone DEF Exclusive
        <3>2. h \in Mutex.writer
            BY <1>2, <3>1 DEF IInv, MutexInv, MutexOf, Locking
        <3> QED
            BY <1>2, <2>2, <3>1, <3>2 DEF IInv, MutexInv
    <2>4. EffectiveMap = Map
        BY <1>2, <2>3, EffectiveIs DEF EffectiveInv, InLoop
    <2>5. EffectiveMap' = Finished(g, 1)'
        <3>1. pc'[g] = "store"
            BY <1>1, <1>3
        <3>2. EffectiveMap' = Finished(g, at[g])'
            BY <3>1, EffectiveNext DEF EffectiveInv
        <3> QED
            BY <1>1, <3>2 DEF Finished
    <2>6. Map' = Map /\ call' = call
        BY <1>1, <1>2, MapsKept DEF Enter, Store, Cache, At
    <2>7. /\ call[g].op = "Assign" => EffectiveMap' = AssignFrom(EffectiveMap, call[g].perms, 1)
          /\ call[g].op = "Revoke" => EffectiveMap' = RevokeFrom(EffectiveMap, call[g].perms, 1)
        BY <2>4, <2>5, <2>6 DEF Finished
    <2>8. EffectiveReply' = [EffectiveReply EXCEPT ![g] = Ok] /\ EffectiveReply[g] = NoReply
        BY <1>1, <1>2, <1>3, EffectiveReplyStep
    <2> QED
        BY <1>3, <2>6, <2>7, <2>8, SameMaps, SameAnswers DEF Contract!Assign, Contract!Revoke,
           Contract!Pending, Contract!Answer
<1>4. CASE call[g].op \notin {"Assign", "Revoke"}
    BY <1>1, <1>4, Silent
<1> QED
    BY <1>3, <1>4

\* The iterations of a loop are the rest of an edit that has taken effect.
LEMMA StoreMaps ==
    ASSUME IInv, IInv', NEW g \in Goroutine, Store(g)
    PROVE  UNCHANGED Contract!rvars
<1> DEFINE ps == call[g].perms
           p == ps[at[g]]
           i == at[g]
<1>1. /\ Map' = IF call[g].op = "Assign" THEN AssignFrom(Map, <<p>>, 1)
                                         ELSE RevokeFrom(Map, <<p>>, 1)
      /\ pc[g] = "store" /\ pc'[g] = "cache" /\ at'[g] = i /\ call' = call /\ reply' = reply
    BY StoreDoes
<1>2. ps \in Seq(Permission) /\ i \in DOMAIN ps
    BY <1>1, LoopArgument DEF IInv
<1>3. EffectiveMap = Finished(g, i) /\ EffectiveMap' = Finished(g, at[g] + 1)'
    BY <1>1, EffectiveIs, EffectiveNext DEF EffectiveInv
<1>4. EffectiveMap' = IF call[g].op = "Assign" THEN AssignFrom(Map', ps, i + 1)
                                               ELSE RevokeFrom(Map', ps, i + 1)
    BY <1>1, <1>3 DEF Finished
<1>5. EffectiveMap = IF call[g].op = "Assign" THEN AssignFrom(Map, ps, i)
                                              ELSE RevokeFrom(Map, ps, i)
    BY <1>3 DEF Finished
<1>6. /\ AssignFrom(AssignFrom(Map, <<p>>, 1), ps, i + 1) = AssignFrom(Map, ps, i)
      /\ RevokeFrom(RevokeFrom(Map, <<p>>, 1), ps, i + 1) = RevokeFrom(Map, ps, i)
    BY <1>2, AssignStep, RevokeStep
<1> HIDE DEF ps, p, i
<1>7. EffectiveMap' = EffectiveMap
    BY <1>1, <1>4, <1>5, <1>6
<1>8. EffectiveReply' = [EffectiveReply EXCEPT ![g] = EffectiveReply[g]]
    <2>1. Step(g)
        BY DEF Step
    <2> QED
        BY <1>1, <2>1, EffectiveReplyStep
<1>9. EffectiveReply' = EffectiveReply
    BY <1>8 DEF EffectiveReply
<1> QED
    BY <1>1, <1>7, <1>9 DEF Contract!rvars

\* The update of the filter map shows nothing to the contract.
LEMMA CacheMaps ==
    ASSUME IInv, IInv', NEW g \in Goroutine, Cache(g)
    PROVE  UNCHANGED Contract!rvars
<1> DEFINE ps == call[g].perms
           i == at[g]
<1>1. /\ Map' = Map /\ call' = call /\ pc[g] = "cache"
      /\ \/ /\ i < Len(ps)
            /\ pc'[g] = "store" /\ at'[g] = i + 1 /\ reply' = reply
         \/ /\ ~(i < Len(ps))
            /\ pc'[g] = "unlock" /\ reply' = [reply EXCEPT ![g] = Ok]
    BY CacheDoes
<1>2. i \in 1 .. Len(ps) /\ ps \in Seq(Permission) /\ Len(ps) \in Nat
    BY <1>1, LoopArgument, LenProperties DEF IInv
<1>3. EffectiveMap = Finished(g, i + 1) /\ Initialised
    BY <1>1, EffectiveIs, IterationAlone DEF EffectiveInv
<1>4. Step(g) /\ TypeOK
    BY DEF Step, IInv
<1>5. EffectiveMap' = EffectiveMap
    <2>1. CASE i < Len(ps) /\ pc'[g] = "store" /\ at'[g] = i + 1
        <3>1. EffectiveMap' = Finished(g, at[g])'
            BY <2>1, EffectiveNext DEF EffectiveInv
        <3>2. Finished(g, at[g])' = Finished(g, i + 1)
            BY <1>1, <2>1 DEF Finished
        <3> QED
            BY <1>3, <3>1, <3>2
    <2>2. CASE ~(i < Len(ps)) /\ pc'[g] = "unlock"
        <3>1. i + 1 .. Len(ps) = {} /\ i + 1 \in Nat
            BY <1>2, <2>2
        <3>2. Map = [id \in DOMAIN Map |-> Map[id]]
            BY <1>3, EffectiveIs DEF EffectiveInv
        <3>3. Finished(g, i + 1) = Map
            <4> HIDE DEF i
            <4>1. AssignFrom(Map, ps, i + 1) = Map /\ RevokeFrom(Map, ps, i + 1) = Map
                <5> DEFINE m == Map
                <5> HIDE DEF m, ps
                <5> QED
                    BY <3>1, <3>2, NothingToDo DEF m
            <4> QED
                BY <4>1 DEF Finished
        <3>4. \A h \in Goroutine : h # g => pc'[h] = pc[h] /\ pc[h] \notin {"store", "cache"}
            BY <1>1, <1>4, OthersKeep, IterationAlone DEF Inside
        <3>5. InLoop' = {}
            BY <2>2, <3>4 DEF InLoop
        <3>6. EffectiveMap' = Map'
            BY <1>3, <1>4, <3>5, EffectiveNext, PointersStay DEF EffectiveInv
        <3> QED
            BY <1>1, <1>3, <3>3, <3>6
    <2> QED
        BY <1>1, <2>1, <2>2
<1>6. EffectiveReply' = [EffectiveReply EXCEPT ![g] = EffectiveReply[g]]
    <2>1. EffectiveReply[g] = Ok
        BY <1>1, <1>4, EffectiveReplyStep
    <2>2. (IF pc'[g] \in {"store", "cache"} THEN Ok ELSE reply'[g]) = Ok
        BY <1>1, <1>4 DEF TypeOK
    <2> QED
        BY <1>4, <2>1, <2>2, EffectiveReplyStep
<1>7. EffectiveReply' = EffectiveReply
    BY <1>6 DEF EffectiveReply
<1> QED
    BY <1>1, <1>5, <1>7 DEF Contract!rvars

\* Permit answers at its last iteration, or at the first that fails.
LEMMA PermitMaps ==
    ASSUME IInv, IInv', NEW g \in Goroutine, Permit(g)
    PROVE  Contract!Permit(g) \/ UNCHANGED Contract!rvars
<1> DEFINE ps == call[g].perms
<1>1. /\ Step(g) /\ pc[g] = "read" /\ call[g].op = "Permit" /\ TypeOK
      /\ EffectiveMap = Map /\ EffectiveReply[g] = Contract!NoReply
    BY ReaderSees, SameAnswers DEF Permit, At, Step, IInv
<1>2. ps \in Seq(Permission \cup {Nil}) /\ at[g] \in DOMAIN ps
    BY <1>1, CallArguments DEF IInv, ControlInv, ControlOf
<1>3. DOMAIN ps = 1 .. Len(ps) /\ Len(ps) \in Nat /\ ps # <<>>
    BY <1>2, LenProperties, EmptySeq
<1>4. \A j \in 1 .. at[g] - 1 : Covers(Map, ps[j])
    BY <1>1 DEF IInv, PermitInv
<1>5. ASSUME NEW b \in BOOLEAN, Answer(g, Permitted(b), "unlock"), b <=> CoversAll(Map, ps)
      PROVE  Contract!Permit(g)
    <2>1. EffectiveMap' = EffectiveMap /\ Contract!Answer(g, Permitted(b))
        BY <1>1, <1>5, AnswerMaps
    <2>2. b = Contract!CoversAll(EffectiveMap, ps)
        BY <1>1, <1>5, SameMaps DEF Contract!CoversAll
    <2> QED
        BY <1>1, <2>1, <2>2, SameAnswers DEF Contract!Permit, Contract!Pending
<1>6. CASE ~Matched(Map, ps[at[g]]) /\ Answer(g, Permitted(FALSE), "unlock")
    <2>1. ~Covers(Map, ps[at[g]])
        BY <1>6, MatchedIsCovers
    <2>2. ~CoversAll(Map, ps)
        BY <1>2, <2>1 DEF CoversAll
    <2> QED
        BY <1>5, <1>6, <2>2
<1>7. CASE /\ Matched(Map, ps[at[g]]) /\ at[g] = Len(ps)
           /\ Answer(g, Permitted(TRUE), "unlock")
    <2>1. Covers(Map, ps[at[g]])
        BY <1>7, MatchedIsCovers
    <2>2. \A j \in 1 .. Len(ps) : j = at[g] \/ j \in 1 .. at[g] - 1
        BY <1>3, <1>7
    <2>3. CoversAll(Map, ps)
        BY <1>3, <1>4, <2>1, <2>2 DEF CoversAll
    <2> QED
        BY <1>5, <1>7, <2>3
<1>8. CASE Goto(g, "read", at[g] + 1) /\ UNCHANGED <<call, reply>>
    <2>1. pc'[g] = "read"
        BY <1>1, <1>8, GoesTo
    <2> QED
        BY <1>1, <1>8, <2>1, Silent
<1> QED
    BY <1>6, <1>7, <1>8 DEF Permit, Map

\* The queries are the contract's at their one step.
LEMMA ReadMaps ==
    ASSUME IInv, IInv', NEW g \in Goroutine, Permissions(g) \/ Get(g)
    PROVE  Contract!Permissions(g) \/ Contract!Get(g)
<1>1. Step(g) /\ pc[g] = "read" /\ EffectiveMap = Map /\ EffectiveReply[g] = Contract!NoReply
    BY ReaderSees, SameAnswers DEF Permissions, Get, At, Step
<1>2. CASE Permissions(g)
    <2>1. call[g].op = "Permissions" /\ Answer(g, Listed(Held(Map)), "unlock")
        BY <1>2 DEF Permissions, Map
    <2>2. EffectiveMap' = EffectiveMap /\ Contract!Answer(g, Listed(Held(Map)))
        BY <1>1, <2>1, AnswerMaps
    <2> QED
        BY <1>1, <2>1, <2>2, SameMaps, SameAnswers DEF Contract!Permissions, Contract!Pending
<1>3. CASE Get(g)
    <2> DEFINE found == { Map[id] : id \in DOMAIN Map \cap {call[g].id} }
    <2>1. call[g].op = "Get" /\ Answer(g, Found(found), "unlock")
        BY <1>3 DEF Get, Map
    <2>2. EffectiveMap' = EffectiveMap /\ Contract!Answer(g, Found(found))
        <3> HIDE DEF found
        <3> QED
            BY <1>1, <2>1, AnswerMaps
    <2> QED
        BY <1>1, <2>1, <2>2, SameAnswers DEF Contract!Get, Contract!Pending
<1> QED
    BY <1>2, <1>3

\* Giving the lock back shows nothing to the contract.
LEMMA UnlockMaps ==
    ASSUME IInv, IInv', NEW g \in Goroutine, Unlock(g)
    PROVE  UNCHANGED Contract!rvars
<1>1. Step(g) /\ pc[g] = "unlock" /\ pc'[g] = "return" /\ UNCHANGED <<call, reply>>
    BY Destinations DEF Unlock, Step, IInv
<1> QED
    BY <1>1, Silent

\* The return of a call is the contract's.
LEMMA ReturnMaps ==
    ASSUME IInv, IInv', NEW g \in Goroutine, Return(g)
    PROVE  Contract!Return(g)
<1>1. Step(g) /\ pc[g] \in {"return", "range"} /\ pc'[g] = "idle"
    BY Destinations DEF Step, IInv
<1>2. call' = [call EXCEPT ![g] = NoCall] /\ reply'[g] = NoReply
    BY DEF Return, IInv, TypeOK
<1>3. EffectiveMap' = EffectiveMap
    BY <1>1, EffectiveKept
<1>4. /\ EffectiveReply' = [EffectiveReply EXCEPT ![g] = NoReply]
      /\ EffectiveReply[g] = reply[g]
    BY <1>1, <1>2, EffectiveReplyStep
<1>5. call[g] # NoCall /\ (reply[g] # NoReply \/ call[g].op = "FilterPermissions")
    BY <1>1 DEF IInv, ControlInv, ControlOf
<1> QED
    BY <1>2, <1>3, <1>4, <1>5, SameAnswers DEF Contract!Return

-----------------------------------------------------------------------------
(***************************************************************************)
(* The refinement.                                                         *)
(***************************************************************************)
LEMMA InitMaps ==
    ASSUME "Zero" \notin Starts
    PROVE  Init => Contract!Init
<1> SUFFICES ASSUME Init
             PROVE  Contract!Init
    OBVIOUS
<1>1. IInv
    BY InitHolds
<1>2. InLoop = {}
    BY DEF Init, InLoop
<1>3. EffectiveMap = EmptyMap
    <2>1. Stored = EmptyMap
        BY <1>1 DEF Init, Stored, IInv, TypeOK, PointerType
    <2> QED
        BY <1>2, <2>1 DEF EffectiveMap
<1>4. EffectiveReply = [g \in Goroutine |-> NoReply]
    BY DEF Init, EffectiveReply
<1> QED
    BY <1>3, <1>4, SameAnswers DEF Init, Contract!Init, EmptyMap

\* Every step is one of the contract's, or shows it nothing.
LEMMA StepMaps ==
    ASSUME "Zero" \notin Starts
    PROVE  IInv /\ IInv' /\ [Next]_svars => [Contract!Next]_Contract!rvars
<1>1. ASSUME IInv, IInv', NEW g \in Goroutine, Step(g)
      PROVE  \/ UNCHANGED Contract!rvars
             \/ Contract!Invoke(g) \/ Contract!Return(g)
             \/ Contract!Assign(g) \/ Contract!Revoke(g) \/ Contract!Permit(g)
             \/ Contract!Permissions(g) \/ Contract!Get(g)
    BY <1>1, BeginMaps, NoArgumentsMaps, InitMethodMaps, EnterMaps, StoreMaps, CacheMaps,
       PermitMaps, ReadMaps, UnlockMaps, ReturnMaps DEF Step
<1>2. ASSUME UNCHANGED svars
      PROVE  UNCHANGED Contract!rvars
    BY <1>2 DEF svars, Contract!rvars, EffectiveMap, EffectiveReply, InLoop, Stored
<1> QED
    BY <1>1, <1>2 DEF Next, Step, Contract!Next

\* Every call on a role object takes effect at one moment between its start
\* and its return, with all the permissions it names at once, for any number
\* of goroutines, permissions and calls (role.go:62-158).
THEOREM LinearizesRoleCallsAlways ==
    ASSUME "Zero" \notin Starts
    PROVE  Spec => LinearizesRoleCalls
<1>1. Init => Contract!Init
    BY InitMaps
<1>2. IInv /\ IInv' /\ [Next]_svars => [Contract!Next]_Contract!rvars
    BY StepMaps
<1> QED
    BY <1>1, <1>2, InvAlways, PTL DEF Spec, LinearizesRoleCalls, Contract!Spec
=============================================================================
