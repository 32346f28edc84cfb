------------------------ MODULE StdRBACLockingProofs ------------------------
(***************************************************************************)
(* src/rbac.go with its mutex, loops and recursion implements the contract *)
(* StdRBAC, for every number of goroutines, ids, role objects and          *)
(* permissions and for every set of calls.                                 *)
(***************************************************************************)
EXTENDS StdRBACLocking, HierarchyProofs, SequenceTheorems, FiniteSetTheorems

-----------------------------------------------------------------------------
(***************************************************************************)
(* The inductive invariant.                                                *)
(***************************************************************************)
Loops == {"bind", "unbind", "scrub"}

\* c has asked for the mutex and has not released it.
Engaged(c) == pc[c] \notin {"idle", "start"}

\* Who has asked for the mutex, for writing or for reading, is in its queues;
\* a reader that waits is still before its operation, and a writer that has
\* begun its operation found no reader left.
MutexOf(c) ==
    /\ c \in rw.writer <=> Engaged(c) /\ call[c].op \in Writers
    /\ c \in rw.readers \cup rw.waiting <=>
          Engaged(c) /\ call[c].op \notin Writers \cup RoleCalls
    /\ c \in rw.waiting => pc[c] = "body" /\ c \notin rw.readers
    /\ (Engaged(c) /\ pc[c] # "body" /\ call[c].op \in Writers) => rw.readers = {}

MutexInv ==
    /\ \A c, d \in rw.writer : c = d
    /\ \A c \in Client : MutexOf(c)

\* A client is in the loop of its operation only, and has an answer only when
\* it is about to return.
ControlInv ==
    \A c \in Client :
        /\ pc[c] = "idle" <=> call[c] = Contract!NoCall
        /\ pc[c] = "bind" => call[c].op = "SetParents"
        /\ pc[c] = "unbind" => call[c].op = "RemoveParents"
        /\ pc[c] = "scrub" => call[c].op = "Remove"
        /\ pc[c] = "walk" => call[c].op = "IsGranted"
        /\ pc[c] = "unlock" <=> reply[c] # Contract!NoReply
        /\ missed[c] # {} => pc[c] \in {"walk", "unlock"}

\* What a loop has done: SetParents has made the entry it fills, Remove has
\* left no trace of the id outside the entries that are still to be looked at.
LoopOf(c) ==
    LET id == call[c].id IN
    /\ pc[c] = "bind" => id \in DOMAIN parents
    /\ pc[c] = "scrub" =>
          \A x \in DOMAIN parents \ todo[c] : x # id /\ id \notin parents[x]

LoopInv == \A c \in Client : LoopOf(c)

\* Every role is registered under its own id, so that no object is registered
\* twice: IsGranted can be followed by the objects it has looked at.
RegisteredInv == \A id \in Live : IdOf[roles[id]] = id

\* The roles that the IsGranted of c has looked at, and those it will.
Visited(c) == { x \in Live : roles[x] \in missed[c] }
Entries(s) == UNION { s[i] : i \in DOMAIN s }
Ahead(c) == Entries(stack[c])

\* The walk of c has looked at its start; of every role it has looked at, the
\* parents have been or will be looked at; and it strays nowhere else.
WalkOf(c) ==
    pc[c] = "walk" =>
        /\ call[c].id \in Visited(c)
        /\ \A y \in Visited(c) :
              Up(parents, y) \cap Live \subseteq Visited(c) \cup Ahead(c)
        /\ Ahead(c) \subseteq Ancestors(call[c].id)

WalkInv == \A c \in Client : WalkOf(c)

IInv == TypeOK /\ MutexInv /\ ControlInv /\ LoopInv /\ RegisteredInv /\ WalkInv

\* The active calls of a recursion, innermost first, are a way along
\* inheritance links: path[i] is the id that the i-th of them is at.
Linked(path) ==
    \A i, j \in DOMAIN path :
        i < j => \E q \in Up(parents, path[j]) \cap Live : path[i] \in Reach(Live, parents, q)

PathTo(s, path) ==
    /\ \A i \in DOMAIN s : s[i] \subseteq Up(parents, path[i]) \cap Live
    /\ Linked(path)

OnPath(s) ==
    /\ Len(s) <= MaxDepth
    /\ \E path \in [1 .. Len(s) -> Live] : PathTo(s, path)

PathInv == \A c \in Client : OnPath(stack[c])

\* Who died was in a recursion as deep as the stack: round a cycle, or down a
\* chain of more roles than the stack takes.
CrashInv ==
    crashed => Cyclic(Live, parents) \/ Cardinality(Live) > MaxDepth

-----------------------------------------------------------------------------
(***************************************************************************)
(* Type correctness.                                                       *)
(***************************************************************************)
\* Each call carries the arguments of its operation.
LEMMA CallArguments ==
    ASSUME TypeOK, NEW c \in Client
    PROVE  LET q == call[c] IN
           /\ q.op = "Add" => q.role \in Role
           /\ q.op \in {"Remove", "Get", "GetParents"} => q.id \in ID
           /\ q.op \in {"SetParents", "RemoveParents"} => q.id \in ID /\ q.ps \in SUBSET ID
           /\ q.op = "IsGranted" => q.id \in ID /\ q.perm \in Perm
           /\ q.op \in {"Assign", "Revoke"} => q.role \in Role /\ q.perms \in SUBSET Perm
<1>1. call[c] \in Contract!RequestType \cup {Contract!NoCall}
    BY RequestsAssumption DEF TypeOK
<1> QED
    BY <1>1 DEF Contract!RequestType, Contract!NoCall

\* The edits of the registry, of an entry and of a role keep their types.
LEMMA EditsType ==
    ASSUME HierarchyTypeOK,
           \/ UNCHANGED hvars
           \/ \E r \in Role : AddRole(r)
           \/ \E id \in ID, ps \in SUBSET ID :
                 /\ \/ parents' = Bind(parents, id, ps)
                    \/ parents' = Unbind(parents, id, ps)
                    \/ parents' = [parents EXCEPT ![id] = @ \cup ps]
                    \/ parents' = [parents EXCEPT ![id] = @ \ ps]
                    \/ parents' = [y \in DOMAIN parents \ {id} |-> parents[y]]
                 /\ UNCHANGED <<roles, perms>>
           \/ \E id \in ID :
                 /\ roles' = [x \in Live \ {id} |-> roles[x]]
                 /\ UNCHANGED <<parents, perms>>
           \/ \E r \in Role, ps \in SUBSET Perm : AssignPerms(r, ps) \/ RevokePerms(r, ps)
    PROVE  HierarchyTypeOK'
<1>1. CASE UNCHANGED hvars
    BY <1>1 DEF HierarchyTypeOK, hvars, Live
<1>2. CASE \E r \in Role : AddRole(r)
    BY <1>2, IdOfAssumption DEF HierarchyTypeOK, AddRole, Live
<1>3. ASSUME NEW id \in ID, NEW ps \in SUBSET ID, UNCHANGED <<roles, perms>>,
             \/ parents' = Bind(parents, id, ps)
             \/ parents' = Unbind(parents, id, ps)
             \/ parents' = [parents EXCEPT ![id] = @ \cup ps]
             \/ parents' = [parents EXCEPT ![id] = @ \ ps]
             \/ parents' = [y \in DOMAIN parents \ {id} |-> parents[y]]
      PROVE  HierarchyTypeOK'
    <2>1. CASE parents' = Bind(parents, id, ps)
        BY <1>3, <2>1 DEF HierarchyTypeOK, Live, Bind, Up
    <2>2. CASE parents' = Unbind(parents, id, ps)
        BY <1>3, <2>2 DEF HierarchyTypeOK, Live, Unbind
    <2>3. CASE \/ parents' = [parents EXCEPT ![id] = @ \cup ps]
               \/ parents' = [parents EXCEPT ![id] = @ \ ps]
        BY <1>3, <2>3 DEF HierarchyTypeOK, Live
    <2>4. CASE parents' = [y \in DOMAIN parents \ {id} |-> parents[y]]
        BY <1>3, <2>4 DEF HierarchyTypeOK, Live
    <2> QED
        BY <1>3, <2>1, <2>2, <2>3, <2>4
<1>4. CASE \E id \in ID : /\ roles' = [x \in Live \ {id} |-> roles[x]]
                          /\ UNCHANGED <<parents, perms>>
    BY <1>4 DEF HierarchyTypeOK, Live
<1>5. CASE \E r \in Role, ps \in SUBSET Perm : AssignPerms(r, ps) \/ RevokePerms(r, ps)
    BY <1>5 DEF HierarchyTypeOK, AssignPerms, RevokePerms, Live
<1> QED
    BY <1>1, <1>2, <1>3, <1>4, <1>5

\* What Visit leaves on the stack: the parents of the role, then the parents
\* that the outer calls have still to visit.
LEMMA Pushed ==
    ASSUME NEW S, NEW s \in Seq(S), NEW x \in S
    PROVE  /\ <<x>> \o s \in Seq(S) /\ <<x>> \o s # <<>>
           /\ Len(<<x>> \o s) = Len(s) + 1
           /\ DOMAIN (<<x>> \o s) = 1 .. Len(s) + 1
           /\ (<<x>> \o s)[1] = x
           /\ \A i \in 1 .. Len(s) : (<<x>> \o s)[i + 1] = s[i]
<1> DEFINE h == <<x>>
<1>1. h \in Seq(S) /\ Len(h) = 1 /\ h[1] = x
    OBVIOUS
<1> HIDE DEF h
<1>2. /\ h \o s \in Seq(S)
      /\ Len(h \o s) = Len(h) + Len(s)
      /\ \A i \in 1 .. Len(h) + Len(s) :
            (h \o s)[i] = IF i <= Len(h) THEN h[i] ELSE s[i - Len(h)]
    BY <1>1, ConcatProperties
<1>3. Len(s) \in Nat /\ DOMAIN (h \o s) = 1 .. Len(s) + 1
    BY <1>1, <1>2, LenProperties
<1>4. \A i \in 1 .. Len(s) : i + 1 \in 1 .. 1 + Len(s) /\ i + 1 > 1 /\ (i + 1) - 1 = i
    BY <1>3
<1>5. \A i \in 1 .. Len(s) : (h \o s)[i + 1] = s[i]
    BY <1>1, <1>2, <1>3, <1>4
<1>6. (h \o s) # <<>>
    BY <1>1, <1>2, <1>3, EmptySeq
<1> QED
    BY <1>1, <1>2, <1>3, <1>5, <1>6 DEF h

\* What is on top of a stack, and what lies below.
LEMMA Popped ==
    ASSUME NEW S, NEW s \in Seq(S), s # <<>>
    PROVE  /\ Len(s) \in Nat /\ Len(s) > 0 /\ DOMAIN s = 1 .. Len(s)
           /\ Head(s) = s[1] /\ s[1] \in S
           /\ Tail(s) \in Seq(S)
           /\ Len(Tail(s)) = Len(s) - 1
           /\ DOMAIN Tail(s) = 1 .. Len(s) - 1
           /\ \A i \in 1 .. Len(s) - 1 : Tail(s)[i] = s[i + 1]
           /\ Len(s) = 1 => Tail(s) = <<>>
           /\ Len(s) > 1 => Tail(s) # <<>>
<1>1. Len(s) \in Nat /\ Len(s) > 0 /\ DOMAIN s = 1 .. Len(s)
    BY LenProperties, EmptySeq
<1>2. Head(s) = s[1] /\ s[1] \in S
    BY <1>1, ElementOfSeq
<1>3. /\ Tail(s) \in Seq(S)
      /\ Len(Tail(s)) = Len(s) - 1
      /\ \A i \in 1 .. Len(Tail(s)) : Tail(s)[i] = s[i + 1]
    BY HeadTailProperties
<1>4. DOMAIN Tail(s) = 1 .. Len(s) - 1
    BY <1>3, LenProperties
<1>5. \A t \in Seq(S) : t = <<>> <=> Len(t) = 0
    BY EmptySeq, LenProperties
<1>6. (Len(s) = 1 => Tail(s) = <<>>) /\ (Len(s) > 1 => Tail(s) # <<>>)
    <2> DEFINE t == Tail(s)
    <2>1. t \in Seq(S) /\ Len(t) = Len(s) - 1
        BY <1>3
    <2> HIDE DEF t
    <2>2. (Len(s) = 1 => t = <<>>) /\ (Len(s) > 1 => t # <<>>)
        BY <1>1, <1>5, <2>1
    <2> QED
        BY <2>2 DEF t
<1> QED
    BY <1>1, <1>2, <1>3, <1>4, <1>6

\* A mutex stays one, whatever is done with it.
LEMMA MutexType ==
    ASSUME NEW m \in M!Type(Client), NEW c \in Client
    PROVE  /\ M!Announce(m, c) \in M!Type(Client)
           /\ M!RLock(m, c) \in M!Type(Client)
           /\ M!Unlock(m) \in M!Type(Client)
           /\ M!RUnlock(m, c) \in M!Type(Client)
BY DEF M!Type, M!Announce, M!RLock, M!Unlock, M!RUnlock

\* An answer keeps the types.
LEMMA AnswerType ==
    ASSUME TypeOK, NEW c \in Client, NEW r \in Contract!Answers(call[c].op), Answer(c, r),
           HierarchyTypeOK', todo[c] = {}, UNCHANGED <<missed, todo>>,
           stack' = [stack EXCEPT ![c] = <<>>]
    PROVE  TypeOK'
<1>1. <<>> \in Seq(SUBSET ID)
    BY EmptySeq
<1> QED
    BY <1>1 DEF TypeOK, Answer, Goto, Steps

\* An operation in its body, or at the end of its loop, reports an answer.
LEMMA ReportType ==
    ASSUME TypeOK, NEW c \in Client, NEW r \in Contract!Answers(call[c].op),
           pc[c] # "walk", todo[c] = {}, Report(c, r)
    PROVE  TypeOK'
<1>1. stack' = [stack EXCEPT ![c] = <<>>]
    BY DEF TypeOK, Report
<1>2. HierarchyTypeOK'
    BY EditsType DEF Report, TypeOK
<1> QED
    BY <1>1, <1>2, AnswerType DEF Report

\* A loop starts, or goes on.
LEMMA LoopType ==
    ASSUME TypeOK, NEW c \in Client, NEW S \in SUBSET ID, NEW step \in Loops,
           pc[c] # "walk", Loop(c, step, S), HierarchyTypeOK'
    PROVE  TypeOK'
BY DEF TypeOK, Loop, Goto, Steps, Loops

\* One turn of an edit's loop keeps the types.
LEMMA IterateType ==
    ASSUME TypeOK, NEW c \in Client, NEW step \in Loops, NEW e \in ID, NEW ps,
           Iterate(c, step, e, ps), HierarchyTypeOK'
    PROVE  TypeOK'
BY DEF TypeOK, Iterate, At, Steps, Loops

\* IsGranted looks at a role.
LEMMA VisitType ==
    ASSUME TypeOK, NEW c \in Client, NEW x \in Live, NEW outer \in Seq(SUBSET ID),
           call[c].op = "IsGranted", pc[c] \in {"body", "walk"}, Visit(c, x, outer)
    PROVE  TypeOK'
<1>1. todo[c] = {}
    BY DEF TypeOK
<1>2. CASE /\ stack' = [stack EXCEPT ![c] = <<>>]
           /\ Answer(c, Contract!Granted(TRUE))
           /\ UNCHANGED <<hvars, missed, todo>>
    <2>1. Contract!Granted(TRUE) \in Contract!Answers(call[c].op)
        BY DEF Contract!Granted, Contract!Answers
    <2>2. HierarchyTypeOK'
        BY <1>2, EditsType DEF TypeOK
    <2> QED
        BY <1>1, <1>2, <2>1, <2>2, AnswerType
<1>3. CASE /\ missed' = [missed EXCEPT ![c] = @ \cup {roles[x]}]
           /\ stack' = [stack EXCEPT ![c] = <<Up(parents, x) \cap Live>> \o outer]
           /\ Goto(c, "walk")
           /\ UNCHANGED <<hvars, call, reply, rw, todo, crashed>>
    <2>1. HierarchyTypeOK'
        BY <1>3, EditsType DEF TypeOK
    <2>2. roles[x] \in Role /\ Up(parents, x) \cap Live \in SUBSET ID
        BY DEF TypeOK, HierarchyTypeOK
    <2> DEFINE top == Up(parents, x) \cap Live
    <2> HIDE DEF top
    <2>3. <<top>> \o outer \in Seq(SUBSET ID) /\ <<top>> \o outer # <<>>
        BY <2>2, Pushed DEF top
    <2> DEFINE new == <<top>> \o outer
    <2>4. new \in Seq(SUBSET ID) /\ new # <<>> /\ stack' = [stack EXCEPT ![c] = new]
        BY <1>3, <2>3 DEF top
    <2> HIDE DEF new
    <2> QED
        BY <1>1, <1>3, <2>1, <2>2, <2>4 DEF TypeOK, Goto, Steps
<1>4. CASE crashed' = TRUE /\ UNCHANGED <<hvars, call, reply, missed, rw, pc, todo, stack>>
    <2>1. HierarchyTypeOK'
        BY <1>4, EditsType DEF TypeOK
    <2> QED
        BY <1>4, <2>1 DEF TypeOK
<1> QED
    BY <1>2, <1>3, <1>4 DEF Visit

\* The types hold at first.
LEMMA InitType == Init => TypeOK
<1> SUFFICES ASSUME Init
             PROVE  TypeOK
    OBVIOUS
<1>1. HierarchyTypeOK
    BY DEF Init, HierarchyInit, HierarchyTypeOK, Live
<1>2. <<>> \in Seq(SUBSET ID)
    BY EmptySeq
<1>3. rw \in M!Type(Client)
    BY DEF Init, M!Free, M!Type
<1> QED
    BY <1>1, <1>2, <1>3 DEF Init, TypeOK, Steps

\* Begin, Lock, RLock, EditRole and Finish: the steps outside an operation.
LEMMA OutsideType ==
    ASSUME TypeOK, ControlInv, NEW c \in Client,
           Begin(c) \/ Lock(c) \/ RLock(c) \/ EditRole(c) \/ Finish(c)
    PROVE  TypeOK'
<1>1. CASE Begin(c)
    <2>1. reply[c] = Contract!NoReply
        BY <1>1 DEF Begin, At, ControlInv
    <2>2. HierarchyTypeOK'
        BY <1>1, EditsType DEF Begin, TypeOK
    <2> QED
        BY <1>1, <2>1, <2>2 DEF Begin, At, Goto, TypeOK, Steps
<1>2. CASE Lock(c) \/ RLock(c)
    <2>1. HierarchyTypeOK'
        BY <1>2, EditsType DEF Lock, RLock, TypeOK
    <2>2. rw' \in M!Type(Client)
        <3>1. rw \in M!Type(Client)
            BY DEF TypeOK
        <3>2. rw' = M!Announce(rw, c) \/ rw' = M!RLock(rw, c)
            BY <1>2 DEF Lock, RLock
        <3> QED
            BY <3>1, <3>2, MutexType
    <2> QED
        BY <1>2, <2>1, <2>2 DEF Lock, RLock, At, Goto, TypeOK, Steps
<1>3. CASE EditRole(c)
    <2>1. HierarchyTypeOK'
        BY <1>3, EditsType, CallArguments DEF EditRole, TypeOK
    <2>2. Contract!Ok \in Contract!Answers(call[c].op)
        BY <1>3 DEF EditRole, Contract!Answers
    <2>3. stack' = [stack EXCEPT ![c] = <<>>] /\ todo[c] = {}
        BY <1>3 DEF EditRole, At, TypeOK
    <2> QED
        BY <1>3, <2>1, <2>2, <2>3, AnswerType DEF EditRole
<1>4. CASE Finish(c)
    <2>1. HierarchyTypeOK'
        BY <1>4, EditsType DEF Finish, TypeOK
    <2>2. rw' \in M!Type(Client)
        BY <1>4, MutexType DEF Finish, Released, TypeOK
    <2> QED
        BY <1>4, <2>1, <2>2 DEF Finish, At, Goto, TypeOK, Steps
<1> QED
    BY <1>1, <1>2, <1>3, <1>4

\* Add, and the operations that loop.
LEMMA EditType ==
    ASSUME TypeOK, ControlInv, NEW c \in Client,
           \/ Add(c) \/ Remove(c) \/ ScrubEntry(c)
           \/ SetParents(c) \/ BindParent(c) \/ RemoveParents(c) \/ UnbindParent(c)
           \/ LoopDone(c)
    PROVE  TypeOK'
<1>0. pc[c] \notin Loops => todo[c] = {}
    BY DEF TypeOK, Loops
<1>1. CASE Add(c)
    <2> DEFINE r == call[c].role
    <2>1. pc[c] = "body" /\ call[c].op = "Add" /\ r \in Role
        BY <1>1, CallArguments DEF Add, Enter, At
    <2>2. Contract!Ok \in Contract!Answers(call[c].op) /\ Contract!Exist \in Contract!Answers(call[c].op)
        BY <2>1 DEF Contract!Answers
    <2>3. CASE AddRole(r) /\ Answer(c, Contract!Ok) /\ UNCHANGED <<missed, todo, stack>>
        <3>1. HierarchyTypeOK'
            BY <2>1, <2>3, EditsType DEF TypeOK
        <3>2. stack' = [stack EXCEPT ![c] = <<>>]
            BY <2>1, <2>3 DEF TypeOK
        <3> QED
            BY <1>0, <2>1, <2>2, <2>3, <3>1, <3>2, AnswerType DEF Loops
    <2>4. CASE Report(c, Contract!Exist)
        BY <1>0, <2>1, <2>2, <2>4, ReportType DEF Loops
    <2> QED
        BY <1>1, <2>3, <2>4 DEF Add
<1>2. CASE Remove(c)
    <2> DEFINE id == call[c].id
    <2>1. pc[c] = "body" /\ call[c].op = "Remove" /\ id \in ID
        BY <1>2, CallArguments DEF Remove, Enter, At
    <2>2. Contract!NotExist \in Contract!Answers(call[c].op)
        BY <2>1 DEF Contract!Answers
    <2>3. CASE /\ id \in Live
               /\ roles' = [x \in Live \ {id} |-> roles[x]]
               /\ Loop(c, "scrub", DOMAIN parents)
               /\ UNCHANGED parents
        <3>1. HierarchyTypeOK'
            BY <2>1, <2>3, EditsType DEF TypeOK, Loop
        <3>2. DOMAIN parents \in SUBSET ID
            BY DEF TypeOK, HierarchyTypeOK
        <3> QED
            BY <2>1, <2>3, <3>1, <3>2, LoopType DEF Loops
    <2>4. CASE Report(c, Contract!NotExist)
        BY <1>0, <2>1, <2>2, <2>4, ReportType DEF Loops
    <2> QED
        BY <1>2, <2>3, <2>4 DEF Remove
<1>3. CASE ScrubEntry(c)
    <2> DEFINE id == call[c].id
    <2>1. PICK x \in todo[c] :
             Iterate(c, "scrub", x,
                 IF x = id THEN [y \in DOMAIN parents \ {id} |-> parents[y]]
                           ELSE [parents EXCEPT ![x] = @ \ {id}])
        BY <1>3 DEF ScrubEntry
    <2>2. call[c].op = "Remove" /\ id \in ID /\ x \in ID
        BY <2>1, CallArguments DEF Iterate, At, ControlInv, TypeOK
    <2>3. HierarchyTypeOK'
        <3>1. UNCHANGED <<roles, perms>> /\ {id} \in SUBSET ID
            BY <2>1, <2>2 DEF Iterate
        <3>2. \/ parents' = [y \in DOMAIN parents \ {x} |-> parents[y]]
              \/ parents' = [parents EXCEPT ![x] = @ \ {id}]
            BY <2>1 DEF Iterate
        <3> QED
            BY <2>2, <3>1, <3>2, EditsType DEF TypeOK
    <2> QED
        BY <2>1, <2>2, <2>3, IterateType DEF Loops
<1>4. CASE SetParents(c)
    <2> DEFINE id == call[c].id
    <2>1. pc[c] = "body" /\ call[c].op = "SetParents" /\ id \in ID /\ call[c].ps \in SUBSET ID
        BY <1>4, CallArguments DEF SetParents, Enter, At
    <2>2. Contract!NotExist \in Contract!Answers(call[c].op)
        BY <2>1 DEF Contract!Answers
    <2>3. CASE /\ parents' = Bind(parents, id, {})
               /\ Loop(c, "bind", call[c].ps)
               /\ UNCHANGED roles
        <3>1. HierarchyTypeOK'
            BY <2>1, <2>3, EditsType DEF TypeOK, Loop
        <3> QED
            BY <2>1, <2>3, <3>1, LoopType DEF Loops
    <2>4. CASE Report(c, Contract!NotExist)
        BY <1>0, <2>1, <2>2, <2>4, ReportType DEF Loops
    <2> QED
        BY <1>4, <2>3, <2>4 DEF SetParents
<1>5. CASE BindParent(c)
    <2> DEFINE id == call[c].id
    <2>1. PICK p \in todo[c] : Iterate(c, "bind", p, [parents EXCEPT ![id] = @ \cup {p}])
        BY <1>5 DEF BindParent
    <2>2. call[c].op = "SetParents" /\ id \in ID /\ p \in ID
        BY <2>1, CallArguments DEF Iterate, At, ControlInv, TypeOK
    <2>3. HierarchyTypeOK'
        <3>1. /\ UNCHANGED <<roles, perms>> /\ {p} \in SUBSET ID
              /\ parents' = [parents EXCEPT ![id] = @ \cup {p}]
            BY <2>1, <2>2 DEF Iterate
        <3> QED
            BY <2>2, <3>1, EditsType DEF TypeOK
    <2> QED
        BY <2>1, <2>2, <2>3, IterateType DEF Loops
<1>6. CASE RemoveParents(c)
    <2>1. pc[c] = "body" /\ call[c].op = "RemoveParents" /\ call[c].ps \in SUBSET ID
        BY <1>6, CallArguments DEF RemoveParents, Enter, At
    <2>2. Contract!NotExist \in Contract!Answers(call[c].op)
        BY <2>1 DEF Contract!Answers
    <2>3. CASE Loop(c, "unbind", call[c].ps) /\ UNCHANGED <<roles, parents>>
        <3>1. HierarchyTypeOK'
            BY <2>3, EditsType DEF TypeOK, Loop, hvars
        <3> QED
            BY <2>1, <2>3, <3>1, LoopType DEF Loops
    <2>4. CASE Report(c, Contract!NotExist)
        BY <1>0, <2>1, <2>2, <2>4, ReportType DEF Loops
    <2> QED
        BY <1>6, <2>3, <2>4 DEF RemoveParents
<1>7. CASE UnbindParent(c)
    <2> DEFINE id == call[c].id
    <2>1. PICK p \in todo[c] : Iterate(c, "unbind", p, Unbind(parents, id, {p}))
        BY <1>7 DEF UnbindParent
    <2>2. call[c].op = "RemoveParents" /\ id \in ID /\ p \in ID
        BY <2>1, CallArguments DEF Iterate, At, ControlInv, TypeOK
    <2>3. HierarchyTypeOK'
        <3>1. /\ UNCHANGED <<roles, perms>> /\ {p} \in SUBSET ID
              /\ parents' = Unbind(parents, id, {p})
            BY <2>1, <2>2 DEF Iterate
        <3> QED
            BY <2>2, <3>1, EditsType DEF TypeOK
    <2> QED
        BY <2>1, <2>2, <2>3, IterateType DEF Loops
<1>8. CASE LoopDone(c)
    <2>1. Contract!Ok \in Contract!Answers(call[c].op)
        BY <1>8 DEF LoopDone, At, ControlInv, Contract!Answers
    <2> QED
        BY <1>8, <2>1, ReportType DEF LoopDone, At
<1> QED
    BY <1>1, <1>2, <1>3, <1>4, <1>5, <1>6, <1>7, <1>8

\* The walk of c goes on from p, of which it knows that it is a role.
LEMMA DescendStack ==
    ASSUME TypeOK, WalkInv, NEW c \in Client, pc[c] = "walk", NEW p \in Head(stack[c])
    PROVE  LET rest == <<Head(stack[c]) \ {p}>> \o Tail(stack[c]) IN
           /\ p \in Live /\ p \in Ahead(c)
           /\ rest \in Seq(SUBSET ID)
           /\ Len(rest) = Len(stack[c]) /\ DOMAIN rest = DOMAIN stack[c]
           /\ 1 \in DOMAIN stack[c] /\ p \in stack[c][1]
           /\ \A i \in DOMAIN stack[c] :
                 rest[i] = IF i = 1 THEN stack[c][1] \ {p} ELSE stack[c][i]
<1> DEFINE s == stack[c]
<1>1. s \in Seq(SUBSET ID) /\ s # <<>>
    BY DEF TypeOK
<1> HIDE DEF s
<1>2. /\ Len(s) \in Nat /\ Len(s) > 0 /\ Head(s) = s[1] /\ DOMAIN s = 1 .. Len(s)
      /\ s[1] \in SUBSET ID
      /\ Tail(s) \in Seq(SUBSET ID) /\ Len(Tail(s)) = Len(s) - 1
      /\ \A i \in 1 .. Len(s) - 1 : Tail(s)[i] = s[i + 1]
    BY <1>1, Popped
<1>3. p \in s[1]
    BY <1>2 DEF s
<1>4. p \in Ahead(c)
    BY <1>2, <1>3 DEF Ahead, Entries, s
<1>5. p \in Live
    BY <1>4, ReachSelf DEF WalkInv, WalkOf, Ancestors
<1> DEFINE top == s[1] \ {p}
           new == <<top>> \o Tail(s)
<1>6. top \in SUBSET ID
    BY <1>2
<1> HIDE DEF top
<1>7. /\ new \in Seq(SUBSET ID)
      /\ Len(new) = (Len(s) - 1) + 1 /\ DOMAIN new = 1 .. (Len(s) - 1) + 1
      /\ new[1] = top
      /\ \A i \in 1 .. Len(s) - 1 : new[i + 1] = Tail(s)[i]
    BY <1>2, <1>6, Pushed
<1> HIDE DEF new
<1>8. /\ Len(new) = Len(s) /\ DOMAIN new = DOMAIN s
      /\ \A i \in DOMAIN s : new[i] = IF i = 1 THEN top ELSE s[i]
    <2>1. (Len(s) - 1) + 1 = Len(s)
        BY <1>2
    <2>2. ASSUME NEW i \in DOMAIN s, i # 1
          PROVE  new[i] = s[i]
        <3>1. i - 1 \in 1 .. Len(s) - 1 /\ (i - 1) + 1 = i
            BY <1>2, <2>2
        <3> QED
            BY <1>2, <1>7, <3>1
    <2> QED
        BY <1>2, <1>7, <2>1, <2>2
<1>9. <<Head(stack[c]) \ {p}>> \o Tail(stack[c]) = new
    BY <1>2 DEF new, top, s
<1>10. /\ new \in Seq(SUBSET ID)
       /\ Len(new) = Len(stack[c]) /\ DOMAIN new = DOMAIN stack[c]
       /\ \A i \in DOMAIN stack[c] :
             new[i] = IF i = 1 THEN stack[c][1] \ {p} ELSE stack[c][i]
    BY <1>7, <1>8 DEF top, s
<1>11. 1 \in DOMAIN stack[c] /\ p \in stack[c][1]
    BY <1>2, <1>3 DEF s
<1> QED
    BY <1>4, <1>5, <1>9, <1>10, <1>11

\* The operations that only read.
LEMMA QueryType ==
    ASSUME TypeOK, ControlInv, WalkInv, NEW c \in Client,
           Get(c) \/ GetParents(c) \/ RoleIDs(c) \/ IsGranted(c) \/ Descend(c) \/ Ascend(c)
    PROVE  TypeOK'
<1>0. \A x : Up(parents, x) \in SUBSET ID
    BY DEF TypeOK, HierarchyTypeOK, Up
<1>1. CASE Get(c) \/ GetParents(c) \/ RoleIDs(c)
    <2>1. PICK r \in Contract!Answers(call[c].op) : Report(c, r)
        <3>1. CASE Get(c)
            BY <3>1 DEF Get, Enter, Contract!Answers, Contract!Found, TypeOK, HierarchyTypeOK
        <3>2. CASE GetParents(c)
            BY <1>0, <3>2 DEF GetParents, Enter, Contract!Answers, Contract!Listed
        <3>3. CASE RoleIDs(c)
            BY <3>3 DEF RoleIDs, Enter, Contract!Answers, Contract!Listed, TypeOK, HierarchyTypeOK
        <3> QED
            BY <1>1, <3>1, <3>2, <3>3
    <2>2. pc[c] = "body" /\ todo[c] = {}
        BY <1>1 DEF Get, GetParents, RoleIDs, Enter, At, TypeOK
    <2> QED
        BY <2>1, <2>2, ReportType
<1>2. CASE IsGranted(c)
    <2>1. pc[c] = "body" /\ call[c].op = "IsGranted" /\ todo[c] = {}
        BY <1>2 DEF IsGranted, Enter, At, TypeOK
    <2>2. CASE call[c].id \in Live /\ Visit(c, call[c].id, <<>>)
        BY <2>1, <2>2, VisitType, EmptySeq
    <2>3. CASE Report(c, Contract!Granted(FALSE))
        <3>1. Contract!Granted(FALSE) \in Contract!Answers(call[c].op)
            BY <2>1 DEF Contract!Granted, Contract!Answers
        <3> QED
            BY <2>1, <2>3, <3>1, ReportType
    <2> QED
        BY <1>2, <2>2, <2>3 DEF IsGranted
<1>3. ASSUME Descend(c) \/ Ascend(c)
      PROVE  /\ pc[c] = "walk" /\ call[c].op = "IsGranted" /\ todo[c] = {}
             /\ stack[c] \in Seq(SUBSET ID) /\ stack[c] # <<>>
    BY <1>3 DEF Descend, Ascend, At, TypeOK, ControlInv
<1>4. CASE Descend(c)
    <2>1. PICK p \in Head(stack[c]) : Visit(c, p, <<Head(stack[c]) \ {p}>> \o Tail(stack[c]))
        BY <1>4 DEF Descend
    <2> DEFINE rest == <<Head(stack[c]) \ {p}>> \o Tail(stack[c])
    <2>2. p \in Live /\ rest \in Seq(SUBSET ID)
        BY <1>3, <1>4, DescendStack
    <2>3. Visit(c, p, rest)
        BY <2>1
    <2> HIDE DEF rest
    <2> QED
        BY <1>3, <1>4, <2>2, <2>3, VisitType
<1>5. CASE Ascend(c)
    <2>1. CASE /\ Len(stack[c]) = 1
               /\ stack' = [stack EXCEPT ![c] = Tail(@)]
               /\ Answer(c, Contract!Granted(FALSE))
               /\ UNCHANGED <<hvars, missed, todo>>
        <3>1. Contract!Granted(FALSE) \in Contract!Answers(call[c].op)
            BY <1>3, <1>5 DEF Contract!Granted, Contract!Answers
        <3>2. Tail(stack[c]) = <<>>
            BY <1>3, <1>5, <2>1, Popped
        <3>3. HierarchyTypeOK'
            BY <2>1, EditsType DEF TypeOK
        <3> QED
            BY <1>3, <1>5, <2>1, <3>1, <3>2, <3>3, AnswerType
    <2>2. CASE /\ Len(stack[c]) > 1
               /\ stack' = [stack EXCEPT ![c] = Tail(@)]
               /\ UNCHANGED <<hvars, call, reply, missed, rw, pc, todo, crashed>>
        <3>1. Tail(stack[c]) \in Seq(SUBSET ID) /\ Tail(stack[c]) # <<>>
            BY <1>3, <1>5, <2>2, Popped
        <3>2. HierarchyTypeOK'
            BY <2>2, EditsType DEF TypeOK
        <3> QED
            BY <1>3, <1>5, <2>2, <3>1, <3>2 DEF TypeOK
    <2> QED
        BY <1>5, <2>1, <2>2 DEF Ascend
<1> QED
    BY <1>1, <1>2, <1>4, <1>5

\* Every step keeps the types.
LEMMA NextType ==
    ASSUME TypeOK, ControlInv, WalkInv, [Next]_lvars
    PROVE  TypeOK'
<1>1. CASE UNCHANGED lvars
    BY <1>1 DEF lvars, TypeOK, HierarchyTypeOK, Live
<1>2. ASSUME NEW c \in Client, Begin(c) \/ Step(c)
      PROVE  TypeOK'
    BY <1>2, OutsideType, EditType, QueryType DEF Step
<1> QED
    BY <1>1, <1>2 DEF Next

-----------------------------------------------------------------------------
(***************************************************************************)
(* Control: what a step does to pc, call, reply, missed and the mutex.     *)
(***************************************************************************)
\* c holds the mutex the way its call asked for it.
Holds(c) == IF call[c].op \in Writers THEN M!Owns(rw, c) ELSE M!Reads(rw, c)

\* The operation that has the loop or the recursion at step.
Owner(step) ==
    CASE step = "bind" -> "SetParents"
      [] step = "unbind" -> "RemoveParents"
      [] step = "scrub" -> "Remove"
      [] step = "walk" -> "IsGranted"

\* The call of c is answered.
Answers(c) ==
    /\ \/ pc[c] = "start" /\ call[c].op \in RoleCalls
       \/ pc[c] = "body" /\ Holds(c)
       \/ pc[c] \in Loops \cup {"walk"}
    /\ \E r : r # Contract!NoReply /\ Answer(c, r)
    /\ UNCHANGED missed

\* The operation of c enters its loop or its recursion.
Enters(c) ==
    /\ pc[c] = "body" /\ Holds(c)
    /\ \E step \in Loops \cup {"walk"} :
          /\ Goto(c, step) /\ call[c].op = Owner(step)
          /\ step # "walk" => UNCHANGED missed
    /\ \E S : missed' = [missed EXCEPT ![c] = S]
    /\ UNCHANGED <<call, reply, rw>>

\* c goes on where it is.
Continues(c) ==
    /\ pc[c] # "walk" => UNCHANGED missed
    /\ \E S : missed' = [missed EXCEPT ![c] = S]
    /\ UNCHANGED <<pc, call, reply, rw>>

\* An edit answers, enters its loop or goes on with it.
LEMMA EditControl ==
    ASSUME TypeOK, NEW c \in Client,
           \/ Add(c) \/ Remove(c) \/ ScrubEntry(c)
           \/ SetParents(c) \/ BindParent(c) \/ RemoveParents(c) \/ UnbindParent(c)
           \/ LoopDone(c) \/ EditRole(c)
    PROVE  Answers(c) \/ Enters(c) \/ Continues(c)
<1>0. missed = [missed EXCEPT ![c] = missed[c]]
    BY DEF TypeOK
<1>1. CASE Add(c)
    BY <1>1 DEF Add, Enter, At, Report, Answers, Holds, Contract!Ok, Contract!Status,
                Contract!Exist, Contract!NoReply
<1>2. CASE Remove(c)
    BY <1>0, <1>2 DEF Remove, Enter, At, Report, Loop, Answers, Enters, Holds, Owner, Loops,
                Contract!Ok, Contract!Status, Contract!NotExist, Contract!NoReply
<1>3. CASE SetParents(c)
    BY <1>0, <1>3 DEF SetParents, Enter, At, Report, Loop, Answers, Enters, Holds, Owner, Loops,
                Contract!Ok, Contract!Status, Contract!NotExist, Contract!NoReply
<1>4. CASE RemoveParents(c)
    BY <1>0, <1>4 DEF RemoveParents, Enter, At, Report, Loop, Answers, Enters, Holds, Owner, Loops,
                Contract!Ok, Contract!Status, Contract!NotExist, Contract!NoReply
<1>5. CASE ScrubEntry(c) \/ BindParent(c) \/ UnbindParent(c)
    BY <1>0, <1>5 DEF ScrubEntry, BindParent, UnbindParent, Iterate, At, Continues
<1>6. CASE LoopDone(c)
    BY <1>6 DEF LoopDone, At, Report, Answers, Loops, Contract!Ok, Contract!Status, Contract!NoReply
<1>7. CASE EditRole(c)
    BY <1>7 DEF EditRole, At, Answers, RoleCalls, Contract!Ok, Contract!Status, Contract!NoReply
<1> QED
    BY <1>1, <1>2, <1>3, <1>4, <1>5, <1>6, <1>7

\* A query answers, enters its search or goes on with it.
LEMMA QueryControl ==
    ASSUME TypeOK, NEW c \in Client,
           \/ Get(c) \/ GetParents(c) \/ RoleIDs(c)
           \/ IsGranted(c) \/ Descend(c) \/ Ascend(c)
    PROVE  Answers(c) \/ Enters(c) \/ Continues(c)
<1>0. missed = [missed EXCEPT ![c] = missed[c]]
    BY DEF TypeOK
<1>1. CASE Get(c) \/ GetParents(c) \/ RoleIDs(c)
    BY <1>1 DEF Get, GetParents, RoleIDs, Enter, At, Report, Answers, Holds,
                Contract!Found, Contract!Listed, Contract!Status, Contract!NotExist,
                Contract!NoReply
<1>2. ASSUME NEW x, NEW outer, Visit(c, x, outer),
             (pc[c] = "body" /\ Holds(c) /\ call[c].op = "IsGranted") \/ pc[c] = "walk"
      PROVE  Answers(c) \/ Enters(c) \/ Continues(c)
    <2>1. CASE Answer(c, Contract!Granted(TRUE)) /\ UNCHANGED missed
        BY <1>2, <2>1 DEF Answers, Contract!Granted, Contract!NoReply
    <2>2. CASE /\ missed' = [missed EXCEPT ![c] = @ \cup {roles[x]}]
               /\ Goto(c, "walk")
               /\ UNCHANGED <<call, reply, rw>>
        <3>1. \E S : missed' = [missed EXCEPT ![c] = S]
            BY <2>2
        <3>2. CASE pc[c] = "body"
            BY <1>2, <2>2, <3>1, <3>2 DEF Enters, Owner
        <3>3. CASE pc[c] = "walk"
            <4>1. pc' = pc
                BY <2>2, <3>3 DEF Goto, TypeOK
            <4> QED
                BY <2>2, <3>1, <3>3, <4>1 DEF Continues
        <3> QED
            BY <1>2, <3>2, <3>3
    <2>3. CASE UNCHANGED <<call, reply, missed, rw, pc>>
        BY <1>0, <2>3 DEF Continues
    <2> QED
        BY <1>2, <2>1, <2>2, <2>3 DEF Visit
<1>3. CASE IsGranted(c)
    <2>1. pc[c] = "body" /\ Holds(c) /\ call[c].op = "IsGranted"
        BY <1>3 DEF IsGranted, Enter, At, Holds
    <2>2. CASE Visit(c, call[c].id, <<>>)
        BY <1>2, <2>1, <2>2
    <2>3. CASE Report(c, Contract!Granted(FALSE))
        BY <2>1, <2>3 DEF Report, Answers, Contract!Granted, Contract!NoReply
    <2> QED
        BY <1>3, <2>2, <2>3 DEF IsGranted
<1>4. CASE Descend(c)
    BY <1>2, <1>4 DEF Descend, At
<1>5. CASE Ascend(c)
    BY <1>0, <1>5 DEF Ascend, At, Answers, Continues, Contract!Granted, Contract!NoReply
<1> QED
    BY <1>1, <1>3, <1>4, <1>5

\* Every step of a client is one of these.
LEMMA StepControl ==
    ASSUME TypeOK, NEW c \in Client, Begin(c) \/ Step(c)
    PROVE  \/ Begin(c) \/ Lock(c) \/ RLock(c) \/ Finish(c)
           \/ Answers(c) \/ Enters(c) \/ Continues(c)
BY EditControl, QueryControl DEF Step

\* A request is not the value that stands for no call.
LEMMA RequestIsCall ==
    ASSUME NEW q \in Requests
    PROVE  q # Contract!NoCall
BY RequestsAssumption DEF Contract!RequestType, Contract!NoCall

\* At first nobody is in a call or holds the lock.
LEMMA InitControl == Init => ControlInv /\ MutexInv
BY DEF Init, ControlInv, MutexInv, MutexOf, Engaged, M!Free

\* Every step keeps a client's place in line with its call.
LEMMA NextControl ==
    ASSUME TypeOK, ControlInv, [Next]_lvars
    PROVE  ControlInv'
<1>1. CASE UNCHANGED lvars
    BY <1>1 DEF lvars, ControlInv
<1>2. ASSUME NEW c \in Client, Begin(c) \/ Step(c)
      PROVE  ControlInv'
    <2>1. CASE Begin(c)
        <3>1. PICK q \in Requests : call' = [call EXCEPT ![c] = q]
            BY <2>1 DEF Begin
        <3> QED
            BY <2>1, <3>1, RequestIsCall DEF Begin, At, Goto, ControlInv, TypeOK
    <2>2. CASE Lock(c) \/ RLock(c)
        BY <2>2 DEF Lock, RLock, At, Goto, ControlInv, TypeOK
    <2>3. CASE Finish(c)
        BY <2>3 DEF Finish, At, Goto, ControlInv, TypeOK
    <2>4. CASE Answers(c)
        BY <2>4 DEF Answers, Answer, Goto, Loops, ControlInv, TypeOK
    <2>5. CASE Enters(c)
        BY <2>5 DEF Enters, Goto, Loops, Owner, ControlInv, TypeOK
    <2>6. CASE Continues(c)
        BY <2>6 DEF Continues, ControlInv, TypeOK
    <2> QED
        BY <1>2, <2>1, <2>2, <2>3, <2>4, <2>5, <2>6, StepControl
<1> QED
    BY <1>1, <1>2 DEF Next

\* Every step keeps the lock with the clients that hold it.
LEMMA NextMutex ==
    ASSUME TypeOK, ControlInv, MutexInv, [Next]_lvars
    PROVE  MutexInv'
<1>0. /\ rw \in M!Type(Client) /\ call \in [Client -> Requests \cup {Contract!NoCall}]
      /\ pc \in [Client -> Steps]
    BY DEF TypeOK
<1>1. CASE UNCHANGED lvars
    BY <1>1 DEF lvars, MutexInv, MutexOf, Engaged
<1>2. ASSUME NEW c \in Client, Begin(c) \/ Step(c)
      PROVE  MutexInv'
    <2>1. CASE Begin(c)
        BY <1>0, <2>1 DEF Begin, At, Goto, MutexInv, MutexOf, Engaged
    <2>2. CASE Lock(c)
        <3>1. /\ pc' = [pc EXCEPT ![c] = "body"] /\ call' = call
              /\ pc[c] = "start" /\ call[c].op \in Writers
              /\ rw.writer = {} /\ rw' = [rw EXCEPT !.writer = {c}]
            BY <2>2 DEF Lock, At, Goto, M!CanAnnounce, M!Announce
        <3>2. rw'.writer = {c} /\ rw'.readers = rw.readers /\ rw'.waiting = rw.waiting
            BY <1>0, <3>1 DEF M!Type
        <3>3. ASSUME NEW d \in Client
              PROVE  MutexOf(d)'
            BY <1>0, <3>1, <3>2 DEF MutexInv, MutexOf, Engaged
        <3> QED
            BY <3>2, <3>3 DEF MutexInv
    <2>3. CASE RLock(c)
        BY <1>0, <2>3 DEF RLock, At, Goto, MutexInv, MutexOf, Engaged, M!RLock, M!Type
    <2>4. CASE Finish(c)
        <3>1. /\ pc[c] = "unlock" /\ pc' = [pc EXCEPT ![c] = "idle"]
              /\ call' = [call EXCEPT ![c] = Contract!NoCall] /\ rw' = Released(c)
            BY <2>4 DEF Finish, At, Goto
        <3>2. MutexOf(c) /\ Engaged(c)
            BY <3>1 DEF MutexInv, Engaged
        <3>3. CASE call[c].op \in RoleCalls
            <4>1. rw' = rw /\ c \notin rw.writer \cup rw.readers \cup rw.waiting
                BY <3>1, <3>2, <3>3 DEF Released, MutexOf, RoleCalls, Writers
            <4>2. ASSUME NEW d \in Client
                  PROVE  MutexOf(d)'
                BY <1>0, <3>1, <4>1 DEF MutexInv, MutexOf, Engaged
            <4> QED
                BY <4>1, <4>2 DEF MutexInv
        <3>4. CASE call[c].op \in Writers
            <4>1. /\ rw.writer = {c} /\ c \notin rw.readers \cup rw.waiting
                  /\ rw'.writer = {} /\ rw'.waiting = {}
                  /\ rw'.readers = rw.readers \cup rw.waiting
                BY <3>1, <3>2, <3>4 DEF Released, MutexInv, MutexOf, RoleCalls, Writers, M!Unlock
            <4>2. ASSUME NEW d \in Client
                  PROVE  MutexOf(d)'
                BY <1>0, <3>1, <4>1 DEF MutexInv, MutexOf, Engaged
            <4> QED
                BY <4>1, <4>2 DEF MutexInv
        <3>5. CASE call[c].op \notin Writers \cup RoleCalls
            <4>1. /\ c \notin rw.writer /\ c \notin rw.waiting
                  /\ rw'.writer = rw.writer /\ rw'.waiting = rw.waiting
                  /\ rw'.readers = rw.readers \ {c}
                BY <1>0, <3>1, <3>2, <3>5 DEF Released, MutexOf, M!RUnlock, M!Type
            <4>2. ASSUME NEW d \in Client
                  PROVE  MutexOf(d)'
                BY <1>0, <3>1, <4>1 DEF MutexInv, MutexOf, Engaged
            <4> QED
                BY <4>1, <4>2 DEF MutexInv
        <3> QED
            BY <3>3, <3>4, <3>5
    <2>5. CASE Answers(c) \/ Enters(c)
        <3>1. /\ UNCHANGED <<call, rw>>
              /\ \E s \in Loops \cup {"walk", "unlock"} : pc' = [pc EXCEPT ![c] = s]
            BY <2>5 DEF Answers, Answer, Enters, Goto
        <3>2. PICK s \in Loops \cup {"walk", "unlock"} : pc' = [pc EXCEPT ![c] = s]
            BY <3>1
        <3>3. s \notin {"idle", "start", "body"} /\ MutexOf(c)
            BY <3>2 DEF Loops, MutexInv
        <3>4. \/ pc[c] = "start" /\ call[c].op \in RoleCalls /\ call[c].op \notin Writers
              \/ pc[c] = "body" /\ Holds(c)
              \/ Engaged(c) /\ pc[c] # "body"
            BY <2>5 DEF Answers, Enters, Engaged, Loops, RoleCalls, Writers
        <3>5. pc[c] = "body" => /\ call[c].op \in Writers => rw.readers = {}
                                /\ call[c].op \notin Writers => c \in rw.readers
            BY <3>4 DEF Holds, Engaged, M!Owns, M!Reads
        <3>6. c \notin rw.waiting
            BY <3>3, <3>4, <3>5 DEF MutexOf, Engaged
        <3>7. MutexOf(c)'
            BY <1>0, <3>1, <3>2, <3>3, <3>4, <3>5, <3>6 DEF MutexOf, Engaged
        <3>8. ASSUME NEW d \in Client, d # c
              PROVE  MutexOf(d)'
            BY <1>0, <3>1, <3>2, <3>8 DEF MutexInv, MutexOf, Engaged
        <3> QED
            BY <3>1, <3>7, <3>8 DEF MutexInv
    <2>6. CASE Continues(c)
        BY <2>6 DEF Continues, MutexInv, MutexOf, Engaged
    <2> QED
        BY <1>2, <2>1, <2>2, <2>3, <2>4, <2>5, <2>6, StepControl
<1> QED
    BY <1>1, <1>2 DEF Next

-----------------------------------------------------------------------------
(***************************************************************************)
(* Who edits the hierarchy is alone with it.                               *)
(***************************************************************************)
\* A step of c leaves the other clients where they are.
LEMMA OthersKeep ==
    ASSUME TypeOK, NEW c \in Client, Begin(c) \/ Step(c), NEW d \in Client, d # c
    PROVE  /\ pc'[d] = pc[d] /\ call'[d] = call[d] /\ reply'[d] = reply[d]
           /\ missed'[d] = missed[d] /\ todo'[d] = todo[d] /\ stack'[d] = stack[d]
<1>1. CASE Begin(c) \/ Lock(c) \/ RLock(c) \/ Finish(c)
    BY <1>1 DEF TypeOK, Begin, Lock, RLock, Finish, Goto
<1>2. CASE Add(c) \/ Remove(c) \/ SetParents(c) \/ RemoveParents(c) \/ LoopDone(c)
           \/ ScrubEntry(c) \/ BindParent(c) \/ UnbindParent(c)
    BY <1>2 DEF TypeOK, Add, Remove, SetParents, RemoveParents, LoopDone,
                ScrubEntry, BindParent, UnbindParent, Loop, Iterate, Report, Answer, Goto
<1>3. CASE Get(c) \/ GetParents(c) \/ RoleIDs(c) \/ EditRole(c)
    BY <1>3 DEF TypeOK, Get, GetParents, RoleIDs, EditRole, Report, Answer, Goto
<1>4. ASSUME NEW x, NEW outer, Visit(c, x, outer)
      PROVE  /\ pc'[d] = pc[d] /\ call'[d] = call[d] /\ reply'[d] = reply[d]
             /\ missed'[d] = missed[d] /\ todo'[d] = todo[d] /\ stack'[d] = stack[d]
    BY <1>4 DEF TypeOK, Visit, Answer, Goto
<1>5. CASE IsGranted(c) \/ Descend(c)
    BY <1>4, <1>5 DEF TypeOK, IsGranted, Descend, Report, Answer, Goto
<1>6. CASE Ascend(c)
    BY <1>6 DEF TypeOK, Ascend, Answer, Goto
<1> QED
    BY <1>1, <1>2, <1>3, <1>5, <1>6 DEF Step

\* c holds the mutex for writing, or is in a loop: no other is, or walks.
LEMMA WriterAlone ==
    ASSUME MutexInv, ControlInv, NEW c \in Client, NEW d \in Client, d # c,
           (call[c].op \in Writers /\ M!Owns(rw, c)) \/ pc[c] \in Loops
    PROVE  pc[d] \notin Loops \cup {"walk"}
<1>1. c \in rw.writer /\ rw.readers = {}
    <2>1. CASE pc[c] \in Loops
        <3>1. Engaged(c) /\ pc[c] # "body" /\ call[c].op \in Writers
            BY <2>1 DEF ControlInv, Loops, Engaged, Writers
        <3> QED
            BY <3>1 DEF MutexInv, MutexOf
    <2>2. CASE M!Owns(rw, c)
        BY <2>2 DEF M!Owns
    <2> QED
        BY <2>1, <2>2
<1>2. ASSUME pc[d] \in Loops
      PROVE  FALSE
    <2>1. Engaged(d) /\ call[d].op \in Writers
        BY <1>2 DEF ControlInv, Loops, Engaged, Writers
    <2> QED
        BY <1>1, <2>1 DEF MutexInv, MutexOf
<1>3. ASSUME pc[d] = "walk"
      PROVE  FALSE
    <2>1. Engaged(d) /\ call[d].op \notin Writers \cup RoleCalls
        BY <1>3 DEF ControlInv, Engaged, Writers, RoleCalls
    <2> QED
        BY <1>1, <1>3, <2>1 DEF MutexInv, MutexOf
<1> QED
    BY <1>2, <1>3

\* The registry and the links change only under the mutex.
LEMMA EditAlone ==
    ASSUME TypeOK, MutexInv, ControlInv, NEW c \in Client, Begin(c) \/ Step(c),
           NEW d \in Client, d # c, pc[d] \in Loops \cup {"walk"}
    PROVE  UNCHANGED <<roles, parents>>
<1>1. /\ ~(call[c].op \in Writers /\ M!Owns(rw, c))
      /\ pc[c] \notin Loops
    BY WriterAlone
<1>2. ~Add(c) /\ ~Remove(c) /\ ~SetParents(c) /\ ~RemoveParents(c)
    BY <1>1 DEF Add, Remove, SetParents, RemoveParents, Enter, Writers
<1>3. ~ScrubEntry(c) /\ ~BindParent(c) /\ ~UnbindParent(c) /\ ~LoopDone(c)
    BY <1>1 DEF ScrubEntry, BindParent, UnbindParent, LoopDone, Iterate, At, Loops
<1>4. CASE Begin(c) \/ Lock(c) \/ RLock(c) \/ Finish(c)
    BY <1>4 DEF Begin, Lock, RLock, Finish, hvars
<1>5. CASE Get(c) \/ GetParents(c) \/ RoleIDs(c) \/ EditRole(c)
    BY <1>5 DEF Get, GetParents, RoleIDs, EditRole, Report, hvars, AssignPerms, RevokePerms
<1>6. ASSUME NEW x, NEW outer, Visit(c, x, outer)
      PROVE  UNCHANGED hvars
    BY <1>6 DEF Visit
<1>7. CASE IsGranted(c) \/ Descend(c) \/ Ascend(c)
    BY <1>6, <1>7 DEF IsGranted, Descend, Ascend, Report, hvars
<1> QED
    BY <1>2, <1>3, <1>4, <1>5, <1>7 DEF Step

-----------------------------------------------------------------------------
(***************************************************************************)
(* The registry, and the loops.                                            *)
(***************************************************************************)
\* Who changes the registry: Add, and Remove before its loop.
LEMMA RegistryKept ==
    ASSUME NEW c \in Client, Begin(c) \/ Step(c), ~Add(c), ~Remove(c)
    PROVE  roles' = roles
<1>1. CASE Begin(c) \/ Lock(c) \/ RLock(c) \/ Finish(c)
    BY <1>1 DEF Begin, Lock, RLock, Finish, hvars
<1>2. CASE SetParents(c) \/ RemoveParents(c) \/ LoopDone(c)
           \/ ScrubEntry(c) \/ BindParent(c) \/ UnbindParent(c)
    BY <1>2 DEF SetParents, RemoveParents, LoopDone, ScrubEntry, BindParent, UnbindParent,
                Iterate, Report, hvars
<1>3. CASE Get(c) \/ GetParents(c) \/ RoleIDs(c) \/ EditRole(c)
    BY <1>3 DEF Get, GetParents, RoleIDs, EditRole, Report, hvars, AssignPerms, RevokePerms
<1>4. ASSUME NEW x, NEW outer, Visit(c, x, outer)
      PROVE  UNCHANGED hvars
    BY <1>4 DEF Visit
<1>5. CASE IsGranted(c) \/ Descend(c) \/ Ascend(c)
    BY <1>4, <1>5 DEF IsGranted, Descend, Ascend, Report, hvars
<1> QED
    BY <1>1, <1>2, <1>3, <1>5 DEF Step

\* Every role stays registered under its own id.
LEMMA NextRegistered ==
    ASSUME TypeOK, RegisteredInv, [Next]_lvars
    PROVE  RegisteredInv'
<1>1. CASE UNCHANGED lvars
    BY <1>1 DEF lvars, RegisteredInv, Live
<1>2. ASSUME NEW c \in Client, Begin(c) \/ Step(c)
      PROVE  RegisteredInv'
    <2>1. CASE Add(c)
        <3>1. call[c].role \in Role
            BY <2>1, CallArguments DEF Add, Enter
        <3>2. CASE AddRole(call[c].role)
            BY <3>1, <3>2 DEF AddRole, RegisteredInv, Live
        <3>3. CASE roles' = roles
            BY <3>3 DEF RegisteredInv, Live
        <3> QED
            BY <2>1, <3>2, <3>3 DEF Add, Report, hvars
    <2>2. CASE Remove(c)
        BY <2>2 DEF Remove, Report, hvars, RegisteredInv, Live
    <2>3. CASE roles' = roles
        BY <2>3 DEF RegisteredInv, Live
    <2> QED
        BY <1>2, <2>1, <2>2, <2>3, RegistryKept
<1> QED
    BY <1>1, <1>2 DEF Next

\* Every step keeps what a loop has done and has still to do.
LEMMA NextLoop ==
    ASSUME TypeOK, MutexInv, ControlInv, LoopInv, [Next]_lvars
    PROVE  LoopInv'
<1>1. CASE UNCHANGED lvars
    BY <1>1 DEF lvars, LoopInv, LoopOf
<1>2. ASSUME NEW c \in Client, Begin(c) \/ Step(c), NEW d \in Client
      PROVE  LoopOf(d)'
    <2>1. CASE d # c
        <3>1. /\ pc'[d] = pc[d] /\ call'[d] = call[d] /\ todo'[d] = todo[d]
              /\ LoopOf(d)
            BY <1>2, <2>1, OthersKeep DEF LoopInv
        <3>2. CASE pc[d] \in Loops
            <4>1. parents' = parents
                BY <1>2, <2>1, <3>2, EditAlone
            <4> QED
                BY <3>1, <4>1 DEF LoopOf
        <3> QED
            BY <3>1, <3>2 DEF LoopOf, Loops
    <2>2. CASE d = c
        <3>0. /\ pc \in [Client -> Steps] /\ LoopOf(c)
              /\ todo \in [Client -> SUBSET ID]
              /\ DOMAIN parents \subseteq ID /\ parents \in [DOMAIN parents -> SUBSET ID]
            BY DEF TypeOK, HierarchyTypeOK, LoopInv
        <3>1. CASE SetParents(c)
            <4>1. pc[c] = "body"
                BY <3>1 DEF SetParents, Enter, At
            <4>2. CASE Loop(c, "bind", call[c].ps) /\ parents' = Bind(parents, call[c].id, {})
                BY <2>2, <3>0, <4>1, <4>2 DEF LoopOf, Loop, Goto, Bind
            <4>3. CASE Report(c, Contract!NotExist)
                BY <2>2, <3>0, <4>3 DEF LoopOf, Report, Answer, Goto
            <4> QED
                BY <3>1, <4>2, <4>3 DEF SetParents
        <3>2. CASE Remove(c)
            <4>1. CASE Loop(c, "scrub", DOMAIN parents) /\ parents' = parents
                BY <2>2, <3>0, <4>1 DEF LoopOf, Loop, Goto
            <4>2. CASE Report(c, Contract!NotExist)
                BY <2>2, <3>0, <4>2 DEF LoopOf, Report, Answer, Goto
            <4> QED
                BY <3>2, <4>1, <4>2 DEF Remove
        <3>3. CASE BindParent(c)
            BY <2>2, <3>0, <3>3 DEF BindParent, Iterate, At, LoopOf
        <3>4. CASE ScrubEntry(c)
            <4> DEFINE id == call[c].id
            <4>1. PICK x \in todo[c] :
                     Iterate(c, "scrub", x,
                         IF x = id THEN [y \in DOMAIN parents \ {id} |-> parents[y]]
                                   ELSE [parents EXCEPT ![x] = @ \ {id}])
                BY <3>4 DEF ScrubEntry
            <4>2. /\ pc[c] = "scrub" /\ pc' = pc /\ call' = call
                  /\ todo'[c] = todo[c] \ {x}
                BY <3>0, <4>1 DEF Iterate, At
            <4>3. \A y \in DOMAIN parents' \ todo'[c] : y # id /\ id \notin parents'[y]
                <5>1. CASE x = id
                    <6>1. parents' = [y \in DOMAIN parents \ {id} |-> parents[y]]
                        BY <4>1, <5>1 DEF Iterate
                    <6> QED
                        BY <3>0, <4>2, <5>1, <6>1 DEF LoopOf
                <5>2. CASE x # id
                    <6>1. parents' = [parents EXCEPT ![x] = @ \ {id}]
                        BY <4>1, <5>2 DEF Iterate
                    <6> QED
                        BY <3>0, <4>2, <5>2, <6>1 DEF LoopOf
                <5> QED
                    BY <5>1, <5>2
            <4> QED
                BY <2>2, <4>2, <4>3 DEF LoopOf
        <3>5. CASE pc'[c] \notin {"bind", "scrub"}
            BY <2>2, <3>5 DEF LoopOf
        <3>6. CASE ~SetParents(c) /\ ~Remove(c) /\ ~BindParent(c) /\ ~ScrubEntry(c)
            <4>1. CASE Begin(c) \/ Lock(c) \/ RLock(c) \/ Finish(c)
                BY <3>0, <3>5, <4>1 DEF Begin, Lock, RLock, Finish, Goto
            <4>2. CASE Add(c) \/ RemoveParents(c) \/ LoopDone(c) \/ UnbindParent(c)
                BY <3>0, <3>5, <4>2 DEF Add, RemoveParents, LoopDone, UnbindParent, Loop,
                   Iterate, At, Report, Answer, Goto
            <4>3. CASE Get(c) \/ GetParents(c) \/ RoleIDs(c) \/ EditRole(c)
                BY <3>0, <3>5, <4>3 DEF Get, GetParents, RoleIDs, EditRole, Report, Answer, Goto
            <4>4. ASSUME NEW x, NEW outer, Visit(c, x, outer), pc[c] \in {"body", "walk"}
                  PROVE  pc'[c] \notin {"bind", "scrub"}
                BY <3>0, <4>4 DEF Visit, Answer, Goto
            <4>5. CASE IsGranted(c) \/ Descend(c) \/ Ascend(c)
                BY <3>0, <3>5, <4>4, <4>5 DEF IsGranted, Descend, Ascend, Enter, At,
                   Report, Answer, Goto
            <4> QED
                BY <1>2, <3>6, <4>1, <4>2, <4>3, <4>5 DEF Step
        <3> QED
            BY <3>1, <3>2, <3>3, <3>4, <3>6
    <2> QED
        BY <2>1, <2>2
<1> QED
    BY <1>1, <1>2 DEF Next, LoopInv

-----------------------------------------------------------------------------
(***************************************************************************)
(* The recursion of IsGranted.                                             *)
(***************************************************************************)
\* c looks at x and goes on to its parents: x joins the roles it has looked
\* at, and its parents those it will.
LEMMA VisitEffect ==
    ASSUME TypeOK, RegisteredInv, NEW c \in Client, NEW x \in Live,
           NEW outer \in Seq(SUBSET ID),
           missed' = [missed EXCEPT ![c] = @ \cup {roles[x]}],
           stack' = [stack EXCEPT ![c] = <<Up(parents, x) \cap Live>> \o outer],
           UNCHANGED hvars
    PROVE  /\ Visited(c)' = Visited(c) \cup {x}
           /\ Ahead(c)' = (Up(parents, x) \cap Live) \cup Entries(outer)
<1>1. Visited(c)' = Visited(c) \cup {x}
    <2>1. missed'[c] = missed[c] \cup {roles[x]} /\ Live' = Live /\ roles' = roles
        BY DEF TypeOK, hvars, Live
    <2>2. \A y \in Live : roles[y] = roles[x] => y = x
        BY DEF RegisteredInv
    <2> QED
        BY <2>1, <2>2 DEF Visited
<1> DEFINE top == Up(parents, x) \cap Live
<1>2. top \in SUBSET ID
    BY DEF TypeOK, HierarchyTypeOK
<1>3. stack'[c] = <<top>> \o outer
    BY DEF TypeOK
<1> HIDE DEF top
<1> DEFINE new == <<top>> \o outer
<1>4. /\ DOMAIN new = 1 .. Len(outer) + 1
      /\ new[1] = top
      /\ \A i \in 1 .. Len(outer) : new[i + 1] = outer[i]
    BY <1>2, Pushed
<1>5. Len(outer) \in Nat /\ DOMAIN outer = 1 .. Len(outer)
    BY LenProperties
<1> HIDE DEF new
<1>6. Entries(new) = top \cup Entries(outer)
    <2>1. ASSUME NEW i \in DOMAIN new
          PROVE  new[i] = top \/ \E j \in DOMAIN outer : new[i] = outer[j]
        <3>1. CASE i = 1
            BY <1>4, <3>1
        <3>2. CASE i # 1
            <4>1. i - 1 \in 1 .. Len(outer) /\ (i - 1) + 1 = i
                BY <1>4, <1>5, <3>2
            <4> QED
                BY <1>4, <1>5, <4>1
        <3> QED
            BY <3>1, <3>2
    <2>2. ASSUME NEW j \in DOMAIN outer
          PROVE  j + 1 \in DOMAIN new /\ new[j + 1] = outer[j]
        BY <1>4, <1>5
    <2>3. 1 \in DOMAIN new /\ new[1] = top
        BY <1>4, <1>5
    <2> QED
        BY <2>1, <2>2, <2>3 DEF Entries
<1>7. Ahead(c)' = Entries(new)
    BY <1>3 DEF Ahead, new
<1> QED
    BY <1>1, <1>6, <1>7 DEF top

\* A return from an exhausted call of the recursion: what is ahead stays.
LEMMA AscendAhead ==
    ASSUME TypeOK, NEW c \in Client, pc[c] = "walk", Head(stack[c]) = {},
           stack' = [stack EXCEPT ![c] = Tail(@)]
    PROVE  Ahead(c)' = Ahead(c)
<1> DEFINE s == stack[c]
           t == Tail(s)
<1>1. s \in Seq(SUBSET ID) /\ s # <<>> /\ stack'[c] = t
    BY DEF TypeOK
<1>2. Head(s) = {}
    OBVIOUS
<1> HIDE DEF s
<1>3. /\ Len(s) \in Nat /\ Len(s) > 0 /\ DOMAIN s = 1 .. Len(s)
      /\ s[1] = {}
      /\ DOMAIN t = 1 .. Len(s) - 1
      /\ \A i \in 1 .. Len(s) - 1 : t[i] = s[i + 1]
    BY <1>1, <1>2, Popped
<1> HIDE DEF t
<1>4. ASSUME NEW i \in DOMAIN s, s[i] # {}
      PROVE  \E j \in DOMAIN t : t[j] = s[i]
    <2>1. i - 1 \in 1 .. Len(s) - 1 /\ (i - 1) + 1 = i
        BY <1>3, <1>4
    <2> QED
        BY <1>3, <2>1
<1>5. ASSUME NEW j \in DOMAIN t
      PROVE  j + 1 \in DOMAIN s /\ t[j] = s[j + 1]
    BY <1>3
<1>6. Entries(t) = Entries(s)
    BY <1>4, <1>5 DEF Entries
<1> QED
    BY <1>1, <1>6 DEF Ahead, s

\* Only IsGranted goes into the recursion, or stays in it.
LEMMA NotWalking ==
    ASSUME TypeOK, NEW c \in Client, Begin(c) \/ Step(c),
           ~IsGranted(c), ~Descend(c), ~Ascend(c)
    PROVE  pc'[c] # "walk"
<1>0. pc \in [Client -> Steps]
    BY DEF TypeOK
<1>1. CASE Begin(c) \/ Lock(c) \/ RLock(c) \/ Finish(c)
    BY <1>0, <1>1 DEF Begin, Lock, RLock, Finish, Goto
<1>2. CASE Add(c) \/ Remove(c) \/ SetParents(c) \/ RemoveParents(c) \/ LoopDone(c)
    BY <1>0, <1>2 DEF Add, Remove, SetParents, RemoveParents, LoopDone, Loop,
       Report, Answer, Goto
<1>3. CASE ScrubEntry(c) \/ BindParent(c) \/ UnbindParent(c)
    BY <1>0, <1>3 DEF ScrubEntry, BindParent, UnbindParent, Iterate, At
<1>4. CASE Get(c) \/ GetParents(c) \/ RoleIDs(c) \/ EditRole(c)
    BY <1>0, <1>4 DEF Get, GetParents, RoleIDs, EditRole, Report, Answer, Goto
<1> QED
    BY <1>1, <1>2, <1>3, <1>4 DEF Step

\* Every step keeps the invariant of the recursion of IsGranted.
LEMMA NextWalk ==
    ASSUME TypeOK, MutexInv, ControlInv, RegisteredInv, WalkInv, [Next]_lvars
    PROVE  WalkInv'
<1>1. CASE UNCHANGED lvars
    BY <1>1 DEF lvars, WalkInv, WalkOf, Visited, Ahead, Ancestors, Live
<1>2. ASSUME NEW c \in Client, Begin(c) \/ Step(c), NEW d \in Client
      PROVE  WalkOf(d)'
    <2>1. CASE d # c
        <3>1. /\ pc'[d] = pc[d] /\ call'[d] = call[d] /\ missed'[d] = missed[d]
              /\ stack'[d] = stack[d] /\ WalkOf(d)
            BY <1>2, <2>1, OthersKeep DEF WalkInv
        <3>2. CASE pc[d] = "walk"
            <4>1. roles' = roles /\ parents' = parents
                BY <1>2, <2>1, <3>2, EditAlone
            <4> QED
                BY <3>1, <4>1 DEF WalkOf, Visited, Ahead, Ancestors, Live
        <3> QED
            BY <3>1, <3>2 DEF WalkOf
    <2>2. CASE d = c
        <3>0. /\ pc \in [Client -> Steps] /\ WalkOf(c)
            BY DEF TypeOK, WalkInv
        <3> DEFINE id == call[c].id
        <3>1. ASSUME NEW x \in Live, NEW outer \in Seq(SUBSET ID),
                     missed' = [missed EXCEPT ![c] = @ \cup {roles[x]}],
                     stack' = [stack EXCEPT ![c] = <<Up(parents, x) \cap Live>> \o outer],
                     UNCHANGED <<hvars, call>>,
                     id \in Visited(c) \cup {x},
                     x \in Ancestors(id),
                     Entries(outer) \subseteq Ancestors(id),
                     \A y \in Visited(c) : Up(parents, y) \cap Live \subseteq
                        Visited(c) \cup {x} \cup Entries(outer)
              PROVE  WalkOf(c)'
            <4>1. /\ Visited(c)' = Visited(c) \cup {x}
                  /\ Ahead(c)' = (Up(parents, x) \cap Live)
                                   \cup Entries(outer)
                <5>1. UNCHANGED hvars
                    BY <3>1
                <5> QED
                    BY <3>1, <5>1, VisitEffect
            <4>2. Up(parents, x) \cap Live \subseteq Ancestors(id)
                BY <3>1, ReachClosed DEF ClosedUpward, Ancestors
            <4>3. /\ call'[c].id = id /\ Ancestors(id)' = Ancestors(id)
                  /\ Live' = Live /\ parents' = parents
                BY <3>1 DEF hvars, Ancestors, Live
            <4>4. Ancestors(call[c].id)' = Ancestors(id)
                BY <3>1 DEF hvars, Ancestors, Live
            <4> QED
                BY <3>1, <4>1, <4>2, <4>3, <4>4 DEF WalkOf
        <3>2. CASE IsGranted(c)
            <4>1. pc[c] = "body" /\ missed[c] = {} /\ Visited(c) = {}
                BY <3>2 DEF IsGranted, Enter, At, ControlInv, Visited
            <4>2. CASE id \in Live /\ Visit(c, id, <<>>)
                <5>1. <<>> \in Seq(SUBSET ID) /\ Entries(<<>>) = {}
                    BY EmptySeq DEF Entries
                <5>2. id \in Ancestors(id)
                    BY <4>2, ReachSelf DEF Ancestors
                <5>3. CASE /\ missed' = [missed EXCEPT ![c] = @ \cup {roles[id]}]
                           /\ stack' = [stack EXCEPT ![c] = <<Up(parents, id) \cap Live>> \o <<>>]
                           /\ UNCHANGED <<hvars, call>>
                    <6> DEFINE none == Entries(<<>>)
                    <6>1. /\ id \in Visited(c) \cup {id} /\ none \subseteq Ancestors(id)
                          /\ \A y \in Visited(c) : Up(parents, y) \cap Live \subseteq
                                Visited(c) \cup {id} \cup none
                        BY <4>1, <5>1
                    <6> QED
                        BY <2>2, <3>1, <4>2, <5>1, <5>2, <5>3, <6>1
                <5>4. CASE pc'[c] # "walk"
                    BY <2>2, <5>4 DEF WalkOf
                <5> QED
                    BY <3>0, <4>1, <4>2, <5>3, <5>4 DEF Visit, Answer, Goto
            <4>3. CASE Report(c, Contract!Granted(FALSE))
                BY <2>2, <3>0, <4>3 DEF Report, Answer, Goto, WalkOf
            <4> QED
                BY <2>2, <3>2, <4>2, <4>3 DEF IsGranted
        <3>3. CASE Descend(c)
            <4>1. PICK p \in Head(stack[c]) :
                     Visit(c, p, <<Head(stack[c]) \ {p}>> \o Tail(stack[c]))
                BY <3>3 DEF Descend
            <4> DEFINE rest == <<Head(stack[c]) \ {p}>> \o Tail(stack[c])
            <4>2. pc[c] = "walk"
                BY <3>3 DEF Descend, At
            <4>3. /\ p \in Live /\ p \in Ahead(c) /\ rest \in Seq(SUBSET ID)
                  /\ DOMAIN rest = DOMAIN stack[c]
                  /\ \A i \in DOMAIN stack[c] :
                        rest[i] = IF i = 1 THEN stack[c][1] \ {p} ELSE stack[c][i]
                BY <4>2, DescendStack
            <4>4. Visit(c, p, rest)
                BY <4>1
            <4> HIDE DEF rest
            <4>5. CASE /\ missed' = [missed EXCEPT ![c] = @ \cup {roles[p]}]
                       /\ stack' = [stack EXCEPT ![c] = <<Up(parents, p) \cap Live>> \o rest]
                       /\ UNCHANGED <<hvars, call>>
                <5>1. /\ Entries(rest) \subseteq Ahead(c)
                      /\ Ahead(c) \subseteq {p} \cup Entries(rest)
                    BY <4>3 DEF Ahead, Entries
                <5>2. /\ id \in Visited(c) \cup {p}
                      /\ p \in Ancestors(id)
                      /\ Entries(rest) \subseteq Ancestors(id)
                      /\ \A y \in Visited(c) : Up(parents, y) \cap Live \subseteq
                           Visited(c) \cup {p} \cup Entries(rest)
                    BY <3>0, <4>2, <4>3, <5>1 DEF WalkOf
                <5> QED
                    BY <2>2, <3>1, <4>3, <4>5, <5>2
            <4>6. CASE Answer(c, Contract!Granted(TRUE))
                BY <2>2, <3>0, <4>6 DEF Answer, Goto, WalkOf
            <4>7. CASE UNCHANGED <<hvars, call, missed, pc, stack>>
                BY <2>2, <3>0, <4>7 DEF WalkOf, Visited, Ahead, Ancestors, hvars, Live
            <4> QED
                BY <4>4, <4>5, <4>6, <4>7 DEF Visit
        <3>4. CASE Ascend(c)
            <4>1. pc[c] = "walk" /\ Head(stack[c]) = {} /\ stack' = [stack EXCEPT ![c] = Tail(@)]
                BY <3>4 DEF Ascend, At
            <4>2. CASE Answer(c, Contract!Granted(FALSE))
                BY <2>2, <3>0, <4>2 DEF Answer, Goto, WalkOf
            <4>3. CASE UNCHANGED <<hvars, call, missed, pc>>
                <5>1. Ahead(c)' = Ahead(c)
                    BY <4>1, AscendAhead
                <5>2. Visited(c)' = Visited(c) /\ Ancestors(call[c].id)' = Ancestors(call[c].id)
                    BY <4>3 DEF Visited, Ancestors, hvars, Live
                <5> QED
                    BY <2>2, <3>0, <4>3, <5>1, <5>2 DEF WalkOf, hvars, Live
            <4> QED
                BY <3>4, <4>2, <4>3 DEF Ascend
        <3>5. CASE pc'[c] # "walk"
            BY <2>2, <3>5 DEF WalkOf
        <3>6. CASE ~IsGranted(c) /\ ~Descend(c) /\ ~Ascend(c)
            BY <1>2, <3>5, <3>6, NotWalking
        <3> QED
            BY <2>2, <3>2, <3>3, <3>4, <3>6
    <2> QED
        BY <2>1, <2>2
<1> QED
    BY <1>1, <1>2 DEF Next, WalkInv

-----------------------------------------------------------------------------
(***************************************************************************)
(* The invariant and what follows from it.                                 *)
(***************************************************************************)
LEMMA InitInv == Init => IInv
<1> SUFFICES ASSUME Init
             PROVE  IInv
    OBVIOUS
<1>1. LoopInv /\ RegisteredInv /\ WalkInv
    BY DEF Init, HierarchyInit, LoopInv, LoopOf, RegisteredInv, Live, WalkInv, WalkOf
<1> QED
    BY <1>1, InitType, InitControl DEF IInv

\* The invariant is inductive.
LEMMA NextInv == IInv /\ [Next]_lvars => IInv'
BY NextType, NextControl, NextMutex, NextLoop, NextRegistered, NextWalk DEF IInv

\* The inductive invariant holds in every run.
THEOREM InvAlways == Spec => []IInv
BY InitInv, NextInv, PTL DEF Spec

\* Every variable holds a value of its kind, and the loop and recursion state
\* of a goroutine is empty outside its loops and its recursion.  The mutex of
\* rbac.go has at most one writer, in its queues is who has asked for it and not
\* released it, and a writer inside its operation has no reader beside it.
THEOREM TypeCorrect == Spec => [](TypeOK /\ MutexInv)
<1>1. IInv => TypeOK /\ MutexInv
    BY DEF IInv
<1> QED
    BY InvAlways, <1>1, PTL

\* A goroutine that edits the maps entry by entry is alone with them, however
\* many goroutines there are: no other is in a loop over them or in the
\* recursion of IsGranted.
THEOREM EditsExcludeAlways == Spec => []EditsExclude
<1>1. IInv => EditsExclude
    BY WriterAlone DEF IInv, EditsExclude, Loops
<1> QED
    BY InvAlways, <1>1, PTL

-----------------------------------------------------------------------------
(***************************************************************************)
(* The depth of the recursion.                                             *)
(***************************************************************************)
\* From a path of n ids to the path that a visit of x makes.
Longer(x, path, n) == [i \in 1 .. n + 1 |-> IF i = 1 THEN x ELSE path[i - 1]]

\* A path of links is made longer at its first id.
LEMMA LongerLinked ==
    ASSUME NEW n \in Nat, NEW path \in [1 .. n -> Live], Linked(path), NEW x \in Live,
           n > 0 => x \in Up(parents, path[1])
    PROVE  Longer(x, path, n) \in [1 .. n + 1 -> Live] /\ Linked(Longer(x, path, n))
<1> DEFINE new == Longer(x, path, n)
<1>1. \A i \in 1 .. n + 1 : i # 1 => i - 1 \in 1 .. n
    OBVIOUS
<1>2. /\ DOMAIN new = 1 .. n + 1 /\ new[1] = x
      /\ \A i \in 1 .. n + 1 : i # 1 => new[i] = path[i - 1]
    BY DEF Longer
<1>3. new \in [1 .. n + 1 -> Live]
    BY <1>1 DEF Longer
<1> HIDE DEF new
<1>4. ASSUME NEW i \in 1 .. n + 1, NEW j \in 1 .. n + 1, i < j
      PROVE  \E q \in Up(parents, new[j]) \cap Live : new[i] \in Reach(Live, parents, q)
    <2>1. j # 1 /\ j - 1 \in 1 .. n /\ new[j] = path[j - 1] /\ n > 0 /\ 1 \in 1 .. n
        BY <1>1, <1>2, <1>4
    <2>2. CASE i = 1 /\ j = 2
        <3>1. new[j] = path[1] /\ new[i] = x
            BY <1>2, <2>1, <2>2
        <3>2. x \in Reach(Live, parents, x)
            BY ReachSelf
        <3> QED
            BY <2>1, <3>1, <3>2
    <2>3. CASE i = 1 /\ j # 2
        <3>1. 1 < j - 1
            BY <2>1, <2>3
        <3>2. PICK q \in Up(parents, path[j - 1]) \cap Live : path[1] \in Reach(Live, parents, q)
            BY <2>1, <3>1 DEF Linked
        <3>3. x \in Reach(Live, parents, q)
            BY <2>1, <3>2, ReachClosed DEF ClosedUpward
        <3> QED
            BY <1>2, <2>1, <2>3, <3>2, <3>3
    <2>4. CASE i # 1
        <3>1. i - 1 \in 1 .. n /\ new[i] = path[i - 1] /\ i - 1 < j - 1
            BY <1>1, <1>2, <1>4, <2>4
        <3> QED
            BY <2>1, <3>1 DEF Linked
    <2> QED
        BY <2>2, <2>3, <2>4
<1> QED
    BY <1>2, <1>3, <1>4 DEF Linked, new

\* A path of more ids than there are roles comes back to a role.
LEMMA LongPathCycles ==
    ASSUME NEW n \in Nat, NEW path \in [1 .. n -> Live], Linked(path),
           IsFiniteSet(Live), Cardinality(Live) < n
    PROVE  Cyclic(Live, parents)
<1>1. IsFiniteSet(1 .. n) /\ Cardinality(1 .. n) = n
    BY FS_Interval
<1>2. PICK i, j \in 1 .. n : i # j /\ path[i] = path[j]
    BY <1>1, FS_PigeonHole
<1>3. ASSUME NEW k \in 1 .. n, NEW l \in 1 .. n, k < l, path[k] = path[l]
      PROVE  Cyclic(Live, parents)
    BY <1>3 DEF Linked, Cyclic
<1>4. i < j \/ j < i
    BY <1>2
<1> QED
    BY <1>2, <1>3, <1>4

\* The active calls below a visit of x are a way to x.
ComesTo(outer, x) ==
    \E path \in [1 .. Len(outer) -> Live] :
        /\ PathTo(outer, path)
        /\ Len(outer) > 0 => x \in Up(parents, path[1])

\* Going on to the parents of x makes the way one longer, and a way that is
\* longer than the stack comes back to a role or is longer than all roles.
LEMMA VisitPath ==
    ASSUME TypeOK, IsFiniteSet(Live), NEW x \in Live, NEW outer \in Seq(SUBSET ID),
           Len(outer) <= MaxDepth, ComesTo(outer, x)
    PROVE  /\ Len(outer) < MaxDepth => OnPath(<<Up(parents, x) \cap Live>> \o outer)
           /\ Len(outer) = MaxDepth => Cyclic(Live, parents) \/ Cardinality(Live) > MaxDepth
<1> DEFINE n == Len(outer)
           top == Up(parents, x) \cap Live
           new == <<top>> \o outer
<1>1. n \in Nat /\ DOMAIN outer = 1 .. n /\ MaxDepth \in Nat /\ Cardinality(Live) \in Nat
    BY LenProperties, MaxDepthAssumption, FS_CardinalityType
<1>2. PICK path \in [1 .. n -> Live] :
         PathTo(outer, path) /\ (n > 0 => x \in Up(parents, path[1]))
    BY DEF ComesTo
<1> DEFINE longer == Longer(x, path, n)
<1>3. longer \in [1 .. n + 1 -> Live] /\ Linked(longer)
    BY <1>1, <1>2, LongerLinked DEF PathTo
<1>4. top \in SUBSET ID
    BY DEF TypeOK, HierarchyTypeOK
<1>5. longer[1] = x /\ \A i \in 1 .. n : longer[i + 1] = path[i]
    BY <1>1 DEF Longer
<1> HIDE DEF longer
<1>6. top \subseteq Up(parents, longer[1]) \cap Live
    BY <1>5
<1> HIDE DEF top
<1>7. /\ Len(new) = n + 1 /\ DOMAIN new = 1 .. n + 1 /\ new[1] = top
      /\ \A i \in 1 .. n : new[i + 1] = outer[i]
    BY <1>4, Pushed
<1> HIDE DEF new
<1>8. ASSUME NEW i \in DOMAIN new
      PROVE  new[i] \subseteq Up(parents, longer[i]) \cap Live
    <2>1. CASE i = 1
        BY <1>6, <1>7, <2>1
    <2>2. CASE i # 1
        <3>1. i - 1 \in 1 .. n /\ (i - 1) + 1 = i
            BY <1>1, <1>7, <2>2
        <3>2. new[i] = outer[i - 1] /\ longer[i] = path[i - 1]
            BY <1>5, <1>7, <3>1
        <3> QED
            BY <1>1, <1>2, <3>1, <3>2 DEF PathTo
    <2> QED
        BY <2>1, <2>2
<1>9. PathTo(new, longer)
    BY <1>3, <1>8 DEF PathTo
<1>10. n < MaxDepth => OnPath(new)
    BY <1>1, <1>3, <1>7, <1>9 DEF OnPath
<1>11. (n = MaxDepth /\ Cardinality(Live) <= MaxDepth) => Cyclic(Live, parents)
    BY <1>1, <1>3, LongPathCycles
<1>12. n = MaxDepth => Cyclic(Live, parents) \/ Cardinality(Live) > MaxDepth
    BY <1>1, <1>11
<1> QED
    BY <1>10, <1>12 DEF new, top

\* A way is one still after a parent was taken from its last list, and that
\* parent is where it goes on; without its last call it is one, too.
LEMMA PathShortened ==
    ASSUME TypeOK, WalkInv, NEW c \in Client, pc[c] = "walk", OnPath(stack[c])
    PROVE  /\ OnPath(Tail(stack[c]))
           /\ \A p \in Head(stack[c]) :
                 ComesTo(<<Head(stack[c]) \ {p}>> \o Tail(stack[c]), p)
<1> DEFINE s == stack[c]
           t == Tail(s)
           n == Len(s)
<1>1. s \in Seq(SUBSET ID) /\ s # <<>>
    BY DEF TypeOK
<1>2. OnPath(s)
    OBVIOUS
<1>3. ASSUME NEW p \in Head(s)
      PROVE  ComesTo(<<Head(s) \ {p}>> \o t, p)
    <2> DEFINE rest == <<Head(s) \ {p}>> \o t
    <2>1. PICK path \in [1 .. n -> Live] : PathTo(s, path)
        BY <1>2 DEF OnPath
    <2>2. /\ Len(rest) = n /\ DOMAIN rest = DOMAIN s
          /\ 1 \in DOMAIN s /\ p \in s[1]
          /\ \A i \in DOMAIN s : rest[i] \subseteq s[i]
        <3>1. p \in Head(stack[c])
            BY <1>3
        <3>2. /\ Len(rest) = n /\ DOMAIN rest = DOMAIN s
              /\ 1 \in DOMAIN s /\ p \in s[1]
              /\ \A i \in DOMAIN s : rest[i] = IF i = 1 THEN s[1] \ {p} ELSE s[i]
            BY <3>1, DescendStack
        <3> HIDE DEF s, rest
        <3> QED
            BY <3>2
    <2> HIDE DEF s, rest
    <2>3. PathTo(rest, path)
        BY <2>1, <2>2 DEF PathTo
    <2>4. p \in Up(parents, path[1])
        BY <2>1, <2>2 DEF PathTo
    <2>5. ComesTo(rest, p)
        BY <2>1, <2>2, <2>3, <2>4 DEF ComesTo
    <2> QED
        BY <2>5 DEF rest, s
<1> HIDE DEF s
<1>4. OnPath(t)
    <2>1. PICK path \in [1 .. n -> Live] : PathTo(s, path) /\ n <= MaxDepth
        BY <1>2 DEF OnPath
    <2>2. /\ n \in Nat /\ n > 0 /\ Len(t) = n - 1 /\ MaxDepth \in Nat
          /\ DOMAIN s = 1 .. n /\ DOMAIN t = 1 .. n - 1
          /\ \A i \in 1 .. n - 1 : t[i] = s[i + 1]
        BY <1>1, Popped, MaxDepthAssumption
    <2> HIDE DEF t, n
    <2> DEFINE less == [i \in 1 .. n - 1 |-> path[i + 1]]
    <2>3. /\ less \in [1 .. n - 1 -> Live] /\ DOMAIN less = 1 .. n - 1
          /\ \A i \in 1 .. n - 1 : less[i] = path[i + 1] /\ i + 1 \in 1 .. n
        BY <2>1, <2>2
    <2> HIDE DEF less
    <2>4. Linked(less)
        <3> SUFFICES ASSUME NEW i \in 1 .. n - 1, NEW j \in 1 .. n - 1, i < j
                     PROVE  \E q \in Up(parents, less[j]) \cap Live :
                               less[i] \in Reach(Live, parents, q)
            BY <2>3 DEF Linked
        <3>1. i + 1 < j + 1 /\ i + 1 \in DOMAIN path /\ j + 1 \in DOMAIN path
            BY <2>1, <2>2, <2>3
        <3> QED
            BY <2>1, <2>3, <3>1 DEF PathTo, Linked
    <2>5. PathTo(t, less)
        BY <2>1, <2>2, <2>3, <2>4 DEF PathTo
    <2> QED
        BY <2>1, <2>2, <2>3, <2>5 DEF OnPath
<1> QED
    BY <1>3, <1>4 DEF s

\* A program that died stays dead, and dies in the recursion only.
LEMMA OnlyVisitCrashes ==
    ASSUME NEW c \in Client, Begin(c) \/ Step(c)
    PROVE  ~crashed /\ (crashed' => IsGranted(c) \/ Descend(c))
<1>1. CASE Begin(c) \/ Lock(c) \/ RLock(c) \/ Finish(c)
    BY <1>1 DEF Begin, Lock, RLock, Finish, At
<1>2. CASE Add(c) \/ Remove(c) \/ SetParents(c) \/ RemoveParents(c) \/ LoopDone(c)
    <2>1. ~crashed
        BY <1>2 DEF Add, Remove, SetParents, RemoveParents, LoopDone, Enter, At
    <2>2. crashed' = crashed
        BY <1>2 DEF Add, Remove, SetParents, RemoveParents, LoopDone, Loop, Report, Answer
    <2> QED
        BY <2>1, <2>2
<1>3. CASE ScrubEntry(c) \/ BindParent(c) \/ UnbindParent(c)
    <2>1. ~crashed /\ crashed' = crashed
        BY <1>3 DEF ScrubEntry, BindParent, UnbindParent, Iterate, At
    <2> QED
        BY <2>1
<1>4. CASE Get(c) \/ GetParents(c) \/ RoleIDs(c) \/ EditRole(c)
    <2>1. ~crashed /\ crashed' = crashed
        BY <1>4 DEF Get, GetParents, RoleIDs, EditRole, Enter, At, Report, Answer
    <2> QED
        BY <2>1
<1>5. CASE IsGranted(c) \/ Descend(c)
    <2>1. ~crashed
        BY <1>5 DEF IsGranted, Descend, Enter, At
    <2> QED
        BY <1>5, <2>1
<1>6. CASE Ascend(c)
    <2>1. ~crashed /\ crashed' = crashed
        BY <1>6 DEF Ascend, At, Answer
    <2> QED
        BY <2>1
<1> QED
    BY <1>1, <1>2, <1>3, <1>4, <1>5, <1>6 DEF Step

\* While the hierarchy rests, so does the path a stack stands for.
LEMMA OnPathKept ==
    ASSUME NEW c \in Client, UNCHANGED <<roles, parents>>, OnPath(stack'[c])
    PROVE  OnPath(stack[c])'
BY DEF OnPath, PathTo, Linked, Live

\* The empty stack stands for the empty path.
LEMMA EmptyOnPath == OnPath(<<>>) /\ \A x : ComesTo(<<>>, x)
<1>1. DOMAIN <<>> = {} /\ MaxDepth \in Nat /\ 1 .. 0 = {}
    BY EmptySeq, MaxDepthAssumption
<1>2. <<>> \in [1 .. 0 -> Live] /\ PathTo(<<>>, <<>>)
    BY <1>1 DEF PathTo, Linked
<1> DEFINE n == Len(<<>>)
<1>3. n = 0
    BY EmptySeq
<1> HIDE DEF n
<1>4. n <= MaxDepth /\ ~(n > 0) /\ <<>> \in [1 .. n -> Live] /\ PathTo(<<>>, <<>>)
    BY <1>1, <1>2, <1>3
<1> QED
    BY <1>4 DEF OnPath, ComesTo, n

DepthInv == IsFiniteSet(Live) /\ PathInv /\ CrashInv

\* Every step keeps the depth of a recursion with its path.
LEMMA NextDepth ==
    ASSUME IInv, IInv', DepthInv, [Next]_lvars
    PROVE  DepthInv'
<1>1. CASE UNCHANGED lvars
    BY <1>1 DEF lvars, DepthInv, PathInv, OnPath, PathTo, Linked, CrashInv, Cyclic, Live
<1>2. ASSUME NEW c \in Client, Begin(c) \/ Step(c)
      PROVE  DepthInv'
    <2>1. IsFiniteSet(Live)'
        <3>1. CASE Add(c)
            BY <3>1, FS_AddElement DEF Add, AddRole, Report, hvars, DepthInv, Live
        <3>2. CASE Remove(c)
            BY <3>2, FS_RemoveElement DEF Remove, Report, hvars, DepthInv, Live
        <3>3. CASE roles' = roles
            BY <3>3 DEF DepthInv, Live
        <3> QED
            BY <1>2, <3>1, <3>2, <3>3, RegistryKept
    <2>2. ASSUME NEW x \in Live, NEW outer \in Seq(SUBSET ID), Visit(c, x, outer),
                 Len(outer) <= MaxDepth, ComesTo(outer, x)
          PROVE  /\ pc'[c] = "walk" => OnPath(stack'[c])
                 /\ CrashInv'
        <3>1. /\ Len(outer) < MaxDepth => OnPath(<<Up(parents, x) \cap Live>> \o outer)
              /\ Len(outer) = MaxDepth => Cyclic(Live, parents) \/ Cardinality(Live) > MaxDepth
            BY <2>2, VisitPath DEF DepthInv, IInv
        <3>2. /\ ~crashed /\ roles' = roles /\ parents' = parents
              /\ stack \in [Client -> Seq(SUBSET ID)] /\ pc \in [Client -> Steps]
              /\ OnPath(stack[c])
            BY <1>2, <2>2, OnlyVisitCrashes DEF Visit, hvars, IInv, TypeOK, DepthInv, PathInv
        <3>3. CASE /\ Len(outer) < MaxDepth
                   /\ stack' = [stack EXCEPT ![c] = <<Up(parents, x) \cap Live>> \o outer]
                   /\ UNCHANGED crashed
            BY <3>1, <3>2, <3>3 DEF CrashInv
        <3>4. CASE Answer(c, Contract!Granted(TRUE))
            BY <3>2, <3>4 DEF Answer, Goto, CrashInv
        <3>5. CASE Len(outer) = MaxDepth /\ UNCHANGED stack
            BY <3>1, <3>2, <3>5 DEF CrashInv, Live
        <3> QED
            BY <2>2, <3>3, <3>4, <3>5 DEF Visit
    <2>3. CrashInv' /\ (pc'[c] = "walk" => UNCHANGED <<roles, parents>> /\ OnPath(stack'[c]))
        <3>1. CASE IsGranted(c)
            <4>1. CASE call[c].id \in Live /\ Visit(c, call[c].id, <<>>)
                <5>1. /\ <<>> \in Seq(SUBSET ID) /\ Len(<<>>) <= MaxDepth
                      /\ ComesTo(<<>>, call[c].id)
                    BY EmptySeq, EmptyOnPath DEF OnPath
                <5> QED
                    BY <2>2, <4>1, <5>1 DEF Visit, hvars
            <4>2. CASE Report(c, Contract!Granted(FALSE))
                BY <1>2, <4>2, OnlyVisitCrashes DEF Report, Answer, Goto, CrashInv, IInv, TypeOK
            <4> QED
                BY <3>1, <4>1, <4>2 DEF IsGranted
        <3>2. CASE Descend(c)
            <4>1. PICK p \in Head(stack[c]) :
                     Visit(c, p, <<Head(stack[c]) \ {p}>> \o Tail(stack[c]))
                BY <3>2 DEF Descend
            <4> DEFINE rest == <<Head(stack[c]) \ {p}>> \o Tail(stack[c])
            <4>2. pc[c] = "walk" /\ OnPath(stack[c])
                BY <3>2 DEF Descend, At, DepthInv, PathInv
            <4>3. p \in Live /\ rest \in Seq(SUBSET ID) /\ Len(rest) = Len(stack[c])
                BY <4>2, DescendStack DEF IInv
            <4>4. ComesTo(rest, p)
                BY <4>2, PathShortened DEF IInv
            <4>5. Len(rest) <= MaxDepth
                BY <4>2, <4>3 DEF OnPath
            <4>6. Visit(c, p, rest)
                BY <4>1
            <4> HIDE DEF rest
            <4> QED
                BY <2>2, <4>3, <4>4, <4>5, <4>6 DEF Visit, hvars
        <3>3. CASE Ascend(c)
            <4>1. pc[c] = "walk" /\ OnPath(stack[c])
                BY <3>3 DEF Ascend, At, DepthInv, PathInv
            <4>2. stack'[c] = Tail(stack[c]) /\ UNCHANGED <<roles, parents>>
                BY <3>3 DEF Ascend, Answer, IInv, TypeOK, hvars
            <4>3. OnPath(Tail(stack[c]))
                BY <4>1, PathShortened DEF IInv
            <4>4. ~crashed'
                BY <1>2, <3>3, OnlyVisitCrashes DEF Ascend, Answer
            <4> QED
                BY <4>2, <4>3, <4>4 DEF CrashInv
        <3>4. CASE ~IsGranted(c) /\ ~Descend(c) /\ ~Ascend(c)
            BY <1>2, <3>4, NotWalking, OnlyVisitCrashes DEF IInv, CrashInv
        <3> QED
            BY <3>1, <3>2, <3>3, <3>4
    <2>4. ASSUME NEW d \in Client
          PROVE  OnPath(stack[d])'
        <3>1. CASE pc'[d] # "walk"
            <4>1. stack'[d] = <<>>
                BY <3>1 DEF IInv, TypeOK
            <4>2. OnPath(<<>>)'
                BY EmptyOnPath, PTL
            <4> QED
                BY <4>1, <4>2 DEF OnPath
        <3>2. CASE pc'[d] = "walk" /\ d # c
            <4>1. pc[d] = "walk" /\ stack'[d] = stack[d]
                BY <1>2, <3>2, OthersKeep DEF IInv
            <4>2. UNCHANGED <<roles, parents>>
                BY <1>2, <3>2, <4>1, EditAlone DEF IInv
            <4>3. OnPath(stack'[d])
                BY <4>1 DEF DepthInv, PathInv
            <4> QED
                BY <4>2, <4>3, OnPathKept
        <3>3. CASE pc'[d] = "walk" /\ d = c
            BY <2>3, <3>3, OnPathKept
        <3> QED
            BY <3>1, <3>2, <3>3
    <2> QED
        BY <2>1, <2>3, <2>4 DEF DepthInv, PathInv
<1> QED
    BY <1>1, <1>2 DEF Next

\* IsGranted exhausts the stack only in a hierarchy with a cycle, or with a
\* chain of more roles than the stack takes calls.
THEOREM OverflowOnCycleOrChain ==
    Spec => [](crashed => Cyclic(Live, parents) \/ Cardinality(Live) > MaxDepth)
<1>1. ASSUME Init
      PROVE  DepthInv
    <2>1. IsFiniteSet(Live)
        BY <1>1, FS_EmptySet DEF Init, HierarchyInit, Live
    <2>2. PathInv
        BY <1>1, EmptyOnPath DEF Init, PathInv
    <2> QED
        BY <1>1, <2>1, <2>2 DEF Init, DepthInv, CrashInv
<1>2. IInv /\ IInv' /\ DepthInv /\ [Next]_lvars => DepthInv'
    BY NextDepth
<1>3. DepthInv => (crashed => Cyclic(Live, parents) \/ Cardinality(Live) > MaxDepth)
    BY DEF DepthInv, CrashInv
<1> QED
    BY <1>1, <1>2, <1>3, InvAlways, PTL DEF Spec

\* With no more ids than the stack takes calls, it does so only in a
\* hierarchy with a cycle: the recursion of an acyclic one ends.
THEOREM OverflowOnlyOnCycleAlways ==
    ASSUME IsFiniteSet(ID), Cardinality(ID) <= MaxDepth
    PROVE  Spec => []OverflowOnlyOnCycle
<1>1. IInv => Cardinality(Live) \in Nat /\ Cardinality(Live) <= Cardinality(ID)
    BY FS_Subset, FS_CardinalityType DEF IInv, TypeOK, HierarchyTypeOK
<1>2. Cardinality(ID) \in Nat /\ MaxDepth \in Nat
    BY FS_CardinalityType, MaxDepthAssumption
<1>3. IInv /\ (crashed => Cyclic(Live, parents) \/ Cardinality(Live) > MaxDepth)
         => OverflowOnlyOnCycle
    BY <1>1, <1>2 DEF OverflowOnlyOnCycle
<1> QED
    BY <1>3, InvAlways, OverflowOnCycleOrChain, PTL

-----------------------------------------------------------------------------
(***************************************************************************)
(* The refinement.  Each step is, under the mapping of StdRBACLocking, a   *)
(* step of the contract StdRBAC or changes nothing the contract speaks of. *)
(* First: the contract's graph is the same graph.                          *)
(***************************************************************************)
LEMMA SameGraph ==
    ASSUME NEW live, NEW links, NEW x, NEW ps
    PROVE  /\ Contract!Up(links, x) = Up(links, x)
           /\ Contract!Reach(live, links, x) = Reach(live, links, x)
           /\ Contract!Bind(links, x, ps) = Bind(links, x, ps)
           /\ Contract!Unbind(links, x, ps) = Unbind(links, x, ps)
           /\ Contract!Scrub(links, x) = Scrub(links, x)
<1>1. \A y : Contract!Up(links, y) = Up(links, y)
    BY DEF Contract!Up, Up
<1>2. \A S : Contract!ClosedUpward(live, links, S) <=> ClosedUpward(live, links, S)
    BY <1>1 DEF Contract!ClosedUpward, ClosedUpward
<1>3. Contract!Reach(live, links, x) = Reach(live, links, x)
    BY <1>2 DEF Contract!Reach, Reach
<1>4. Contract!Bind(links, x, ps) = Bind(links, x, ps)
    BY <1>1 DEF Contract!Bind, Bind
<1>5. /\ Contract!Unbind(links, x, ps) = Unbind(links, x, ps)
      /\ Contract!Scrub(links, x) = Scrub(links, x)
    BY DEF Contract!Unbind, Unbind, Contract!Scrub, Scrub
<1> QED
    BY <1>1, <1>3, <1>4, <1>5

-----------------------------------------------------------------------------
(***************************************************************************)
(* What the mapping makes of parents.                                      *)
(***************************************************************************)
Quiet == \A c \in Client : pc[c] \notin Loops

EffectiveInv ==
    /\ Quiet => EffectiveParents = parents
    /\ \A c \in Client :
          /\ pc[c] = "bind" => EffectiveParents = Bind(parents, call[c].id, todo[c])
          /\ pc[c] = "unbind" => EffectiveParents = Unbind(parents, call[c].id, todo[c])
          /\ pc[c] = "scrub" => EffectiveParents = Scrub(parents, call[c].id)

\* The state the contract is shown is the instance's, with the edit in
\* progress done.
LEMMA EffectiveIs == IInv => EffectiveInv
<1> SUFFICES ASSUME IInv
             PROVE  EffectiveInv
    OBVIOUS
<1>1. Quiet => EffectiveParents = parents
    BY DEF Quiet, EffectiveParents, In, Loops
<1>2. ASSUME NEW c \in Client, pc[c] \in Loops
      PROVE  /\ pc[c] = "bind" => EffectiveParents = Bind(parents, call[c].id, todo[c])
             /\ pc[c] = "unbind" => EffectiveParents = Unbind(parents, call[c].id, todo[c])
             /\ pc[c] = "scrub" => EffectiveParents = Scrub(parents, call[c].id)
    <2>1. \A d \in Client : d # c => pc[d] \notin Loops
        BY <1>2, WriterAlone DEF IInv
    <2>2. In("bind") \cup In("unbind") \cup In("scrub") = {c}
        BY <1>2, <2>1 DEF In, Loops
    <2>3. Editor = c
        <3>1. Editor \in In("bind") \cup In("unbind") \cup In("scrub")
            BY <2>2, Zenon DEF Editor
        <3> QED
            BY <2>2, <3>1
    <2>4. CASE pc[c] = "bind"
        <3>1. In("bind") # {} /\ In("unbind") = {} /\ In("scrub") = {}
            BY <2>1, <2>4 DEF In, Loops
        <3>2. EffectiveParents = Bind(parents, call[Editor].id, todo[Editor])
            BY <3>1 DEF EffectiveParents
        <3> QED
            BY <2>3, <2>4, <3>2
    <2>5. CASE pc[c] = "unbind"
        <3>1. In("bind") = {} /\ In("unbind") # {} /\ In("scrub") = {}
            BY <2>1, <2>5 DEF In, Loops
        <3>2. EffectiveParents = Unbind(parents, call[Editor].id, todo[Editor])
            BY <3>1 DEF EffectiveParents
        <3> QED
            BY <2>3, <2>5, <3>2
    <2>6. CASE pc[c] = "scrub"
        <3>1. In("bind") = {} /\ In("unbind") = {} /\ In("scrub") # {}
            BY <2>1, <2>6 DEF In, Loops
        <3>2. EffectiveParents = Scrub(parents, call[Editor].id)
            BY <3>1 DEF EffectiveParents
        <3> QED
            BY <2>3, <2>6, <3>2
    <2> QED
        BY <1>2, <2>4, <2>5, <2>6 DEF Loops
<1> QED
    BY <1>1, <1>2 DEF EffectiveInv, Loops

\* The same after a step.
LEMMA EffectiveNext == IInv' => EffectiveInv'
BY EffectiveIs, PTL

\* A client that is not in a loop, before its step and after it, leaves the
\* mapped parents as they are if it leaves parents.
LEMMA EffectiveKept ==
    ASSUME IInv, IInv', NEW c \in Client, Begin(c) \/ Step(c),
           pc[c] \notin Loops, pc'[c] \notin Loops, parents' = parents
    PROVE  EffectiveParents' = EffectiveParents
<1>1. EffectiveInv /\ EffectiveInv'
    BY EffectiveIs, EffectiveNext
<1>2. \A d \in Client : d # c => pc'[d] = pc[d] /\ call'[d] = call[d] /\ todo'[d] = todo[d]
    BY OthersKeep DEF IInv
<1>3. CASE Quiet
    <2>1. Quiet'
        BY <1>2, <1>3 DEF Quiet
    <2> QED
        BY <1>1, <1>3, <2>1 DEF EffectiveInv
<1>4. ASSUME NEW d \in Client, pc[d] \in Loops
      PROVE  EffectiveParents' = EffectiveParents
    <2>1. pc'[d] = pc[d] /\ call'[d] = call[d] /\ todo'[d] = todo[d]
        BY <1>2, <1>4
    <2> QED
        BY <1>1, <1>4, <2>1 DEF EffectiveInv, Loops
<1> QED
    BY <1>3, <1>4 DEF Quiet

\* The mapped answer changes for the client that takes the step only.
LEMMA EffectiveReplyStep ==
    ASSUME IInv, IInv', NEW c \in Client, Begin(c) \/ Step(c)
    PROVE  /\ EffectiveReply' =
                [EffectiveReply EXCEPT ![c] = IF pc'[c] \in Loops THEN Contract!Ok ELSE reply'[c]]
           /\ EffectiveReply[c] = IF pc[c] \in Loops THEN Contract!Ok ELSE reply[c]
<1>1. \A d \in Client : d # c => pc'[d] = pc[d] /\ reply'[d] = reply[d]
    BY OthersKeep DEF IInv
<1> QED
    BY <1>1 DEF EffectiveReply, Loops, Contract!Ok, Contract!Status

\* While an operation holds the mutex, or IsGranted walks, nobody loops but
\* the operation itself.
LEMMA HolderQuiet ==
    ASSUME IInv, NEW c \in Client, (pc[c] = "body" /\ Holds(c)) \/ pc[c] = "walk"
    PROVE  Quiet /\ EffectiveParents = parents
<1>1. Quiet
    <2> SUFFICES ASSUME NEW d \in Client, pc[d] \in Loops
                 PROVE  FALSE
        BY DEF Quiet
    <2>1. d # c
        BY DEF Loops
    <2>2. pc[c] # "walk"
        BY <2>1, WriterAlone DEF IInv
    <2>3. ~(call[c].op \in Writers /\ M!Owns(rw, c))
        BY <2>1, WriterAlone DEF IInv
    <2>4. c \in rw.readers
        BY <2>2, <2>3 DEF Holds, M!Reads
    <2>5. Engaged(d) /\ pc[d] # "body" /\ call[d].op \in Writers
        BY DEF IInv, ControlInv, Loops, Engaged, Writers
    <2>6. rw.readers = {}
        BY <2>5 DEF IInv, MutexInv, MutexOf
    <2> QED
        BY <2>4, <2>6
<1> QED
    BY <1>1, EffectiveIs DEF EffectiveInv

-----------------------------------------------------------------------------
(***************************************************************************)
(* Each operation is the contract's.                                       *)
(***************************************************************************)
\* A call that waits for its answer has none under the mapping.
LEMMA NoAnswerYet ==
    ASSUME IInv, NEW c \in Client, pc[c] \in {"start", "body", "walk"}
    PROVE  EffectiveReply[c] = Contract!NoReply
BY DEF IInv, ControlInv, EffectiveReply

\* Answering outside a loop answers the contract's call.
LEMMA AnswerMaps ==
    ASSUME IInv, IInv', NEW c \in Client, Begin(c) \/ Step(c), NEW r,
           pc[c] \notin Loops, Answer(c, r), UNCHANGED missed
    PROVE  Contract!Answer(c, r) /\ pc'[c] \notin Loops
<1>1. pc'[c] = "unlock" /\ reply'[c] = r /\ UNCHANGED call
    BY DEF Answer, Goto, IInv, TypeOK
<1> QED
    BY <1>1, EffectiveReplyStep DEF Contract!Answer, Loops

\* An answer is the answer of the contract.
LEMMA ReportMaps ==
    ASSUME IInv, IInv', NEW c \in Client, Begin(c) \/ Step(c), NEW r,
           pc[c] \notin Loops, Report(c, r)
    PROVE  Contract!Report(c, r)
<1>1. Contract!Answer(c, r) /\ pc'[c] \notin Loops
    BY AnswerMaps DEF Report
<1>2. EffectiveParents' = EffectiveParents
    BY <1>1, EffectiveKept DEF Report, hvars
<1> QED
    BY <1>1, <1>2 DEF Contract!Report, Contract!hvars, Report, hvars

\* Entering a loop answers Ok and does the whole edit at once.
LEMMA LoopMaps ==
    ASSUME IInv, IInv', NEW c \in Client, Begin(c) \/ Step(c),
           NEW step \in Loops, NEW S, pc[c] \notin Loops, Loop(c, step, S)
    PROVE  /\ Contract!Answer(c, Contract!Ok)
           /\ step = "bind" => EffectiveParents' = Bind(parents', call[c].id, S)
           /\ step = "unbind" => EffectiveParents' = Unbind(parents', call[c].id, S)
           /\ step = "scrub" => EffectiveParents' = Scrub(parents', call[c].id)
<1>1. pc'[c] = step /\ todo'[c] = S /\ UNCHANGED <<call, missed>>
    BY DEF Loop, Goto, IInv, TypeOK
<1>2. EffectiveInv'
    BY EffectiveNext
<1> QED
    BY <1>1, <1>2, EffectiveReplyStep DEF Contract!Answer, EffectiveInv

\* The start of a call is the contract's.
LEMMA BeginMaps ==
    ASSUME IInv, IInv', NEW c \in Client, Begin(c)
    PROVE  Contract!Invoke(c)
<1>1. pc[c] = "idle" /\ pc'[c] = "start" /\ parents' = parents
    BY DEF Begin, At, Goto, IInv, TypeOK, hvars
<1>2. EffectiveParents' = EffectiveParents
    BY <1>1, EffectiveKept DEF Loops
<1>3. EffectiveReply' = [EffectiveReply EXCEPT ![c] = EffectiveReply[c]]
    BY <1>1, EffectiveReplyStep DEF Begin, Loops
<1>4. EffectiveReply' = EffectiveReply
    BY <1>3 DEF EffectiveReply
<1>5. call[c] = Contract!NoCall
    BY <1>1 DEF IInv, ControlInv
<1> QED
    BY <1>1, <1>2, <1>4, <1>5 DEF Begin, Contract!Invoke, hvars

\* Taking the lock shows nothing to the contract.
LEMMA LockMaps ==
    ASSUME IInv, IInv', NEW c \in Client, Lock(c) \/ RLock(c)
    PROVE  UNCHANGED Contract!vars
<1>1. /\ pc[c] = "start" /\ pc'[c] = "body" /\ parents' = parents
      /\ UNCHANGED <<hvars, call, reply, missed>>
    BY DEF Lock, RLock, At, Goto, IInv, TypeOK, hvars
<1>2. EffectiveParents' = EffectiveParents
    BY <1>1, EffectiveKept DEF Loops, Step
<1>3. EffectiveReply' = [EffectiveReply EXCEPT ![c] = EffectiveReply[c]]
    BY <1>1, EffectiveReplyStep DEF Loops, Step
<1>4. EffectiveReply' = EffectiveReply
    BY <1>3 DEF EffectiveReply
<1> QED
    BY <1>1, <1>2, <1>4 DEF Contract!vars, hvars

\* The return of a call is the contract's.
LEMMA FinishMaps ==
    ASSUME IInv, IInv', NEW c \in Client, Finish(c)
    PROVE  Contract!Return(c)
<1>1. /\ pc[c] = "unlock" /\ pc'[c] = "idle" /\ parents' = parents
      /\ reply'[c] = Contract!NoReply /\ reply[c] # Contract!NoReply
    BY DEF Finish, At, Goto, IInv, TypeOK, ControlInv, hvars
<1>2. EffectiveParents' = EffectiveParents
    BY <1>1, EffectiveKept DEF Loops, Step
<1>3. /\ EffectiveReply' = [EffectiveReply EXCEPT ![c] = Contract!NoReply]
      /\ EffectiveReply[c] # Contract!NoReply
    BY <1>1, EffectiveReplyStep DEF Loops, Step
<1> QED
    BY <1>1, <1>2, <1>3 DEF Finish, Contract!Return, Contract!hvars, hvars

\* Add is the contract's at its one step.
LEMMA AddMaps ==
    ASSUME IInv, IInv', NEW c \in Client, Add(c)
    PROVE  Contract!Add(c)
<1>1. Step(c) /\ pc[c] = "body" /\ call[c].op = "Add" /\ pc[c] \notin Loops
    BY DEF Step, Add, Enter, At, Loops
<1>2. Contract!Pending(c, "Add")
    BY <1>1, NoAnswerYet DEF Contract!Pending
<1>3. CASE AddRole(call[c].role) /\ Answer(c, Contract!Ok) /\ UNCHANGED missed
    <2>1. Contract!Answer(c, Contract!Ok) /\ pc'[c] \notin Loops
        BY <1>1, <1>3, AnswerMaps
    <2>2. EffectiveParents' = EffectiveParents
        BY <1>1, <1>3, <2>1, EffectiveKept DEF AddRole
    <2> QED
        BY <1>2, <1>3, <2>1, <2>2 DEF Contract!Add, Contract!AddRole, AddRole, Contract!Live, Live
<1>4. CASE IdOf[call[c].role] \in Live /\ Report(c, Contract!Exist)
    BY <1>1, <1>2, <1>4, ReportMaps DEF Contract!Add, Contract!Live, Live
<1> QED
    BY <1>3, <1>4 DEF Add

\* Each other edit is the contract's at its first step: nobody can see the
\* rest of its loop.
LEMMA EditMaps ==
    ASSUME IInv, IInv', NEW c \in Client, Remove(c) \/ SetParents(c) \/ RemoveParents(c)
    PROVE  Contract!Remove(c) \/ Contract!SetParents(c) \/ Contract!RemoveParents(c)
<1> DEFINE id == call[c].id
<1>1. /\ Step(c) /\ pc[c] = "body" /\ pc[c] \notin Loops /\ Holds(c)
      /\ call[c].op \in {"Remove", "SetParents", "RemoveParents"}
    BY DEF Step, Remove, SetParents, RemoveParents, Enter, At, Loops, Holds
<1>2. Contract!Pending(c, call[c].op)
    BY <1>1, NoAnswerYet DEF Contract!Pending
<1>3. EffectiveParents = parents
    BY <1>1, HolderQuiet
<1>4. CASE Remove(c)
    <2>1. call[c].op = "Remove"
        BY <1>4 DEF Remove, Enter
    <2>2. CASE /\ id \in Live
               /\ roles' = [x \in Live \ {id} |-> roles[x]]
               /\ Loop(c, "scrub", DOMAIN parents)
               /\ UNCHANGED parents
        <3>1. Contract!Answer(c, Contract!Ok) /\ EffectiveParents' = Scrub(parents', id)
            BY <1>1, <2>2, LoopMaps DEF Loops
        <3>2. EffectiveParents' = Contract!Scrub(EffectiveParents, id)
            BY <1>3, <2>2, <3>1, SameGraph
        <3> QED
            BY <1>2, <2>1, <2>2, <3>1, <3>2 DEF Contract!Remove, Contract!RemoveRole,
               Contract!Live, Live, Loop
    <2>3. CASE id \notin Live /\ Report(c, Contract!NotExist)
        BY <1>1, <1>2, <2>1, <2>3, ReportMaps DEF Contract!Remove, Contract!Live, Live
    <2> QED
        BY <1>4, <2>2, <2>3 DEF Remove
<1>5. CASE SetParents(c)
    <2>1. call[c].op = "SetParents"
        BY <1>5 DEF SetParents, Enter
    <2>2. CASE /\ AllKnown(id, call[c].ps)
               /\ parents' = Bind(parents, id, {})
               /\ Loop(c, "bind", call[c].ps)
               /\ UNCHANGED roles
        <3>1. Contract!Answer(c, Contract!Ok) /\ EffectiveParents' = Bind(parents', id, call[c].ps)
            BY <1>1, <2>2, LoopMaps DEF Loops
        <3>2. EffectiveParents' = Contract!Bind(EffectiveParents, id, call[c].ps)
            <4>1. Bind(Bind(parents, id, {}), id, call[c].ps) = Bind(parents, id, call[c].ps)
                BY BindAfterMake
            <4>2. Contract!Bind(parents, id, call[c].ps) = Bind(parents, id, call[c].ps)
                BY SameGraph
            <4> QED
                BY <1>3, <2>2, <3>1, <4>1, <4>2
        <3> QED
            BY <1>2, <2>1, <2>2, <3>1, <3>2 DEF Contract!SetParents, Contract!BindParents,
               Contract!AllKnown, AllKnown, Contract!Live, Live, Loop
    <2>3. CASE ~AllKnown(id, call[c].ps) /\ Report(c, Contract!NotExist)
        BY <1>1, <1>2, <2>1, <2>3, ReportMaps DEF Contract!SetParents, Contract!AllKnown,
           AllKnown, Contract!Live, Live
    <2> QED
        BY <1>5, <2>2, <2>3 DEF SetParents
<1>6. CASE RemoveParents(c)
    <2>1. call[c].op = "RemoveParents"
        BY <1>6 DEF RemoveParents, Enter
    <2>2. CASE /\ AllKnown(id, call[c].ps)
               /\ Loop(c, "unbind", call[c].ps)
               /\ UNCHANGED <<roles, parents>>
        <3>1. Contract!Answer(c, Contract!Ok) /\ EffectiveParents' = Unbind(parents', id, call[c].ps)
            BY <1>1, <2>2, LoopMaps DEF Loops
        <3>2. EffectiveParents' = Contract!Unbind(EffectiveParents, id, call[c].ps)
            BY <1>3, <2>2, <3>1, SameGraph
        <3> QED
            BY <1>2, <2>1, <2>2, <3>1, <3>2 DEF Contract!RemoveParents, Contract!UnbindParents,
               Contract!AllKnown, AllKnown, Contract!Live, Live, Loop
    <2>3. CASE ~AllKnown(id, call[c].ps) /\ Report(c, Contract!NotExist)
        BY <1>1, <1>2, <2>1, <2>3, ReportMaps DEF Contract!RemoveParents, Contract!AllKnown,
           AllKnown, Contract!Live, Live
    <2> QED
        BY <1>6, <2>2, <2>3 DEF RemoveParents
<1> QED
    BY <1>4, <1>5, <1>6

\* An iteration of a loop, and its end, do nothing the contract can see.
LEMMA IterateMaps ==
    ASSUME IInv, IInv', NEW c \in Client,
           ScrubEntry(c) \/ BindParent(c) \/ UnbindParent(c)
    PROVE  UNCHANGED Contract!vars
<1> DEFINE id == call[c].id
<1>0. Step(c) /\ EffectiveInv /\ EffectiveInv'
    BY EffectiveIs, EffectiveNext DEF Step
<1>1. /\ pc[c] \in Loops /\ pc'[c] = pc[c] /\ call' = call
      /\ UNCHANGED <<roles, perms, call, missed>>
    BY DEF ScrubEntry, BindParent, UnbindParent, Iterate, At, Loops
<1>2. /\ todo \in [Client -> SUBSET ID] /\ DOMAIN parents \subseteq ID
      /\ parents \in [DOMAIN parents -> SUBSET ID]
    BY DEF IInv, TypeOK, HierarchyTypeOK
<1>3. CASE BindParent(c)
    <2>1. PICK p \in todo[c] : Iterate(c, "bind", p, [parents EXCEPT ![id] = @ \cup {p}])
        BY <1>3 DEF BindParent
    <2>2. /\ pc[c] = "bind" /\ id \in DOMAIN parents /\ todo'[c] = todo[c] \ {p}
          /\ parents' = [parents EXCEPT ![id] = @ \cup {p}]
        BY <1>2, <2>1 DEF Iterate, At, IInv, LoopInv, LoopOf
    <2>3. Bind(parents', id, todo[c] \ {p}) = Bind(parents, id, todo[c])
        <3>1. /\ id \in DOMAIN parents
              /\ DOMAIN parents' = DOMAIN parents /\ parents'[id] = parents[id] \cup {p}
              /\ \A x \in DOMAIN parents \ {id} : parents'[x] = parents[x]
            BY <2>2
        <3> HIDE DEF id
        <3> QED
            BY <3>1, BindEntry
    <2>4. /\ EffectiveParents = Bind(parents, id, todo[c])
          /\ EffectiveParents' = Bind(parents', id, todo'[c])
        BY <1>0, <1>1, <2>2 DEF EffectiveInv
    <2>5. EffectiveParents' = EffectiveParents
        BY <2>2, <2>3, <2>4
    <2> QED
        BY <1>0, <1>1, <2>5, EffectiveReplyStep DEF Contract!vars, EffectiveReply
<1>4. CASE UnbindParent(c)
    <2>1. PICK p \in todo[c] : Iterate(c, "unbind", p, Unbind(parents, id, {p}))
        BY <1>4 DEF UnbindParent
    <2>2. /\ pc[c] = "unbind" /\ todo'[c] = todo[c] \ {p}
          /\ parents' = Unbind(parents, id, {p})
        BY <1>2, <2>1 DEF Iterate, At
    <2>3. Unbind(Unbind(parents, id, {p}), id, todo[c] \ {p}) = Unbind(parents, id, todo[c])
        BY <2>2, UnbindInSteps
    <2>4. /\ EffectiveParents = Unbind(parents, id, todo[c])
          /\ EffectiveParents' = Unbind(parents', id, todo'[c])
        BY <1>0, <1>1, <2>2 DEF EffectiveInv
    <2>5. EffectiveParents' = EffectiveParents
        BY <2>2, <2>3, <2>4
    <2> QED
        BY <1>0, <1>1, <2>5, EffectiveReplyStep DEF Contract!vars, EffectiveReply
<1>5. CASE ScrubEntry(c)
    <2>1. PICK x \in todo[c] :
             Iterate(c, "scrub", x,
                 IF x = id THEN [y \in DOMAIN parents \ {id} |-> parents[y]]
                           ELSE [parents EXCEPT ![x] = @ \ {id}])
        BY <1>5 DEF ScrubEntry
    <2>2. pc[c] = "scrub"
        BY <2>1 DEF Iterate, At
    <2>3. Scrub(parents', id) = Scrub(parents, id)
        <3>1. CASE x = id
            <4>1. parents' = [y \in DOMAIN parents \ {id} |-> parents[y]]
                BY <2>1, <3>1 DEF Iterate
            <4> QED
                BY <4>1, ScrubInSteps
        <3>2. CASE x # id /\ x \in DOMAIN parents
            <4>1. parents' = [parents EXCEPT ![x] = @ \ {id}]
                BY <2>1, <3>2 DEF Iterate
            <4> QED
                BY <3>2, <4>1, ScrubInSteps
        <3>3. CASE x # id /\ x \notin DOMAIN parents
            <4>1. parents' = [parents EXCEPT ![x] = @ \ {id}]
                BY <2>1, <3>3 DEF Iterate
            <4>2. parents' = parents
                BY <1>2, <3>3, <4>1
            <4> QED
                BY <4>2
        <3> QED
            BY <3>1, <3>2, <3>3
    <2>4. /\ EffectiveParents = Scrub(parents, id)
          /\ EffectiveParents' = Scrub(parents', id)
        BY <1>0, <1>1, <2>2 DEF EffectiveInv
    <2>5. EffectiveParents' = EffectiveParents
        BY <2>3, <2>4
    <2> QED
        BY <1>0, <1>1, <2>5, EffectiveReplyStep DEF Contract!vars, EffectiveReply
<1> QED
    BY <1>3, <1>4, <1>5

\* The end of a loop shows nothing to the contract.
LEMMA LoopDoneMaps ==
    ASSUME IInv, IInv', NEW c \in Client, LoopDone(c)
    PROVE  UNCHANGED Contract!vars
<1> DEFINE id == call[c].id
<1>1. /\ Step(c) /\ pc[c] \in Loops /\ todo[c] = {}
      /\ pc' = [pc EXCEPT ![c] = "unlock"] /\ reply'[c] = Contract!Ok
      /\ UNCHANGED <<hvars, call, missed>>
    BY DEF Step, LoopDone, At, Loops, Report, Answer, Goto, IInv, TypeOK
<1>2. pc'[c] = "unlock" /\ \A d \in Client : d # c => pc[d] \notin Loops
    BY <1>1, WriterAlone DEF IInv, TypeOK
<1>3. Quiet'
    BY <1>1, <1>2 DEF Quiet, Loops, IInv, TypeOK
<1>4. EffectiveParents' = parents
    BY <1>1, <1>3, EffectiveNext DEF EffectiveInv, hvars
<1>5. EffectiveParents = parents
    <2>1. parents = [x \in DOMAIN parents |-> parents[x]] /\ LoopOf(c) /\ EffectiveInv
        BY EffectiveIs DEF IInv, TypeOK, HierarchyTypeOK, LoopInv
    <2>2. /\ id \in DOMAIN parents => Bind(parents, id, {}) = parents
          /\ Unbind(parents, id, {}) = parents
          /\ (\A x \in DOMAIN parents : x # id /\ id \notin parents[x]) => Scrub(parents, id) = parents
        BY <2>1, NothingLeft
    <2> QED
        BY <1>1, <2>1, <2>2 DEF EffectiveInv, LoopOf, Loops
<1>6. EffectiveReply' = EffectiveReply
    BY <1>1, <1>2, EffectiveReplyStep DEF Loops, EffectiveReply
<1> QED
    BY <1>1, <1>4, <1>5, <1>6 DEF Contract!vars, hvars

\* The queries without a loop are the contract's at their one step.
LEMMA QueryMaps ==
    ASSUME IInv, IInv', NEW c \in Client, Get(c) \/ GetParents(c) \/ RoleIDs(c)
    PROVE  Contract!Get(c) \/ Contract!GetParents(c) \/ Contract!RoleIDs(c)
<1>1. /\ Step(c) /\ pc[c] = "body" /\ pc[c] \notin Loops /\ Holds(c)
    BY DEF Step, Get, GetParents, RoleIDs, Enter, At, Loops, Holds
<1>2. Contract!Pending(c, call[c].op)
    BY <1>1, NoAnswerYet DEF Contract!Pending
<1>3. EffectiveParents = parents
    BY <1>1, HolderQuiet
<1>4. \A r : Report(c, r) => Contract!Report(c, r)
    BY <1>1, ReportMaps
<1>5. CASE Get(c)
    BY <1>2, <1>4, <1>5 DEF Get, Enter, Contract!Get, Contract!Live, Live
<1>6. CASE GetParents(c)
    <2>1. Contract!Up(EffectiveParents, call[c].id) = Up(parents, call[c].id)
        BY <1>3, SameGraph
    <2> QED
        BY <1>2, <1>4, <1>6, <2>1 DEF GetParents, Enter, Contract!GetParents, Contract!Live, Live
<1>7. CASE RoleIDs(c)
    BY <1>2, <1>4, <1>7 DEF RoleIDs, Enter, Contract!RoleIDs, Contract!Live, Live
<1> QED
    BY <1>5, <1>6, <1>7

\* The methods of a role are the contract's at their one step.
LEMMA EditRoleMaps ==
    ASSUME IInv, IInv', NEW c \in Client, EditRole(c)
    PROVE  Contract!Assign(c) \/ Contract!Revoke(c)
<1>1. /\ Step(c) /\ pc[c] = "start" /\ pc[c] \notin Loops
      /\ Answer(c, Contract!Ok) /\ UNCHANGED missed /\ UNCHANGED <<roles, parents>>
    BY DEF Step, EditRole, At, Loops, AssignPerms, RevokePerms
<1>2. Contract!Pending(c, call[c].op)
    BY <1>1, NoAnswerYet DEF Contract!Pending
<1>3. Contract!Answer(c, Contract!Ok) /\ pc'[c] \notin Loops
    BY <1>1, AnswerMaps
<1>4. EffectiveParents' = EffectiveParents
    BY <1>1, <1>3, EffectiveKept
<1> QED
    BY <1>1, <1>2, <1>3, <1>4 DEF EditRole, AssignPerms, RevokePerms, Contract!Assign,
       Contract!Revoke, Contract!AssignPerms, Contract!RevokePerms

-----------------------------------------------------------------------------
(***************************************************************************)
(* IsGranted: what it looks at is on the way, and a denial has looked at   *)
(* every role it had to.                                                   *)
(***************************************************************************)
\* Looking at a role that the contract's walk comes to is a sighting, a grant,
\* or nothing (the program dies).
LEMMA VisitMaps ==
    ASSUME IInv, IInv', NEW c \in Client, Step(c), pc[c] \in {"body", "walk"},
           call[c].op = "IsGranted", EffectiveParents = parents,
           NEW x \in Ancestors(call[c].id), NEW outer, Visit(c, x, outer)
    PROVE  Contract!Miss(c) \/ Contract!Grant(c) \/ UNCHANGED Contract!vars
<1>1. Contract!Pending(c, "IsGranted") /\ pc[c] \notin Loops
    BY NoAnswerYet DEF Contract!Pending, Loops
<1>2. x \in Live /\ roles[x] \in Role
    BY ReachSelf DEF Ancestors, IInv, TypeOK, HierarchyTypeOK
<1>3. UNCHANGED hvars
    BY DEF Visit
<1>4. CASE call[c].perm \in perms[roles[x]] /\ Answer(c, Contract!Granted(TRUE)) /\ UNCHANGED missed
    <2>1. Contract!Answer(c, Contract!Granted(TRUE)) /\ pc'[c] \notin Loops
        BY <1>1, <1>4, AnswerMaps
    <2>2. EffectiveParents' = EffectiveParents
        BY <1>1, <1>3, <2>1, EffectiveKept DEF hvars
    <2>3. x \in Contract!Ancestors(call[c].id)
        BY SameGraph DEF Contract!Ancestors, Ancestors, Contract!Live, Live
    <2>4. call[c].perm \in Contract!GrantSet(call[c].id)
        BY <1>4, <2>3 DEF Contract!GrantSet
    <2> QED
        BY <1>1, <1>3, <2>1, <2>2, <2>4 DEF Contract!Grant, Contract!Report, Contract!hvars, hvars
<1>5. CASE /\ call[c].perm \notin perms[roles[x]]
           /\ missed' = [missed EXCEPT ![c] = @ \cup {roles[x]}]
           /\ Goto(c, "walk")
           /\ UNCHANGED <<call, reply>>
    <2>1. pc'[c] = "walk"
        BY <1>5 DEF Goto, IInv, TypeOK
    <2>2. EffectiveParents' = EffectiveParents
        BY <1>1, <1>3, <2>1, EffectiveKept DEF hvars, Loops
    <2>3. EffectiveReply' = [EffectiveReply EXCEPT ![c] = EffectiveReply[c]]
        BY <1>1, <1>5, <2>1, EffectiveReplyStep DEF Loops
    <2>4. EffectiveReply' = EffectiveReply
        BY <2>3 DEF EffectiveReply
    <2> QED
        BY <1>1, <1>2, <1>3, <1>5, <2>2, <2>4 DEF Contract!Miss, hvars
<1>6. CASE UNCHANGED <<hvars, call, reply, missed, pc, todo>>
    <2>1. EffectiveParents' = EffectiveParents
        BY <1>1, <1>6, EffectiveKept DEF hvars
    <2>2. EffectiveReply' = EffectiveReply
        BY <1>6 DEF EffectiveReply
    <2> QED
        BY <1>6, <2>1, <2>2 DEF Contract!vars, hvars
<1> QED
    BY <1>4, <1>5, <1>6 DEF Visit

\* IsGranted answers the contract's way, or goes on unseen.
LEMMA IsGrantedMaps ==
    ASSUME IInv, IInv', NEW c \in Client, IsGranted(c)
    PROVE  Contract!Miss(c) \/ Contract!Grant(c) \/ Contract!Deny(c) \/ UNCHANGED Contract!vars
<1> DEFINE id == call[c].id
<1>1. /\ Step(c) /\ pc[c] = "body" /\ pc[c] \notin Loops /\ Holds(c)
      /\ call[c].op = "IsGranted"
    BY DEF Step, IsGranted, Enter, At, Loops, Holds
<1>2. EffectiveParents = parents
    BY <1>1, HolderQuiet
<1>3. CASE id \in Live /\ Visit(c, id, <<>>)
    <2>1. id \in Ancestors(id)
        BY <1>3, ReachSelf DEF Ancestors
    <2> QED
        BY <1>1, <1>2, <1>3, <2>1, VisitMaps
<1>4. CASE id \notin Live /\ Report(c, Contract!Granted(FALSE))
    <2>1. Contract!Report(c, Contract!Granted(FALSE))
        BY <1>1, <1>4, ReportMaps
    <2>2. Contract!Pending(c, "IsGranted")
        BY <1>1, NoAnswerYet DEF Contract!Pending
    <2>3. Contract!Ancestors(id) = {}
        BY <1>4 DEF Contract!Ancestors, Contract!Reach, Contract!Live, Live
    <2> QED
        BY <2>1, <2>2, <2>3 DEF Contract!Deny
<1> QED
    BY <1>3, <1>4 DEF IsGranted

\* So does a step down of its recursion,
LEMMA DescendMaps ==
    ASSUME IInv, IInv', NEW c \in Client, Descend(c)
    PROVE  Contract!Miss(c) \/ Contract!Grant(c) \/ UNCHANGED Contract!vars
<1>1. Step(c) /\ pc[c] = "walk" /\ call[c].op = "IsGranted"
    BY DEF Step, Descend, At, IInv, ControlInv
<1>2. EffectiveParents = parents
    BY <1>1, HolderQuiet
<1>3. PICK p \in Head(stack[c]) : Visit(c, p, <<Head(stack[c]) \ {p}>> \o Tail(stack[c]))
    BY DEF Descend
<1>4. p \in Ahead(c)
    BY <1>1, DescendStack DEF IInv
<1>5. p \in Ancestors(call[c].id)
    BY <1>1, <1>4 DEF IInv, WalkInv, WalkOf
<1> QED
    BY <1>1, <1>2, <1>3, <1>5, VisitMaps

\* and a step up.
LEMMA AscendMaps ==
    ASSUME IInv, IInv', NEW c \in Client, Ascend(c)
    PROVE  Contract!Deny(c) \/ UNCHANGED Contract!vars
<1> DEFINE id == call[c].id
           s == stack[c]
<1>1. /\ Step(c) /\ pc[c] = "walk" /\ call[c].op = "IsGranted" /\ pc[c] \notin Loops
      /\ s \in Seq(SUBSET ID) /\ s # <<>> /\ Head(s) = {}
    BY DEF Step, Ascend, At, Loops, IInv, ControlInv, TypeOK
<1>2. EffectiveParents = parents
    BY <1>1, HolderQuiet
<1>3. CASE /\ Len(s) = 1
           /\ Answer(c, Contract!Granted(FALSE))
           /\ UNCHANGED <<hvars, missed, todo>>
    <2>1. Ahead(c) = {}
        <3> HIDE DEF s
        <3>1. DOMAIN s = 1 .. 1 /\ s[1] = {}
            BY <1>1, <1>3, Popped
        <3>2. Entries(s) = {}
            BY <3>1 DEF Entries
        <3> QED
            BY <3>2 DEF Ahead, s
    <2>2. /\ id \in Visited(c)
          /\ \A y \in Visited(c) : Up(parents, y) \cap Live \subseteq Visited(c)
        BY <1>1, <2>1 DEF IInv, WalkInv, WalkOf
    <2>3. ClosedUpward(Live, parents, Visited(c) \cap Live)
        BY <2>2 DEF ClosedUpward, Visited
    <2>4. Reach(Live, parents, id) \subseteq Visited(c)
        BY <2>2, <2>3, ReachLeast
    <2>5. \A x \in Contract!Ancestors(id) : roles[x] \in missed[c]
        BY <1>2, <2>4, SameGraph DEF Contract!Ancestors, Contract!Live, Live, Visited
    <2>6. Contract!Answer(c, Contract!Granted(FALSE)) /\ pc'[c] \notin Loops
        BY <1>1, <1>3, AnswerMaps
    <2>7. EffectiveParents' = EffectiveParents
        BY <1>1, <1>3, <2>6, EffectiveKept DEF hvars
    <2>8. Contract!Pending(c, "IsGranted")
        BY <1>1, NoAnswerYet DEF Contract!Pending
    <2> QED
        BY <1>3, <2>5, <2>6, <2>7, <2>8 DEF Contract!Deny, Contract!Report, Contract!hvars, hvars
<1>4. CASE UNCHANGED <<hvars, call, reply, missed, pc, todo>>
    <2>1. EffectiveParents' = EffectiveParents
        BY <1>1, <1>4, EffectiveKept DEF hvars
    <2>2. EffectiveReply' = EffectiveReply
        BY <1>4 DEF EffectiveReply
    <2> QED
        BY <1>4, <2>1, <2>2 DEF Contract!vars, hvars
<1> QED
    BY <1>3, <1>4 DEF Ascend

-----------------------------------------------------------------------------
\* The initial states are the contract's.
LEMMA InitMaps ==
    ASSUME Init
    PROVE  Contract!Init
<1>1. EffectiveParents = parents /\ EffectiveReply = reply
    BY DEF Init, EffectiveParents, EffectiveReply, In
<1> QED
    BY <1>1 DEF Init, Contract!Init, HierarchyInit, Contract!HierarchyInit

\* Every step is one of the contract's, or shows it nothing.
LEMMA StepMaps ==
    ASSUME IInv, IInv', [Next]_lvars
    PROVE  [Contract!Next]_(Contract!vars)
<1>1. CASE UNCHANGED lvars
    <2>1. EffectiveParents' = EffectiveParents /\ EffectiveReply' = EffectiveReply
        BY <1>1 DEF lvars, EffectiveParents, EffectiveReply, Editor, In
    <2> QED
        BY <1>1, <2>1 DEF lvars, Contract!vars
<1>2. ASSUME NEW c \in Client, Begin(c) \/ Step(c)
      PROVE  [Contract!Next]_(Contract!vars)
    <2>1. CASE Begin(c) \/ Finish(c) \/ Lock(c) \/ RLock(c)
        BY <2>1, BeginMaps, FinishMaps, LockMaps DEF Contract!Next
    <2>2. CASE Add(c) \/ Remove(c) \/ SetParents(c) \/ RemoveParents(c)
        BY <2>2, AddMaps, EditMaps DEF Contract!Next
    <2>3. CASE ScrubEntry(c) \/ BindParent(c) \/ UnbindParent(c) \/ LoopDone(c)
        BY <2>3, IterateMaps, LoopDoneMaps
    <2>4. CASE Get(c) \/ GetParents(c) \/ RoleIDs(c) \/ EditRole(c)
        BY <2>4, QueryMaps, EditRoleMaps DEF Contract!Next
    <2>5. CASE IsGranted(c) \/ Descend(c) \/ Ascend(c)
        BY <2>5, IsGrantedMaps, DescendMaps, AscendMaps DEF Contract!Next
    <2> QED
        BY <1>2, <2>1, <2>2, <2>3, <2>4, <2>5 DEF Step
<1> QED
    BY <1>1, <1>2 DEF Next

\* Every call takes effect at one moment between its start and its return,
\* with the answer of the contract at that moment, whatever other goroutines
\* do between the steps of its loops and of its recursion.
THEOREM LinearizesCallsAlways == Spec => LinearizesCalls
<1>1. IInv /\ IInv' /\ [Next]_lvars => [Contract!Next]_(Contract!vars)
    BY StepMaps
<1>2. Init => Contract!Init
    BY InitMaps
<1> QED
    BY <1>1, <1>2, InvAlways, PTL DEF Spec, LinearizesCalls, Contract!Spec
=============================================================================
