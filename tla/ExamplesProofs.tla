---------------------------- MODULE ExamplesProofs ----------------------------
(***************************************************************************)
(* What the two example programs put beside an instance agrees with it,    *)
(* for every set of ids, role objects, documents, clients and calls, and   *)
(* however often a run is killed, a write is cut or the repository fails.  *)
(***************************************************************************)
EXTENDS Examples, HierarchyProofs, SequenceTheorems, FiniteSetTheorems

-----------------------------------------------------------------------------
(***************************************************************************)
(* The inductive invariant of the wrapper.                                 *)
(***************************************************************************)
\* A call makes its facts true, or false.
Makes(k) == k.op \in {"Add", "SetParents"}

\* The facts of its call that the repository has carried out.
Carried(c) ==
    CASE at[c] = "inner" -> Facts(call[c])
      [] at[c] # "inner" /\ call[c].op = "SetParents" -> {call[c].id} \X (call[c].ps \ todo[c])
      [] OTHER -> {}

\* A client knows what it has still to do and whom it has overlapped, and what
\* the repository has done for it stands, unless another call undid it.
ClientOf(c) ==
    /\ c \notin Busy => todo[c] = {} /\ at[c] = "repo" /\ shared[c] = {}
    /\ c \in Busy =>
          /\ call[c].op = "SetParents" => /\ todo[c] \subseteq call[c].ps
                                          /\ at[c] = "inner" <=> todo[c] = {}
          /\ call[c].op # "SetParents" => todo[c] = {}
          /\ \A d \in Busy \ {c} : Facts(call[c]) \cap Facts(call[d]) \subseteq shared[c]
          /\ \A f \in Carried(c) \ shared[c] : f \in RepoFacts <=> Makes(call[c])

ClientInv == \A c \in Client : ClientOf(c)

\* A call has not yet touched the fact f.
Untouched(c, f) ==
    f \in Facts(call[c]) => at[c] = "repo" /\ call[c].op # "SetParents" /\ f \notin shared[c]

\* The two sides agree about a fact that no call has touched and none has left
\* in doubt.
AgreeInv ==
    \A f \in Fact \ doubtful :
        (\A c \in Busy : Untouched(c, f)) => (f \in RepoFacts <=> f \in InnerFacts)

-----------------------------------------------------------------------------
(***************************************************************************)
(* The inductive invariant of the persistence example.                     *)
(***************************************************************************)
\* A document names no id but these.
Within(doc, ids) == \A id \in DOMAIN doc : {id} \cup doc[id] \subseteq ids

\* What a run makes of the documents it has read.
Grown == DOMAIN jsonRoles \cup {Nobody}
GrownList(id) == IF id \in DOMAIN jsonRoles THEN jsonRoles[id] ELSE {ReadText}
GrownRoles == [id \in Grown |-> GrownList(id)]
GrownInher == [id \in Grown |-> Up(jsonInher, id)]

\* An input file can be read, and so can an output file that was saved.
FilesInv ==
    /\ LoadJson(files["roles.json"]) \in Docs(Perm)
    /\ LoadJson(files["inher.json"]) \in Docs(ID)
    /\ saved["new-roles.json"] \in Docs(Perm) \cup {Missing}
    /\ saved["new-inher.json"] \in Docs(ID) \cup {Missing}
    /\ SavedReadsBack

\* The loops of main leave nothing out; SetParents has seen every id known.
LoopsInv ==
    /\ pc # "build" => unadded = {} /\ unbound = {}
    /\ pc \notin {"idle", "loadInher"} =>
          \A id \in DOMAIN jsonInher \ unbound : {id} \cup jsonInher[id] \subseteq DOMAIN jsonRoles

\* The instance holds what the loops have taken of the documents.
InstanceInv ==
    pc \in {"build", "walk"} =>
        /\ Live = IF pc = "build" THEN DOMAIN jsonRoles \ unadded ELSE Grown
        /\ \A id \in Live : IdOf[roles[id]] = id /\ perms[roles[id]] = GrownList(id)
        /\ \A id \in ID : Up(parents, id) = IF id \in unbound THEN {} ELSE Up(jsonInher, id)

\* Walk's handler has collected what the instance holds, and it is saved.
OutputInv ==
    pc \in {"saveRoles", "saveInher", "done"} =>
        /\ jsonOutputRoles = GrownRoles /\ jsonOutputInher = GrownInher
        /\ pc # "saveRoles" => saved["new-roles.json"] = GrownRoles
        /\ pc = "done" => saved["new-inher.json"] = GrownInher

\* Unless the user drops roles, no run forgets one that the saved links name.
MixInv ==
    ~dropped =>
        LET ids == DOMAIN LoadJson(files["roles.json"])
            i == saved["new-inher.json"]
        IN  /\ pc # "idle" => DOMAIN jsonRoles \subseteq ids
            /\ i # Missing => Within(i, ids \cup {Nobody})
            /\ i # Missing /\ pc # "idle" => Within(i, Grown)
            /\ MixedPairLoads

RunInv == PersistenceTypeOK /\ FilesInv /\ LoopsInv /\ InstanceInv /\ OutputInv /\ MixInv

\* The example that does not run leaves its variables alone.
ExamplesInv ==
    /\ RunInv /\ WrapperTypeOK
    /\ program = "rbac-wrapper" => pc = "idle" /\ Consistent /\ ClientInv /\ AgreeInv

-----------------------------------------------------------------------------
\* What the edits of a map of links do to one link.
LEMMA LinksAfterEdit ==
    ASSUME NEW links, NEW id, NEW ps, NEW a, NEW b
    PROVE  /\ b \in Up(Bind(links, id, ps), a) <=> (a = id /\ b \in ps) \/ b \in Up(links, a)
           /\ b \in Up(Unbind(links, id, ps), a) <=> b \in Up(links, a) /\ ~(a = id /\ b \in ps)
BY DEF Up, Bind, Unbind

\* Removing a role takes exactly the links from and to it.
LEMMA LinksAfterScrub ==
    ASSUME NEW links, NEW id, NEW a, NEW b
    PROVE  b \in Up(Scrub(links, id), a) <=> b \in Up(links, a) /\ a # id /\ b # id
BY DEF Up, Scrub

\* A fact is a role or a link.
LEMMA FactMeans ==
    ASSUME NEW ids, NEW links
    PROVE  /\ \A a : <<a>> \in FactsOf(ids, links) <=> a \in ids
           /\ \A a, b \in ID : <<a, b>> \in FactsOf(ids, links) <=> b \in Up(links, a)
BY DEF FactsOf

\* A fact is about a role or about a link.
LEMMA FactKinds ==
    ASSUME NEW f \in Fact
    PROVE  \/ \E a \in ID : f = <<a>>
           \/ \E a, b \in ID : f = <<a, b>>
BY DEF Fact

\* The arguments of each kind of call.
LEMMA CallKinds ==
    ASSUME NEW k \in Calls
    PROVE  \/ k.op = "Add" /\ k.role \in Role /\ k.id \in ID /\ k.id = IdOf[k.role]
           \/ k.op = "Remove" /\ k.id \in ID
           \/ k.op = "SetParents" /\ k.id \in ID /\ k.ps \in SUBSET ID
           \/ k.op = "RemoveParents" /\ k.id \in ID /\ k.ps \in SUBSET ID
BY WrapperAssumption

\* A busy client has a call.
LEMMA BusyCalls ==
    ASSUME WrapperTypeOK, NEW c \in Busy
    PROVE  c \in Client /\ call[c] \in Calls
BY DEF WrapperTypeOK, Busy

\* The facts of a call, by its kind.
LEMMA FactsMean ==
    ASSUME NEW k \in Calls
    PROVE  /\ \A a : <<a>> \in Facts(k) <=> k.op \in {"Add", "Remove"} /\ a = k.id
           /\ \A a, b \in ID : <<a, b>> \in Facts(k) <=>
                 \/ k.op = "Remove" /\ (a = k.id \/ b = k.id)
                 \/ k.op \in {"SetParents", "RemoveParents"} /\ a = k.id /\ b \in k.ps
BY CallKinds DEF Facts

\* A call is about facts.
LEMMA FactsAreFacts ==
    ASSUME NEW k \in Calls
    PROVE  Facts(k) \subseteq Fact
BY CallKinds DEF Facts, Fact

\* A successful method of the instance makes the facts of its call true, or
\* false, and no other.
LEMMA InnerEffect ==
    ASSUME NEW k \in Calls, NEW f \in Fact,
           \/ k.op = "Add" /\ AddRole(k.role)
           \/ k.op = "Remove" /\ RemoveRole(k.id)
           \/ k.op = "SetParents" /\ BindParents(k.id, k.ps)
           \/ k.op = "RemoveParents" /\ UnbindParents(k.id, k.ps)
    PROVE  f \in InnerFacts' <=> IF f \in Facts(k) THEN Makes(k) ELSE f \in InnerFacts
<1>1. InnerFacts = FactsOf(Live, parents) /\ InnerFacts' = FactsOf(Live', parents')
    BY DEF InnerFacts
<1>2. ASSUME NEW a \in ID, f = <<a>>
      PROVE  f \in InnerFacts' <=> IF f \in Facts(k) THEN Makes(k) ELSE f \in InnerFacts
    <2>1. /\ f \in InnerFacts <=> a \in Live
          /\ f \in InnerFacts' <=> a \in Live'
        BY <1>1, <1>2, FactMeans
    <2>2. f \in Facts(k) <=> k.op \in {"Add", "Remove"} /\ a = k.id
        BY <1>2, FactsMean
    <2> QED
        BY <2>1, <2>2, CallKinds DEF Makes, AddRole, RemoveRole, BindParents, UnbindParents, Live
<1>3. ASSUME NEW a \in ID, NEW b \in ID, f = <<a, b>>
      PROVE  f \in InnerFacts' <=> IF f \in Facts(k) THEN Makes(k) ELSE f \in InnerFacts
    <2>1. /\ f \in InnerFacts <=> b \in Up(parents, a)
          /\ f \in InnerFacts' <=> b \in Up(parents', a)
        BY <1>1, <1>3, FactMeans
    <2>2. f \in Facts(k) <=>
             \/ k.op = "Remove" /\ (a = k.id \/ b = k.id)
             \/ k.op \in {"SetParents", "RemoveParents"} /\ a = k.id /\ b \in k.ps
        BY <1>3, FactsMean
    <2>3. CASE k.op = "Add" /\ AddRole(k.role)
        BY <2>1, <2>2, <2>3 DEF AddRole
    <2>4. CASE k.op = "Remove" /\ RemoveRole(k.id)
        BY <2>1, <2>2, <2>4, LinksAfterScrub DEF Makes, RemoveRole
    <2>5. CASE k.op = "SetParents" /\ BindParents(k.id, k.ps)
        BY <2>1, <2>2, <2>5, LinksAfterEdit DEF Makes, BindParents
    <2>6. CASE k.op = "RemoveParents" /\ UnbindParents(k.id, k.ps)
        BY <2>1, <2>2, <2>6, LinksAfterEdit DEF Makes, UnbindParents
    <2> QED
        BY <2>3, <2>4, <2>5, <2>6
<1> QED
    BY <1>2, <1>3, FactKinds

\* So does a step in the repository, with the facts it carries out, and these
\* it adds to what it has carried out.
LEMMA RepoEffect ==
    ASSUME WrapperTypeOK, ClientInv, NEW c \in Client, RepoStep(c)
    PROVE  \E K \in SUBSET Facts(call[c]) :
              /\ Carried(c)' \subseteq Carried(c) \cup K
              /\ \A f \in Fact :
                    f \in RepoFacts' <=> IF f \in K THEN Makes(call[c]) ELSE f \in RepoFacts
<1> DEFINE k == call[c]
<1>1. c \in Busy /\ k \in Calls /\ at[c] = "repo" /\ call' = call
    BY BusyCalls DEF RepoStep
<1>2. /\ \A a : (<<a>> \in RepoFacts <=> a \in repoRoles) /\ (<<a>> \in RepoFacts' <=> a \in repoRoles')
      /\ \A a, b \in ID : /\ <<a, b>> \in RepoFacts <=> b \in Up(repoParents, a)
                          /\ <<a, b>> \in RepoFacts' <=> b \in Up(repoParents', a)
    BY FactMeans DEF RepoFacts
<1>3. CASE k.op = "SetParents"
    <2>1. PICK p \in todo[c] : RepoAddParent(k.id, p) /\ todo' = [todo EXCEPT ![c] = @ \ {p}]
        BY <1>1, <1>3 DEF RepoStep
    <2>2. /\ todo[c] \subseteq k.ps /\ k.ps \in SUBSET ID /\ k.id \in ID
          /\ todo'[c] = todo[c] \ {p}
        BY <1>1, <1>3, <2>1, CallKinds DEF ClientInv, ClientOf, WrapperTypeOK
    <2> DEFINE K == { <<k.id, p>> }
    <2>3. K \subseteq Facts(k)
        BY <1>1, <1>3, <2>1, <2>2, FactsMean
    <2>4. Carried(c)' \subseteq Carried(c) \cup K
        <3>1. Carried(c) = {k.id} \X (k.ps \ todo[c])
            BY <1>1, <1>3 DEF Carried
        <3>2. Carried(c)' = {k.id} \X (k.ps \ todo'[c])
            <4>1. at'[c] = IF todo'[c] = {} THEN "inner" ELSE "repo"
                BY <1>1 DEF RepoStep, WrapperTypeOK
            <4>2. Facts(k) = {k.id} \X k.ps
                BY <1>3 DEF Facts
            <4> QED
                BY <4>1, <4>2, <1>1, <1>3 DEF Carried
        <3> QED
            BY <3>1, <3>2, <2>2
    <2>5. ASSUME NEW f \in Fact
          PROVE  f \in RepoFacts' <=> IF f \in K THEN Makes(k) ELSE f \in RepoFacts
        <3>1. ASSUME NEW a \in ID, f = <<a>>
              PROVE  f \in RepoFacts' <=> f \in RepoFacts
            BY <1>2, <2>1, <3>1 DEF RepoAddParent
        <3>2. ASSUME NEW a \in ID, NEW b \in ID, f = <<a, b>>
              PROVE  f \in RepoFacts' <=> (a = k.id /\ b = p) \/ f \in RepoFacts
            BY <1>2, <2>1, <3>2, LinksAfterEdit DEF RepoAddParent
        <3> QED
            BY <1>3, <3>1, <3>2, FactKinds DEF Makes
    <2> QED
        BY <2>3, <2>4, <2>5
<1>4. CASE k.op # "SetParents"
    <2>1. Carried(c)' \subseteq Facts(k)
        <3>1. Carried(c)' = Facts(k) \/ Carried(c)' = {}
            BY <1>1, <1>4 DEF Carried
        <3> QED
            BY <3>1
    <2>2. ASSUME NEW f \in Fact
          PROVE  f \in RepoFacts' <=> IF f \in Facts(k) THEN Makes(k) ELSE f \in RepoFacts
        <3>1. ASSUME NEW a \in ID, f = <<a>>
              PROVE  f \in RepoFacts' <=> IF f \in Facts(k) THEN Makes(k) ELSE f \in RepoFacts
            <4>1. f \in Facts(k) <=> k.op \in {"Add", "Remove"} /\ a = k.id
                BY <1>1, <3>1, FactsMean
            <4> QED
                BY <4>1, <1>1, <1>2, <1>4, <3>1, CallKinds
                DEF RepoStep, Makes, RepoAddRole, RepoRemoveRole, RepoRemoveParents
        <3>2. ASSUME NEW a \in ID, NEW b \in ID, f = <<a, b>>
              PROVE  f \in RepoFacts' <=> IF f \in Facts(k) THEN Makes(k) ELSE f \in RepoFacts
            <4>1. f \in Facts(k) <=>
                     \/ k.op = "Remove" /\ (a = k.id \/ b = k.id)
                     \/ k.op \in {"SetParents", "RemoveParents"} /\ a = k.id /\ b \in k.ps
                BY <1>1, <3>2, FactsMean
            <4>2. /\ f \in RepoFacts <=> b \in Up(repoParents, a)
                  /\ f \in RepoFacts' <=> b \in Up(repoParents', a)
                BY <1>2, <3>2
            <4>3. CASE k.op = "Add" /\ RepoAddRole(k.id)
                BY <4>1, <4>2, <4>3 DEF RepoAddRole
            <4>4. CASE k.op = "Remove" /\ RepoRemoveRole(k.id)
                BY <4>1, <4>2, <4>4, LinksAfterScrub DEF Makes, RepoRemoveRole
            <4>5. CASE k.op = "RemoveParents" /\ RepoRemoveParents(k.id, k.ps)
                BY <4>1, <4>2, <4>5, LinksAfterEdit DEF Makes, RepoRemoveParents
            <4> QED
                BY <4>3, <4>4, <4>5, <1>4 DEF RepoStep
        <3> QED
            BY <3>1, <3>2, FactKinds
    <2> QED
        BY <2>1, <2>2
<1> QED
    BY <1>3, <1>4
-----------------------------------------------------------------------------
(***************************************************************************)
(* Each step of the wrapper keeps its invariant.                           *)
(***************************************************************************)
LEMMA WrapperEdits ==
    ASSUME WrapperTypeOK, WrapperNext
    PROVE  AnyEdit
<1>1. PICK c \in Client :
         Begin(c) \/ RepoStep(c) \/ RepoFails(c) \/ InnerStep(c) \/ InnerRefuses(c)
    BY DEF WrapperNext
<1>2. CASE InnerStep(c)
    <2>1. call[c] \in Calls
        BY <1>2, BusyCalls DEF InnerStep
    <2> QED
        BY <1>2, <2>1, CallKinds DEF InnerStep, AnyEdit
<1> QED
    BY <1>1, <1>2 DEF Begin, RepoStep, RepoFails, InnerRefuses, AnyEdit

\* Every step of the wrapper keeps the types of its variables.
LEMMA WrapperKeepsType ==
    ASSUME WrapperTypeOK, WrapperNext
    PROVE  WrapperTypeOK'
<1>1. HierarchyTypeOK'
    BY WrapperEdits, EditKeepsType DEF WrapperTypeOK
<1>2. PICK c \in Client :
         Begin(c) \/ RepoStep(c) \/ RepoFails(c) \/ InnerStep(c) \/ InnerRefuses(c)
    BY DEF WrapperNext
<1>3. CASE Begin(c)
    <2>1. PICK k \in Calls :
             /\ call' = [call EXCEPT ![c] = k]
             /\ todo' = [todo EXCEPT ![c] = IF k.op = "SetParents" THEN k.ps ELSE {}]
             /\ at' = [at EXCEPT ![c] = IF k.op = "SetParents" /\ k.ps = {} THEN "inner" ELSE "repo"]
        BY <1>3 DEF Begin
    <2>2. repo' = repo /\ doubtful' = doubtful
        BY <1>3 DEF Begin
    <2>3. shared' \in [Client -> SUBSET Fact]
        <3>1. PICK j \in Calls :
                 shared' = [d \in Client |->
                    CASE d = c -> { f \in Facts(j) : \E e \in Busy : f \in Facts(call[e]) }
                      [] d \in Busy -> shared[d] \cup (Facts(call[d]) \cap Facts(j))
                      [] OTHER -> shared[d]]
            BY <1>3 DEF Begin
        <3>2. Facts(j) \subseteq Fact /\ c \notin Busy
            BY <1>3, FactsAreFacts DEF Begin, Busy
        <3>3. ASSUME NEW d \in Client
              PROVE  shared'[d] \subseteq Fact
            <4>1. CASE d = c
                BY <3>1, <3>2, <4>1
            <4>2. CASE d # c
                BY <3>1, <3>2, <4>2 DEF WrapperTypeOK
            <4> QED
                BY <4>1, <4>2
        <3> QED
            BY <3>1, <3>3
    <2> QED
        BY <1>1, <2>1, <2>2, <2>3, CallKinds DEF WrapperTypeOK, repo
<1>4. CASE RepoStep(c)
    <2>1. call[c] \in Calls
        BY <1>4, BusyCalls DEF RepoStep
    <2>2. /\ call' = call /\ shared' = shared /\ doubtful' = doubtful
          /\ at' = [at EXCEPT ![c] = IF todo'[c] = {} THEN "inner" ELSE "repo"]
        BY <1>4 DEF RepoStep
    <2>3. CASE call[c].op = "Add" /\ RepoAddRole(call[c].id) /\ UNCHANGED todo
        BY <1>1, <2>1, <2>2, <2>3, CallKinds DEF WrapperTypeOK, RepoAddRole
    <2>4. CASE call[c].op = "Remove" /\ RepoRemoveRole(call[c].id) /\ UNCHANGED todo
        BY <1>1, <2>1, <2>2, <2>4, CallKinds DEF WrapperTypeOK, RepoRemoveRole, Scrub
    <2>5. CASE call[c].op = "RemoveParents" /\ RepoRemoveParents(call[c].id, call[c].ps) /\ UNCHANGED todo
        BY <1>1, <2>1, <2>2, <2>5, CallKinds DEF WrapperTypeOK, RepoRemoveParents, Unbind
    <2>6. ASSUME NEW p \in todo[c], call[c].op = "SetParents", RepoAddParent(call[c].id, p),
                 todo' = [todo EXCEPT ![c] = @ \ {p}]
          PROVE  WrapperTypeOK'
        BY <1>1, <2>1, <2>2, <2>6, CallKinds DEF WrapperTypeOK, RepoAddParent, Bind, Up
    <2> QED
        BY <1>4, <2>3, <2>4, <2>5, <2>6 DEF RepoStep
<1>5. ASSUME NEW doubt \in SUBSET Fact, NEW sure, Return(c, doubt, sure), repo' = repo
      PROVE  WrapperTypeOK'
    BY <1>1, <1>5 DEF WrapperTypeOK, Return, repo
<1>6. c \in Busy => Facts(call[c]) \subseteq Fact
    BY BusyCalls, FactsAreFacts
<1>7. CASE RepoFails(c)
    <2> DEFINE doubt == IF call[c].op = "SetParents" THEN Facts(call[c]) ELSE {}
    <2>1. doubt \in SUBSET Fact /\ Return(c, doubt, {}) /\ repo' = repo
        BY <1>6, <1>7 DEF RepoFails
    <2> QED
        BY <1>5, <2>1
<1> QED
    BY <1>2, <1>3, <1>4, <1>5, <1>6, <1>7 DEF InnerStep, InnerRefuses

\* What the repository has carried out of a call are facts of that call.
LEMMA CarriedFacts ==
    ASSUME NEW c
    PROVE  Carried(c) \subseteq Facts(call[c])
BY DEF Carried, Facts

\* One that begins has overlapped all who are at work, and they it.
LEMMA BeginKeeps ==
    ASSUME WrapperTypeOK, ClientInv, AgreeInv, NEW c \in Client, Begin(c)
    PROVE  ClientInv' /\ AgreeInv'
<1>1. PICK k \in Calls :
         /\ call' = [call EXCEPT ![c] = k]
         /\ todo' = [todo EXCEPT ![c] = IF k.op = "SetParents" THEN k.ps ELSE {}]
         /\ at' = [at EXCEPT ![c] = IF k.op = "SetParents" /\ k.ps = {} THEN "inner" ELSE "repo"]
         /\ shared' = [d \in Client |->
               CASE d = c -> { f \in Facts(k) : \E e \in Busy : f \in Facts(call[e]) }
                 [] d \in Busy -> shared[d] \cup (Facts(call[d]) \cap Facts(k))
                 [] OTHER -> shared[d]]
    BY DEF Begin
<1>2. /\ k # None /\ c \notin Busy
      /\ UNCHANGED <<repoRoles, repoParents, roles, parents, doubtful>>
    BY WrapperAssumption DEF Begin, Busy, repo, hvars
<1>3. /\ call'[c] = k
      /\ todo'[c] = IF k.op = "SetParents" THEN k.ps ELSE {}
      /\ at'[c] = IF k.op = "SetParents" /\ k.ps = {} THEN "inner" ELSE "repo"
      /\ shared'[c] = { f \in Facts(k) : \E e \in Busy : f \in Facts(call[e]) }
      /\ \A d \in Client \ {c} :
            /\ call'[d] = call[d] /\ todo'[d] = todo[d] /\ at'[d] = at[d]
            /\ shared'[d] = IF d \in Busy THEN shared[d] \cup (Facts(call[d]) \cap Facts(k)) ELSE shared[d]
    <2>1. /\ call'[c] = k
          /\ todo'[c] = IF k.op = "SetParents" THEN k.ps ELSE {}
          /\ at'[c] = IF k.op = "SetParents" /\ k.ps = {} THEN "inner" ELSE "repo"
          /\ \A d \in Client \ {c} : call'[d] = call[d] /\ todo'[d] = todo[d] /\ at'[d] = at[d]
        BY <1>1 DEF WrapperTypeOK
    <2>2. shared'[c] = { f \in Facts(k) : \E e \in Busy : f \in Facts(call[e]) }
        BY <1>1, <1>2
    <2>3. \A d \in Client \ {c} :
            shared'[d] = IF d \in Busy THEN shared[d] \cup (Facts(call[d]) \cap Facts(k)) ELSE shared[d]
        BY <1>1
    <2> QED
        BY <2>1, <2>2, <2>3
<1>4. Busy' = Busy \cup {c}
    BY <1>2, <1>3 DEF Busy
<1>5. RepoFacts' = RepoFacts /\ InnerFacts' = InnerFacts
    BY <1>2 DEF RepoFacts, InnerFacts, Live
<1>6. Carried(c)' = {}
    <2>1. CASE k.op = "SetParents" /\ k.ps = {}
        <3>1. Carried(c)' = Facts(k)
            BY <1>3, <2>1 DEF Carried
        <3> QED
            BY <2>1, <3>1 DEF Facts
    <2>2. CASE k.op = "SetParents" /\ k.ps # {}
        BY <1>3, <2>2 DEF Carried
    <2>3. CASE k.op # "SetParents"
        BY <1>3, <2>3 DEF Carried
    <2> QED
        BY <2>1, <2>2, <2>3
<1>7. ClientOf(c)'
    <2>1. c \in Busy' /\ Busy' \ {c} = Busy
        BY <1>2, <1>4
    <2>2. \A d \in Busy : call'[d] = call[d]
        BY <1>2, <1>3 DEF Busy
    <2>3. \A d \in Busy' \ {c} : Facts(call'[c]) \cap Facts(call'[d]) \subseteq shared'[c]
        BY <1>3, <2>1, <2>2
    <2>4. /\ call'[c].op = "SetParents" => /\ todo'[c] \subseteq call'[c].ps
                                           /\ at'[c] = "inner" <=> todo'[c] = {}
          /\ call'[c].op # "SetParents" => todo'[c] = {}
        BY <1>3
    <2> QED
        BY <1>6, <2>1, <2>3, <2>4 DEF ClientOf, Makes
<1>8. ASSUME NEW d \in Client \ {c}
      PROVE  ClientOf(d)'
    <2>1. Carried(d)' = Carried(d)
        BY <1>3 DEF Carried
    <2>2. ClientOf(d)
        BY DEF ClientInv
    <2>3. CASE d \notin Busy
        BY <1>3, <1>4, <2>2, <2>3 DEF ClientOf
    <2>4. CASE d \in Busy
        <3>1. \A e \in Busy' \ {d} : Facts(call'[d]) \cap Facts(call'[e]) \subseteq shared'[d]
            <4>1. ASSUME NEW e \in Busy \ {d}
                  PROVE  Facts(call'[d]) \cap Facts(call'[e]) \subseteq shared'[d]
                <5>1. Facts(call[d]) \cap Facts(call[e]) \subseteq shared[d]
                    BY <2>2, <2>4 DEF ClientOf
                <5>2. e \in Client \ {c}
                    BY <1>2 DEF Busy
                <5> QED
                    BY <5>1, <5>2, <1>3, <2>4
            <4> QED
                BY <4>1, <1>3, <1>4, <2>4
        <3>2. \A f \in Carried(d)' \ shared'[d] : f \in RepoFacts' <=> Makes(call'[d])
            BY <1>3, <1>5, <2>1, <2>2, <2>4 DEF ClientOf, Makes
        <3>3. d \in Busy'
            BY <1>4, <2>4
        <3>4. /\ call'[d].op = "SetParents" => /\ todo'[d] \subseteq call'[d].ps
                                               /\ at'[d] = "inner" <=> todo'[d] = {}
              /\ call'[d].op # "SetParents" => todo'[d] = {}
            BY <1>3, <2>2, <2>4 DEF ClientOf
        <3> QED
            BY <3>1, <3>2, <3>3, <3>4 DEF ClientOf, Makes
    <2> QED
        BY <2>3, <2>4
<1>9. AgreeInv'
    <2>1. SUFFICES ASSUME NEW f \in Fact \ doubtful, \A d \in Busy' : Untouched(d, f)'
                   PROVE  f \in RepoFacts <=> f \in InnerFacts
        BY <1>2, <1>5 DEF AgreeInv
    <2>2. ASSUME NEW d \in Busy
          PROVE  Untouched(d, f)
        <3>1. d \in Client \ {c} /\ Untouched(d, f)'
            BY <1>2, <1>4, <2>1 DEF Busy
        <3> QED
            BY <3>1, <1>3 DEF Untouched
    <2> QED
        BY <2>2 DEF AgreeInv
<1> QED
    BY <1>7, <1>8, <1>9 DEF ClientInv
\* A step of one call in the repository undoes nothing that another has carried
\* out there, unless they share the fact.
LEMMA RepoStepKeeps ==
    ASSUME WrapperTypeOK, ClientInv, AgreeInv, NEW c \in Client, RepoStep(c)
    PROVE  ClientInv' /\ AgreeInv'
<1> DEFINE k == call[c]
<1>1. PICK K \in SUBSET Facts(k) :
         /\ Carried(c)' \subseteq Carried(c) \cup K
         /\ \A f \in Fact :
               f \in RepoFacts' <=> IF f \in K THEN Makes(k) ELSE f \in RepoFacts
    BY RepoEffect
<1>2. /\ c \in Busy /\ k \in Calls /\ at[c] = "repo"
      /\ UNCHANGED <<call, shared, doubtful, roles, parents>>
    BY BusyCalls DEF RepoStep, hvars
<1>3. Busy' = Busy /\ InnerFacts' = InnerFacts
    BY <1>2 DEF Busy, InnerFacts, Live
<1>4. \A d \in Client \ {c} : at'[d] = at[d] /\ todo'[d] = todo[d]
    BY DEF RepoStep, WrapperTypeOK
<1>5. at'[c] = IF todo'[c] = {} THEN "inner" ELSE "repo"
    BY DEF RepoStep, WrapperTypeOK
<1>6. \A d \in Busy : Facts(call[d]) \subseteq Fact
    BY BusyCalls, FactsAreFacts
<1>7. ClientOf(c)'
    <2>1. ClientOf(c)
        BY DEF ClientInv
    <2>2. /\ k.op = "SetParents" => todo'[c] \subseteq k.ps
          /\ k.op # "SetParents" => todo'[c] = {}
        BY <1>2, <2>1 DEF ClientOf, RepoStep, WrapperTypeOK
    <2>3. ASSUME NEW f \in Carried(c)' \ shared[c]
          PROVE  f \in RepoFacts' <=> Makes(k)
        <3>1. f \in Fact
            BY <1>1, <1>2, <1>6, CarriedFacts
        <3> QED
            BY <3>1, <1>1, <1>2, <2>1, <2>3 DEF ClientOf
    <2> QED
        BY <1>2, <1>3, <1>5, <2>1, <2>2, <2>3 DEF ClientOf, Makes
<1>8. ASSUME NEW d \in Client \ {c}
      PROVE  ClientOf(d)'
    <2>1. ClientOf(d)
        BY DEF ClientInv
    <2>2. Carried(d)' = Carried(d)
        BY <1>2, <1>4 DEF Carried
    <2>3. ASSUME NEW f \in Carried(d) \ shared[d], d \in Busy
          PROVE  f \in RepoFacts' <=> Makes(call[d])
        <3>1. f \in Facts(call[d]) /\ f \in Fact
            BY <1>6, <2>3, CarriedFacts
        <3>2. f \notin K
            BY <1>1, <1>2, <2>1, <2>3, <3>1 DEF ClientOf
        <3> QED
            BY <3>1, <3>2, <1>1, <2>1, <2>3 DEF ClientOf
    <2> QED
        BY <1>2, <1>3, <1>4, <2>1, <2>2, <2>3 DEF ClientOf, Makes
<1>9. AgreeInv'
    <2>1. SUFFICES ASSUME NEW f \in Fact \ doubtful, \A d \in Busy : Untouched(d, f)'
                   PROVE  f \in RepoFacts' <=> f \in InnerFacts
        BY <1>2, <1>3 DEF AgreeInv
    <2>2. f \notin Facts(k)
        <3>1. Untouched(c, f)'
            BY <1>2, <2>1
        <3>2. k.op # "SetParents" => at'[c] = "inner"
            BY <1>2, <1>5 DEF RepoStep, ClientInv, ClientOf
        <3> QED
            BY <3>1, <3>2, <1>2 DEF Untouched
    <2>3. ASSUME NEW d \in Busy
          PROVE  Untouched(d, f)
        <3>1. Untouched(d, f)'
            BY <2>1
        <3>2. CASE d = c
            BY <3>2, <2>2 DEF Untouched
        <3>3. CASE d # c
            BY <3>1, <3>3, <1>2, <1>4 DEF Untouched, Busy
        <3> QED
            BY <3>2, <3>3
    <2>4. f \in RepoFacts <=> f \in InnerFacts
        BY <2>3 DEF AgreeInv
    <2> QED
        BY <2>2, <2>4, <1>1
<1> QED
    BY <1>7, <1>8, <1>9 DEF ClientInv

\* A call that returns leaves the others and the repository as they are.
LEMMA ReturnKeeps ==
    ASSUME WrapperTypeOK, ClientInv, NEW c \in Busy, NEW doubt, NEW sure,
           Return(c, doubt, sure), repo' = repo
    PROVE  /\ ClientInv'
           /\ Busy' = Busy \ {c}
           /\ \A d \in Busy \ {c} : \A f : Untouched(d, f)' <=> Untouched(d, f)
           /\ RepoFacts' = RepoFacts
           /\ doubtful' = (doubtful \ sure) \cup doubt \cup shared[c]
<1>1. c \in Client
    BY BusyCalls
<1>2. /\ call'[c] = None /\ todo'[c] = {} /\ at'[c] = "repo"
      /\ \A d \in Client \ {c} : call'[d] = call[d] /\ todo'[d] = todo[d] /\ at'[d] = at[d]
    BY <1>1 DEF Return, WrapperTypeOK
<1>3. shared'[c] = {} /\ \A d \in Client \ {c} : shared'[d] = shared[d]
    BY <1>1 DEF Return, WrapperTypeOK
<1>4. Busy' = Busy \ {c}
    BY <1>1, <1>2 DEF Busy
<1>5. RepoFacts' = RepoFacts
    BY DEF RepoFacts, repo
<1>6. ASSUME NEW d \in Client
      PROVE  ClientOf(d)'
    <2>1. CASE d = c
        BY <1>2, <1>3, <1>4, <2>1 DEF ClientOf
    <2>2. CASE d # c
        <3>1. ClientOf(d)
            BY DEF ClientInv
        <3>2. Carried(d)' = Carried(d)
            BY <1>2, <2>2 DEF Carried
        <3>3. \A e \in Busy' : call'[e] = call[e]
            BY <1>2, <1>4 DEF Busy
        <3> QED
            BY <1>2, <1>3, <1>4, <1>5, <2>2, <3>1, <3>2, <3>3 DEF ClientOf, Makes
    <2> QED
        BY <2>1, <2>2
<1>7. \A d \in Busy \ {c} : \A f : Untouched(d, f)' <=> Untouched(d, f)
    BY <1>2, <1>3 DEF Untouched, Busy
<1> QED
    BY <1>4, <1>5, <1>6, <1>7 DEF ClientInv, Return
\* A method that fails leaves no doubt but on the facts it says; one that
\* succeeds makes its facts the same on both sides; and one that the instance
\* refuses finds them there as the repository has just made them.
LEMMA RepoFailsKeeps ==
    ASSUME WrapperTypeOK, ClientInv, AgreeInv, NEW c \in Client, RepoFails(c)
    PROVE  ClientInv' /\ AgreeInv'
<1> DEFINE doubt == IF call[c].op = "SetParents" THEN Facts(call[c]) ELSE {}
<1>1. /\ c \in Busy /\ at[c] = "repo" /\ Return(c, doubt, {}) /\ repo' = repo
      /\ InnerFacts' = InnerFacts
    BY DEF RepoFails, InnerFacts, Live, hvars
<1> HIDE DEF doubt
<1>2. /\ ClientInv' /\ Busy' = Busy \ {c} /\ RepoFacts' = RepoFacts
      /\ \A d \in Busy \ {c} : \A f : Untouched(d, f)' <=> Untouched(d, f)
      /\ doubtful' = (doubtful \ {}) \cup doubt \cup shared[c]
    BY <1>1, ReturnKeeps
<1>3. ASSUME NEW f \in Fact \ doubtful', \A d \in Busy' : Untouched(d, f)'
      PROVE  f \in RepoFacts <=> f \in InnerFacts
    <2>1. Untouched(c, f)
        BY <1>1, <1>2, <1>3 DEF Untouched, doubt
    <2>2. \A d \in Busy : Untouched(d, f)
        BY <2>1, <1>2, <1>3
    <2> QED
        BY <2>2, <1>2, <1>3 DEF AgreeInv
<1> QED
    BY <1>1, <1>2, <1>3 DEF AgreeInv

\* The step of the instance: the last of a call, which makes the two sides
\* agree.
LEMMA InnerStepKeeps ==
    ASSUME WrapperTypeOK, ClientInv, AgreeInv, NEW c \in Client, InnerStep(c)
    PROVE  ClientInv' /\ AgreeInv'
<1> DEFINE k == call[c]
<1>1. /\ c \in Busy /\ k \in Calls /\ at[c] = "inner"
      /\ Return(c, {}, Facts(k)) /\ repo' = repo
    BY BusyCalls DEF InnerStep
<1>2. \A f \in Fact : f \in InnerFacts' <=> IF f \in Facts(k) THEN Makes(k) ELSE f \in InnerFacts
    BY <1>1, InnerEffect DEF InnerStep
<1>3. \A f \in Facts(k) \ shared[c] : f \in RepoFacts <=> Makes(k)
    <2>1. Carried(c) = Facts(k)
        BY <1>1 DEF Carried
    <2> QED
        BY <1>1, <2>1 DEF ClientInv, ClientOf
<1>4. /\ ClientInv' /\ Busy' = Busy \ {c} /\ RepoFacts' = RepoFacts
      /\ \A d \in Busy \ {c} : \A f : Untouched(d, f)' <=> Untouched(d, f)
      /\ doubtful' = (doubtful \ Facts(k)) \cup {} \cup shared[c]
    BY <1>1, ReturnKeeps
<1>5. ASSUME NEW f \in Fact \ doubtful', \A d \in Busy' : Untouched(d, f)'
      PROVE  f \in RepoFacts <=> f \in InnerFacts'
    <2>1. CASE f \in Facts(k)
        BY <2>1, <1>2, <1>3, <1>4, <1>5
    <2>2. CASE f \notin Facts(k)
        <3>1. \A d \in Busy : Untouched(d, f)
            BY <2>2, <1>4, <1>5 DEF Untouched
        <3> QED
            BY <2>2, <3>1, <1>2, <1>4, <1>5 DEF AgreeInv
    <2> QED
        BY <2>1, <2>2
<1> QED
    BY <1>4, <1>5 DEF AgreeInv

\* The instance refuses what the repository has done: the facts are in doubt.
LEMMA InnerRefusesKeeps ==
    ASSUME WrapperTypeOK, Consistent, ClientInv, AgreeInv, NEW c \in Client, InnerRefuses(c)
    PROVE  ClientInv' /\ AgreeInv'
<1> DEFINE k == call[c]
<1>1. /\ c \in Busy /\ k \in Calls /\ at[c] = "inner" /\ repo' = repo
      /\ InnerFacts' = InnerFacts
    BY BusyCalls DEF InnerRefuses, InnerFacts, Live, hvars
<1>2. PICK doubt \in SUBSET Facts(k), sure \in SUBSET Facts(k) :
         /\ Return(c, doubt, sure)
         /\ \/ doubt = Facts(k) /\ sure = {}
            \/ k.op = "Add" /\ k.id \in Live /\ doubt = {}
            \/ k.op = "Remove" /\ k.id \notin Live /\ doubt = {}
    <2>1. k.op \in {"Add", "Remove"} => <<k.id>> \in Facts(k)
        BY <1>1, FactsMean
    <2> QED
        BY <2>1 DEF InnerRefuses
<1>3. \A f \in Facts(k) \ shared[c] : f \in RepoFacts <=> Makes(k)
    <2>1. Carried(c) = Facts(k)
        BY <1>1 DEF Carried
    <2> QED
        BY <1>1, <2>1 DEF ClientInv, ClientOf
<1>4. /\ ClientInv' /\ Busy' = Busy \ {c} /\ RepoFacts' = RepoFacts
      /\ \A d \in Busy \ {c} : \A f : Untouched(d, f)' <=> Untouched(d, f)
      /\ doubtful' = (doubtful \ sure) \cup doubt \cup shared[c]
    BY <1>1, <1>2, ReturnKeeps
<1>5. ASSUME doubt # Facts(k), NEW f \in Fact, f \in Facts(k)
      PROVE  f \in InnerFacts <=> Makes(k)
    <2>1. /\ \A a : <<a>> \in InnerFacts <=> a \in Live
          /\ \A a, b \in ID : <<a, b>> \in InnerFacts <=> b \in Up(parents, a)
        BY FactMeans DEF InnerFacts
    <2>2. CASE k.op = "Add" /\ k.id \in Live
        <3>1. f = <<k.id>>
            BY <1>5, <2>2 DEF Facts
        <3> QED
            BY <2>1, <2>2, <3>1 DEF Makes
    <2>3. CASE k.op = "Remove" /\ k.id \notin Live
        <3>1. ASSUME NEW a \in ID, f = <<a>>
              PROVE  f \notin InnerFacts
            <4>1. a = k.id
                BY <1>1, <1>5, <3>1, FactsMean
            <4> QED
                BY <2>1, <2>3, <3>1, <4>1
        <3>2. ASSUME NEW a \in ID, NEW b \in ID, f = <<a, b>>
              PROVE  f \notin InnerFacts
            <4>1. a = k.id \/ b = k.id
                BY <1>1, <1>5, <2>3, <3>2, FactsMean
            <4>2. b \notin Up(parents, a)
                BY <2>3, <4>1 DEF Consistent, Up
            <4> QED
                BY <2>1, <3>2, <4>2
        <3> QED
            BY <2>3, <3>1, <3>2, FactKinds DEF Makes
    <2> QED
        BY <1>2, <1>5, <2>2, <2>3
<1>6. ASSUME NEW f \in Fact \ doubtful', \A d \in Busy' : Untouched(d, f)'
      PROVE  f \in RepoFacts <=> f \in InnerFacts
    <2>1. CASE f \in Facts(k)
        BY <2>1, <1>3, <1>4, <1>5, <1>6
    <2>2. CASE f \notin Facts(k)
        <3>1. \A d \in Busy : Untouched(d, f)
            BY <2>2, <1>4, <1>6 DEF Untouched
        <3> QED
            BY <2>2, <3>1, <1>2, <1>4, <1>6 DEF AgreeInv
    <2> QED
        BY <2>1, <2>2
<1> QED
    BY <1>1, <1>4, <1>6 DEF AgreeInv

\* Every step of the wrapper keeps its invariant.
LEMMA WrapperKeepsInv ==
    ASSUME WrapperTypeOK, Consistent, ClientInv, AgreeInv, WrapperNext
    PROVE  WrapperTypeOK' /\ Consistent' /\ ClientInv' /\ AgreeInv'
<1>1. WrapperTypeOK'
    BY WrapperKeepsType
<1>2. Consistent'
    BY WrapperEdits, EditKeepsConsistent
<1>3. ClientInv' /\ AgreeInv'
    BY BeginKeeps, RepoStepKeeps, RepoFailsKeeps, InnerStepKeeps, InnerRefusesKeeps DEF WrapperNext
<1> QED
    BY <1>1, <1>2, <1>3
-----------------------------------------------------------------------------
(***************************************************************************)
(* The codec: what a save writes over a file, LoadJson reads back.         *)
(***************************************************************************)
LEMMA IdsAreFinite == IsFiniteSet(ID)
<1>1. /\ Len(Keys) \in Nat /\ DOMAIN Keys = 1..Len(Keys)
      /\ Keys \in [1..Len(Keys) -> ID]
    BY PersistenceAssumption, LenProperties
<1>2. \A x \in ID : \E i \in 1..Len(Keys) : Keys[i] = x
    BY <1>1, PersistenceAssumption
<1>3. Keys \in Surjection(1..Len(Keys), ID)
    BY <1>1, <1>2 DEF Surjection
<1>4. IsFiniteSet(1..Len(Keys))
    BY <1>1, FS_Interval
<1> QED
    BY <1>3, <1>4, FS_Surjection

\* The encoder's order is a strict total order.
LEMMA EncodersOrder ==
    /\ \A k : ~Before(k, k)
    /\ \A k, l \in ID : k = l \/ Before(k, l) \/ Before(l, k)
    /\ \A k, l, m : Before(k, l) /\ Before(l, m) => Before(k, m)
<1>1. DOMAIN Keys \subseteq Nat /\ \A i, j \in DOMAIN Keys : Keys[i] = Keys[j] => i = j
    BY PersistenceAssumption, LenProperties
<1>2. \A k : ~Before(k, k)
    BY <1>1 DEF Before
<1>3. ASSUME NEW k \in ID, NEW l \in ID
      PROVE  k = l \/ Before(k, l) \/ Before(l, k)
    <2>1. PICK i \in DOMAIN Keys : Keys[i] = k
        BY PersistenceAssumption
    <2>2. PICK j \in DOMAIN Keys : Keys[j] = l
        BY PersistenceAssumption
    <2>3. i = j \/ i < j \/ j < i
        BY <1>1
    <2> QED
        BY <2>1, <2>2, <2>3 DEF Before
<1>4. ASSUME NEW k, NEW l, NEW m, Before(k, l), Before(l, m)
      PROVE  Before(k, m)
    <2>1. PICK i \in DOMAIN Keys, j \in DOMAIN Keys : i < j /\ Keys[i] = k /\ Keys[j] = l
        BY <1>4 DEF Before
    <2>2. PICK g \in DOMAIN Keys, h \in DOMAIN Keys : g < h /\ Keys[g] = l /\ Keys[h] = m
        BY <1>4 DEF Before
    <2>3. i < h
        BY <1>1, <2>1, <2>2
    <2> QED
        BY <2>1, <2>2, <2>3 DEF Before
<1> QED
    BY <1>2, <1>3, <1>4

\* The place of an id is one more than the number of ids before it, so there is
\* a sorted sequence.
LEMMA SortedExists ==
    ASSUME NEW ids \in SUBSET ID
    PROVE  /\ Cardinality(ids) \in Nat
           /\ \E s \in [1 .. Cardinality(ids) -> ids] :
                 \A i, j \in DOMAIN s : i < j => Before(s[i], s[j])
<1> DEFINE n == Cardinality(ids)
           below(k) == { l \in ids : Before(l, k) }
           place == [k \in ids |-> Cardinality(below(k)) + 1]
<1>1. IsFiniteSet(ids) /\ n \in Nat
    BY IdsAreFinite, FS_Subset, FS_CardinalityType
<1>2. ASSUME NEW k \in ids
      PROVE  /\ Cardinality(below(k)) \in Nat /\ IsFiniteSet(below(k))
             /\ Cardinality(below(k)) < n
    <2>1. below(k) \in SUBSET ids /\ k \notin below(k)
        BY EncodersOrder
    <2>2. IsFiniteSet(below(k)) /\ Cardinality(below(k)) <= n /\ Cardinality(below(k)) # n
        <3> HIDE DEF below
        <3> QED
            BY <1>1, <2>1, FS_Subset
    <2>3. Cardinality(below(k)) \in Nat
        BY <2>2, FS_CardinalityType
    <2> QED
        BY <1>1, <2>2, <2>3
<1>3. ASSUME NEW k \in ids, NEW l \in ids, Before(k, l)
      PROVE  place[k] < place[l]
    <2>1. below(k) \in SUBSET below(l) /\ k \in below(l) /\ k \notin below(k)
        BY <1>3, EncodersOrder
    <2>2. Cardinality(below(k)) <= Cardinality(below(l)) /\ Cardinality(below(k)) # Cardinality(below(l))
        <3>1. IsFiniteSet(below(l))
            BY <1>2
        <3> HIDE DEF below
        <3> QED
            BY <2>1, <3>1, FS_Subset
    <2>3. Cardinality(below(k)) \in Nat /\ Cardinality(below(l)) \in Nat
        BY <1>2
    <2> HIDE DEF below
    <2> QED
        BY <2>2, <2>3
<1>4. place \in [ids -> 1..n]
    <2>1. \A k \in ids : Cardinality(below(k)) + 1 \in 1..n
        <3> HIDE DEF below
        <3> QED
            BY <1>1, <1>2
    <2> HIDE DEF below
    <2> QED
        BY <2>1
<1> HIDE DEF place
<1>5. place \in Injection(ids, 1..n)
    <2>1. \A k \in ids : place[k] \in Nat
        BY <1>4
    <2>2. ASSUME NEW k \in ids, NEW l \in ids, place[k] = place[l]
          PROVE  k = l
        <3>1. ~Before(k, l) /\ ~Before(l, k)
            BY <1>3, <2>1, <2>2
        <3> QED
            BY <3>1, EncodersOrder
    <2> QED
        BY <1>4, <2>2 DEF Injection, IsInjective
<1>6. place \in Surjection(ids, 1..n)
    <2>1. IsFiniteSet(1..n) /\ Cardinality(1..n) = n
        BY <1>1, FS_Interval
    <2> QED
        BY <1>5, <2>1, FS_Injection
<1> DEFINE s == [i \in 1..n |-> CHOOSE k \in ids : place[k] = i]
<1>7. \A i \in 1..n : s[i] \in ids /\ place[s[i]] = i
    BY <1>6 DEF Surjection
<1>8. ASSUME NEW i \in 1..n, NEW j \in 1..n, i < j
      PROVE  Before(s[i], s[j])
    <2> HIDE DEF s
    <2>1. s[i] \in ids /\ s[j] \in ids /\ place[s[i]] < place[s[j]]
        BY <1>7, <1>8
    <2>2. place[s[i]] \in Nat /\ place[s[j]] \in Nat
        BY <1>4, <2>1
    <2>3. s[i] # s[j] /\ ~Before(s[j], s[i])
        BY <1>3, <2>1, <2>2
    <2> QED
        BY <2>1, <2>3, EncodersOrder
<1>9. s \in [1..n -> ids] /\ \A i, j \in DOMAIN s : i < j => Before(s[i], s[j])
    <2>1. s = [i \in 1..n |-> s[i]]
        OBVIOUS
    <2> HIDE DEF s
    <2>2. s \in [1..n -> ids] /\ DOMAIN s = 1..n
        BY <1>7, <2>1
    <2> QED
        BY <1>8, <2>2
<1> QED
    BY <1>1, <1>9

\* It has each id once.
LEMMA SortedIsExact ==
    ASSUME NEW ids \in SUBSET ID
    PROVE  /\ Cardinality(ids) \in Nat
           /\ Sorted(ids) \in [1 .. Cardinality(ids) -> ids]
           /\ \A i, j \in 1 .. Cardinality(ids) : Sorted(ids)[i] = Sorted(ids)[j] => i = j
           /\ \A k \in ids : \E i \in 1 .. Cardinality(ids) : Sorted(ids)[i] = k
<1> DEFINE n == Cardinality(ids)
           s == Sorted(ids)
<1>1. /\ n \in Nat /\ s \in [1..n -> ids]
      /\ \A i, j \in DOMAIN s : i < j => Before(s[i], s[j])
    BY SortedExists DEF Sorted
<1> HIDE DEF s
<1>2. ASSUME NEW i \in 1..n, NEW j \in 1..n, s[i] = s[j]
      PROVE  i = j
    <2>1. ~(i < j) /\ ~(j < i)
        BY <1>1, <1>2, EncodersOrder
    <2> QED
        BY <1>1, <2>1
<1>3. s \in Surjection(1..n, ids)
    <2>1. s \in Injection(1..n, ids)
        BY <1>1, <1>2 DEF Injection, IsInjective
    <2>2. IsFiniteSet(ids)
        BY IdsAreFinite, FS_Subset
    <2>3. Cardinality(1..n) = n
        <3> HIDE DEF n
        <3> QED
            BY <1>1, FS_Interval
    <2>4. Cardinality(1..n) = Cardinality(ids)
        BY <2>3
    <2> QED
        BY <2>1, <2>2, <2>4, FS_Injection
<1> QED
    BY <1>1, <1>2, <1>3 DEF s, Surjection
\* A document is a function from ids to sets of values.
LEMMA DocsMean ==
    ASSUME NEW values, NEW doc \in Docs(values)
    PROVE  /\ DOMAIN doc \in SUBSET ID
           /\ doc \in [DOMAIN doc -> SUBSET values]
BY DEF Docs

\* The members of an encoded document are the document, each id once; then it
\* is closed.
LEMMA EncodeIs ==
    ASSUME NEW doc \in Docs(Perm) \cup Docs(ID)
    PROVE  LET n == Cardinality(DOMAIN doc)
               e == Encode(doc)
           IN  /\ n \in Nat /\ e \in Seq(Cell) /\ Len(e) = n + 1 /\ e[n + 1] = End
               /\ \A i \in 1..n : e[i] \in Member /\ e[i].key \in DOMAIN doc /\ e[i].list = doc[e[i].key]
               /\ \A i, j \in 1..n : e[i].key = e[j].key => i = j
               /\ \A k \in DOMAIN doc : \E i \in 1..n : e[i].key = k
<1> DEFINE n == Cardinality(DOMAIN doc)
           keys == Sorted(DOMAIN doc)
           m == [i \in 1..n |-> [key |-> keys[i], list |-> doc[keys[i]]]]
<1>1. /\ DOMAIN doc \in SUBSET ID
      /\ \A k \in DOMAIN doc : doc[k] \in SUBSET (ID \cup Perm)
    BY DocsMean
<1>2. /\ n \in Nat /\ keys \in [1..n -> DOMAIN doc]
      /\ \A i, j \in 1..n : keys[i] = keys[j] => i = j
      /\ \A k \in DOMAIN doc : \E i \in 1..n : keys[i] = k
    BY <1>1, SortedIsExact
<1> HIDE DEF n, keys
<1>3. \A i \in 1..n : m[i] \in Member /\ m[i].key = keys[i] /\ m[i].list = doc[keys[i]]
    BY <1>1, <1>2 DEF Member
<1>4. m = [i \in 1..n |-> m[i]]
    OBVIOUS
<1>5. Encode(doc) = Append(m, End)
    BY <1>2 DEF Encode, keys
<1> HIDE DEF m
<1>6. m \in Seq(Cell) /\ Len(m) = n /\ End \in Cell
    <2>1. m \in [1..n -> Cell]
        BY <1>3, <1>4 DEF Cell
    <2> QED
        BY <1>2, <2>1, SeqDef DEF Cell
<1>7. /\ Encode(doc) \in Seq(Cell) /\ Len(Encode(doc)) = n + 1
      /\ Encode(doc)[n + 1] = End
      /\ \A i \in 1..n : Encode(doc)[i] = m[i]
    BY <1>2, <1>5, <1>6
<1> QED
    BY <1>2, <1>3, <1>7 DEF n

\* Of the members with one key there is a last.
LEMMA LastExists ==
    ASSUME NEW file, NEW n, NEW id, NEW i \in 1..n - 1,
           file[i].key = id, \A j \in i + 1..n - 1 : file[j].key # id
    PROVE  LastOf(file, n, id) \in 1..n - 1 /\ file[LastOf(file, n, id)].key = id
BY DEF LastOf

\* A file in which a document ends is read as that document.
LEMMA LoadsFirst ==
    ASSUME NEW file, NEW n \in DOMAIN file, Closed(file, n),
           \A k \in DOMAIN file : Closed(file, k) => k = n
    PROVE  LoadJson(file) =
              [id \in { file[i].key : i \in 1..n - 1 } |-> file[LastOf(file, n, id)].list]
<1>1. (CHOOSE k \in DOMAIN file : Closed(file, k)) = n
    OBVIOUS
<1> QED
    BY <1>1, Zenon DEF LoadJson

Starts(file, text) ==
    Len(text) <= Len(file) /\ \A i \in 1..Len(text) : file[i] = text[i]

\* LoadJson reads a file that begins with an encoded document, whatever follows.
LEMMA ReadsBack ==
    ASSUME NEW doc \in Docs(Perm) \cup Docs(ID), NEW file \in Seq(Cell),
           Starts(file, Encode(doc))
    PROVE  LoadJson(file) = doc
<1> DEFINE size == Cardinality(DOMAIN doc)
           e == Encode(doc)
           end == size + 1
<1>1. size \in Nat /\ Len(e) = size + 1 /\ e[size + 1] = End
    BY EncodeIs
<1>2. \A i \in 1..size : e[i] \in Member /\ e[i].key \in DOMAIN doc /\ e[i].list = doc[e[i].key]
    BY EncodeIs
<1>3. \A i, j \in 1..size : e[i].key = e[j].key => i = j
    BY EncodeIs
<1>4. \A k \in DOMAIN doc : \E i \in 1..size : e[i].key = k
    BY EncodeIs
<1> HIDE DEF size, e
<1>5. size + 1 \in DOMAIN file /\ DOMAIN file \subseteq Nat /\ \A k \in DOMAIN file : k >= 1
    BY <1>1, LenProperties DEF e, Starts
<1>6. file[size + 1] = End /\ \A i \in 1..size : file[i] = e[i]
    BY <1>1 DEF e, Starts
<1>7. \A i \in 1..size : file[i] \notin {End, Garbled}
    <2>1. \A i \in 1..size : file[i] \in Member
        BY <1>2, <1>6
    <2> QED
        BY <2>1, PersistenceAssumption
<1>8. Closed(file, size + 1)
    BY <1>1, <1>6, <1>7 DEF Closed
<1>9. ASSUME NEW k \in DOMAIN file, Closed(file, k)
      PROVE  k = size + 1
    <2>1. ~(k < size + 1)
        BY <1>1, <1>5, <1>7, <1>9 DEF Closed
    <2>2. ~(size + 1 < k)
        BY <1>1, <1>5, <1>6, <1>9 DEF Closed
    <2> QED
        BY <1>1, <1>5, <2>1, <2>2
<1>10. LoadJson(file) = [id \in { file[i].key : i \in 1..end - 1 } |-> file[LastOf(file, end, id)].list]
    <2>1. end \in DOMAIN file /\ Closed(file, end) /\ \A k \in DOMAIN file : Closed(file, k) => k = end
        BY <1>5, <1>8, <1>9
    <2> HIDE DEF end
    <2> QED
        BY <2>1, LoadsFirst
<1>11. 1..end - 1 = 1..size
    BY <1>1
<1>12. \A i \in 1..size : i + 1..end - 1 = i + 1..size
    BY <1>1
<1> HIDE DEF end
<1>13. { file[i].key : i \in 1..size } = DOMAIN doc
    <2>1. \A i \in 1..size : file[i].key \in DOMAIN doc
        BY <1>2, <1>6
    <2>2. \A k \in DOMAIN doc : \E i \in 1..size : file[i].key = k
        BY <1>4, <1>6
    <2> QED
        BY <2>1, <2>2
<1>14. ASSUME NEW id \in DOMAIN doc
       PROVE  file[LastOf(file, end, id)].list = doc[id]
    <2>1. PICK i \in 1..size : file[i].key = id
        BY <1>4, <1>6
    <2>2. ASSUME NEW j \in 1..size, file[j].key = id
          PROVE  j = i
        BY <1>3, <1>6, <2>1, <2>2
    <2>3. LastOf(file, end, id) = i
        <3>1. \A j \in i + 1..size : j \in 1..size /\ j # i
            BY <1>1
        <3>2. file[i].key = id /\ \A j \in i + 1..size : file[j].key # id
            BY <2>1, <2>2, <3>1
        <3>3. i \in 1..end - 1 /\ \A j \in i + 1..end - 1 : file[j].key # id
            BY <1>11, <1>12, <3>2, Zenon
        <3>4. /\ LastOf(file, end, id) \in 1..end - 1
              /\ file[LastOf(file, end, id)].key = id
            BY <3>2, <3>3, LastExists
        <3> QED
            BY <1>11, <2>2, <3>4
    <2>4. file[i].list = doc[file[i].key]
        BY <1>2, <1>6
    <2> QED
        BY <2>1, <2>3, <2>4
<1>15. LoadJson(file) = [id \in DOMAIN doc |-> file[LastOf(file, end, id)].list]
    BY <1>10, <1>11, <1>13, Zenon
<1>16. LoadJson(file) = [id \in DOMAIN doc |-> doc[id]]
    BY <1>14, <1>15
<1> QED
    BY <1>16, DocsMean
\* What is written over a file is what the file starts with.
LEMMA OverwriteStarts ==
    ASSUME NEW old \in Seq(Cell), NEW new \in Seq(Cell), NEW k \in 0..Len(new)
    PROVE  /\ Overwrite(old, new, k) \in Seq(Cell)
           /\ k <= Len(Overwrite(old, new, k))
           /\ \A i \in 1..k : Overwrite(old, new, k)[i] = new[i]
<1> DEFINE s == SubSeq(new, 1, k)
           t == SubSeq(old, k + 1, Len(old))
<1>1. Len(new) \in Nat /\ Len(old) \in Nat /\ k \in Nat
    BY LenProperties
<1>2. s \in Seq(Cell) /\ Len(s) = k /\ \A i \in 1..k : s[i] = new[i]
    <2>1. \A i \in 1..k : new[i] \in Cell
        BY <1>1, ElementOfSeq
    <2>2. /\ s \in Seq(Cell) /\ Len(s) = IF 1 <= k THEN k - 1 + 1 ELSE 0
          /\ \A i \in 1..k - 1 + 1 : s[i] = new[1 + i - 1]
        BY <1>1, <2>1, SubSeqProperties
    <2> QED
        BY <1>1, <2>2
<1>3. t \in Seq(Cell)
    <2>1. \A i \in k + 1..Len(old) : old[i] \in Cell
        BY <1>1, ElementOfSeq
    <2> QED
        BY <1>1, <2>1, SubSeqProperties
<1>4. Overwrite(old, new, k) = s \o t
    BY DEF Overwrite
<1> HIDE DEF s, t
<1>5. /\ s \o t \in Seq(Cell) /\ Len(s \o t) = Len(s) + Len(t)
      /\ \A i \in 1..Len(s) + Len(t) : (s \o t)[i] = IF i <= Len(s) THEN s[i] ELSE t[i - Len(s)]
    BY <1>2, <1>3, ConcatProperties
<1>6. Len(t) \in Nat
    BY <1>3, LenProperties
<1> QED
    BY <1>1, <1>2, <1>4, <1>5, <1>6

\* What SaveJson writes reads back, whatever the file held.
LEMMA SaveReadsBack ==
    ASSUME NEW doc \in Docs(Perm) \cup Docs(ID), NEW old \in Seq(Cell)
    PROVE  SaveJson(old, doc) \in Seq(Cell) /\ LoadJson(SaveJson(old, doc)) = doc
<1>1. Encode(doc) \in Seq(Cell)
    BY EncodeIs
<1>2. Len(Encode(doc)) \in 0..Len(Encode(doc))
    BY <1>1, LenProperties
<1>3. SaveJson(old, doc) \in Seq(Cell) /\ Starts(SaveJson(old, doc), Encode(doc))
    BY <1>1, <1>2, OverwriteStarts DEF SaveJson, Starts
<1> QED
    BY <1>3, ReadsBack

\* What the encoder writes to a new file reads back.
LEMMA EncodeReadsBack ==
    ASSUME NEW doc \in Docs(Perm) \cup Docs(ID)
    PROVE  Encode(doc) \in Seq(Cell) /\ LoadJson(Encode(doc)) = doc
<1>1. Encode(doc) \in Seq(Cell)
    BY EncodeIs
<1>2. Starts(Encode(doc), Encode(doc))
    BY <1>1, LenProperties DEF Starts
<1> QED
    BY <1>1, <1>2, ReadsBack

\* A write that is cut leaves a file of cells.
LEMMA CutsAreFiles ==
    ASSUME NEW doc \in Docs(Perm) \cup Docs(ID), NEW old \in Seq(Cell)
    PROVE  CutWrites(old, doc) \subseteq Seq(Cell)
<1> DEFINE new == Encode(doc)
<1>1. new \in Seq(Cell) /\ Len(new) \in Nat
    BY EncodeIs, LenProperties
<1> HIDE DEF new
<1>2. ASSUME NEW k \in 0..Len(new) - 1
      PROVE  /\ Overwrite(old, new, k) \in Seq(Cell)
             /\ Overwrite(old, SubSeq(new, 1, k) \o <<Garbled>>, k + 1) \in Seq(Cell)
    <2>1. Overwrite(old, new, k) \in Seq(Cell)
        BY <1>1, OverwriteStarts
    <2> DEFINE s == SubSeq(new, 1, k)
               cut == s \o <<Garbled>>
    <2>2. s \in Seq(Cell) /\ Len(s) = k
        <3>1. \A i \in 1..k : new[i] \in Cell
            BY <1>1, ElementOfSeq
        <3>2. s \in Seq(Cell) /\ Len(s) = IF 1 <= k THEN k - 1 + 1 ELSE 0
            BY <1>1, <3>1, SubSeqProperties
        <3> QED
            BY <1>1, <3>2
    <2>3. <<Garbled>> \in Seq(Cell) /\ Len(<<Garbled>>) = 1
        BY DEF Cell
    <2> HIDE DEF s
    <2>4. cut \in Seq(Cell) /\ Len(cut) = k + 1
        BY <2>2, <2>3, ConcatProperties
    <2> HIDE DEF cut
    <2>5. k + 1 \in 0..Len(cut)
        BY <1>1, <2>4
    <2>6. Overwrite(old, cut, k + 1) \in Seq(Cell)
        BY <2>4, <2>5, OverwriteStarts
    <2> QED
        BY <2>1, <2>6 DEF cut, s
<1> QED
    BY <1>2 DEF CutWrites, new
-----------------------------------------------------------------------------
(***************************************************************************)
(* Each step of the persistence example keeps its invariant.               *)
(***************************************************************************)
LEMMA IsDoc ==
    ASSUME NEW values, NEW ids \in SUBSET ID, NEW doc \in [ids -> SUBSET values]
    PROVE  doc \in Docs(values)
BY DEF Docs

\* The empty document belongs to every kind and names nobody.
LEMMA EmptyDoc ==
    /\ \A values : NoDoc \in Docs(values)
    /\ DOMAIN NoDoc = {} /\ \A x : Up(NoDoc, x) = {}
<1>1. ASSUME NEW values
      PROVE  NoDoc \in Docs(values)
    <2>1. NoDoc \in [{} -> SUBSET values]
        BY DEF NoDoc
    <2> QED
        BY <2>1, IsDoc
<1> QED
    BY <1>1 DEF NoDoc, Up

\* What a run makes of its documents are documents.
LEMMA GrownDocs ==
    ASSUME PersistenceTypeOK
    PROVE  /\ Grown \in SUBSET ID
           /\ GrownRoles \in Docs(Perm) /\ DOMAIN GrownRoles = Grown
           /\ GrownInher \in Docs(ID) /\ DOMAIN GrownInher = Grown
<1>1. /\ jsonRoles \in [DOMAIN jsonRoles -> SUBSET Perm] /\ DOMAIN jsonRoles \in SUBSET ID
      /\ jsonInher \in [DOMAIN jsonInher -> SUBSET ID]
    BY DocsMean DEF PersistenceTypeOK
<1>2. Grown \in SUBSET ID
    BY <1>1, PersistenceAssumption DEF Grown
<1>3. GrownRoles \in [Grown -> SUBSET Perm]
    BY <1>1, PersistenceAssumption DEF GrownRoles, GrownList
<1>4. GrownInher \in [Grown -> SUBSET ID]
    BY <1>1 DEF GrownInher, Up
<1> QED
    BY <1>2, <1>3, <1>4, IsDoc

\* While the files and what was saved stay, so does what is said of them.
LEMMA FilesStay ==
    ASSUME FilesInv, UNCHANGED <<files, saved>>
    PROVE  FilesInv'
BY DEF FilesInv, SavedReadsBack

\* MixInv speaks of the files, and of the roles a run has read, alone.
LEMMA MixStays ==
    ASSUME MixInv, UNCHANGED <<files, saved, dropped>>,
           pc' = "idle" \/ (pc # "idle" /\ jsonRoles' = jsonRoles)
    PROVE  MixInv'
BY DEF MixInv, MixedPairLoads, Within, Grown

\* Every file is a sequence of cells.
LEMMA FilesTyped ==
    ASSUME PersistenceTypeOK, FilesInv, NEW f \in Inputs \cup Outputs
    PROVE  files[f] \in Seq(Cell)
BY DEF PersistenceTypeOK

\* A process that has ended holds nothing.
LEMMA ForgetKeeps ==
    ASSUME Forget, pc' = "idle"
    PROVE  /\ HierarchyTypeOK' /\ LoopsInv' /\ InstanceInv' /\ OutputInv'
           /\ jsonRoles' \in Docs(Perm) /\ jsonOutputRoles' \in Docs(Perm)
           /\ jsonInher' \in Docs(ID) /\ jsonOutputInher' \in Docs(ID)
           /\ unadded' \subseteq DOMAIN jsonRoles' /\ unbound' \subseteq DOMAIN jsonInher'
<1>1. HierarchyTypeOK'
    BY EmptyDoc DEF Forget, HierarchyTypeOK, Live, NoDoc
<1>2. LoopsInv' /\ InstanceInv' /\ OutputInv'
    BY DEF Forget, LoopsInv, InstanceInv, OutputInv
<1> QED
    BY <1>1, <1>2, EmptyDoc DEF Forget

\* Reading roles.json keeps the invariant.
LEMMA LoadRolesKeeps ==
    ASSUME RunInv, LoadRoles
    PROVE  RunInv'
<1> USE DEF RunInv
<1>1. /\ pc = "idle" /\ pc' = "loadInher"
      /\ jsonRoles' = LoadJson(files["roles.json"])
      /\ UNCHANGED <<hvars, files, jsonInher, unadded, unbound,
                     jsonOutputRoles, jsonOutputInher, saved, dropped, edits, faults>>
    BY DEF LoadRoles
<1>2. PersistenceTypeOK'
    <2>1. HierarchyTypeOK'
        BY <1>1 DEF PersistenceTypeOK, HierarchyTypeOK, Live, hvars
    <2>2. jsonRoles' \in Docs(Perm) /\ unadded = {}
        BY <1>1 DEF FilesInv, LoopsInv
    <2> QED
        BY <1>1, <2>1, <2>2 DEF PersistenceTypeOK
<1>3. FilesInv'
    BY <1>1, FilesStay
<1>4. LoopsInv' /\ InstanceInv' /\ OutputInv'
    BY <1>1 DEF LoopsInv, InstanceInv, OutputInv
<1>5. MixInv'
    BY <1>1 DEF MixInv, MixedPairLoads, Within, Grown
<1> QED
    BY <1>2, <1>3, <1>4, <1>5

\* Reading inher.json keeps the invariant.
LEMMA LoadInherKeeps ==
    ASSUME RunInv, LoadInher
    PROVE  RunInv'
<1> USE DEF RunInv
<1>1. /\ pc = "loadInher" /\ pc' = "build"
      /\ jsonInher' = LoadJson(files["inher.json"])
      /\ unadded' = DOMAIN jsonRoles /\ unbound' = DOMAIN jsonInher'
      /\ roles' = [x \in {} |-> x] /\ parents' = NoDoc /\ perms' = [r \in Role |-> {}]
      /\ UNCHANGED <<files, jsonRoles, jsonOutputRoles, jsonOutputInher, saved, dropped, edits, faults>>
    BY DEF LoadInher, TakeKeys
<1>2. PersistenceTypeOK'
    <2>1. HierarchyTypeOK'
        BY <1>1, EmptyDoc DEF HierarchyTypeOK, Live, NoDoc
    <2>2. jsonInher' \in Docs(ID)
        BY <1>1 DEF FilesInv
    <2> QED
        BY <1>1, <2>1, <2>2 DEF PersistenceTypeOK
<1>3. FilesInv'
    BY <1>1, FilesStay
<1>4. LoopsInv'
    BY <1>1 DEF LoopsInv
<1>5. InstanceInv'
    <2>1. Live' = {}
        BY <1>1 DEF Live
    <2>2. \A id \in ID : Up(parents', id) = IF id \in unbound' THEN {} ELSE Up(jsonInher', id)
        BY <1>1, EmptyDoc DEF Up
    <2> QED
        BY <1>1, <2>1, <2>2 DEF InstanceInv
<1>6. OutputInv'
    BY <1>1 DEF OutputInv
<1>7. MixInv'
    BY <1>1, MixStays
<1> QED
    BY <1>2, <1>3, <1>4, <1>5, <1>6, <1>7
\* A new role object has the permissions it was given; the others keep theirs,
\* since they have other ids.
LEMMA AddNewEffect ==
    ASSUME HierarchyTypeOK, NEW id \in ID \ Live, NEW ps \in SUBSET Perm,
           \A k \in Live : IdOf[roles[k]] = k, AddNew(id, ps)
    PROVE  /\ HierarchyTypeOK' /\ parents' = parents
           /\ Live' = Live \cup {id}
           /\ \A k \in Live' : /\ IdOf[roles'[k]] = k
                               /\ perms'[roles'[k]] = IF k = id THEN ps ELSE perms[roles[k]]
<1> DEFINE r == CHOOSE o \in Role : IdOf[o] = id
<1>1. r \in Role /\ IdOf[r] = id
    BY PersistenceAssumption
<1>2. /\ roles' = [x \in Live \cup {id} |-> IF x = id THEN r ELSE roles[x]]
      /\ perms' = [perms EXCEPT ![r] = ps] /\ parents' = parents
    BY DEF AddNew
<1> HIDE DEF r
<1>3. Live' = Live \cup {id}
    BY <1>2 DEF Live
<1>4. \A k \in Live : roles[k] \in Role /\ roles[k] # r /\ k # id
    BY <1>1 DEF HierarchyTypeOK
<1>5. perms \in [Role -> SUBSET Perm]
    BY DEF HierarchyTypeOK
<1>6. \A k \in Live' : /\ IdOf[roles'[k]] = k
                       /\ perms'[roles'[k]] = IF k = id THEN ps ELSE perms[roles[k]]
    BY <1>1, <1>2, <1>3, <1>4, <1>5
<1>7. HierarchyTypeOK'
    BY <1>1, <1>2, <1>3 DEF HierarchyTypeOK, Live
<1> QED
    BY <1>2, <1>3, <1>6, <1>7

\* Adding a role of the document keeps the invariant.
LEMMA AddLoadedKeeps ==
    ASSUME RunInv, AddLoaded
    PROVE  RunInv'
<1> USE DEF RunInv
<1>1. PICK id \in unadded : AddNew(id, jsonRoles[id]) /\ unadded' = unadded \ {id}
    BY DEF AddLoaded
<1>2. /\ pc = "build" /\ pc' = "build"
      /\ UNCHANGED <<files, jsonRoles, jsonInher, unbound,
                     jsonOutputRoles, jsonOutputInher, saved, dropped, edits, faults>>
    BY DEF AddLoaded
<1>3. /\ Live = DOMAIN jsonRoles \ unadded /\ unadded \subseteq DOMAIN jsonRoles
      /\ \A k \in Live : IdOf[roles[k]] = k /\ perms[roles[k]] = GrownList(k)
      /\ \A k \in ID : Up(parents, k) = IF k \in unbound THEN {} ELSE Up(jsonInher, k)
    BY <1>2 DEF InstanceInv, PersistenceTypeOK
<1>4. id \in ID \ Live /\ jsonRoles[id] \in SUBSET Perm /\ HierarchyTypeOK
    BY <1>1, <1>3, DocsMean DEF PersistenceTypeOK
<1>5. /\ HierarchyTypeOK' /\ parents' = parents
      /\ Live' = Live \cup {id}
      /\ \A k \in Live' : /\ IdOf[roles'[k]] = k
                          /\ perms'[roles'[k]] = IF k = id THEN jsonRoles[id] ELSE perms[roles[k]]
    BY <1>1, <1>3, <1>4, AddNewEffect
<1>6. PersistenceTypeOK'
    BY <1>1, <1>2, <1>5 DEF PersistenceTypeOK
<1>7. FilesInv' /\ OutputInv'
    BY <1>2, FilesStay DEF OutputInv
<1>8. LoopsInv'
    BY <1>1, <1>2 DEF LoopsInv
<1>9. InstanceInv'
    <2>1. Live' = DOMAIN jsonRoles' \ unadded'
        BY <1>1, <1>2, <1>3, <1>5
    <2>2. \A k \in Live' : IdOf[roles'[k]] = k /\ perms'[roles'[k]] = GrownList(k)'
        BY <1>2, <1>3, <1>5, <2>1 DEF GrownList
    <2>3. \A k \in ID : Up(parents', k) = IF k \in unbound' THEN {} ELSE Up(jsonInher', k)
        BY <1>2, <1>3, <1>5
    <2> QED
        BY <1>2, <2>1, <2>2, <2>3 DEF InstanceInv
<1>10. MixInv'
    BY <1>2, MixStays
<1> QED
    BY <1>6, <1>7, <1>8, <1>9, <1>10

\* SetParents has checked that the ids are roles.
LEMMA BindLoadedKeeps ==
    ASSUME RunInv, BindLoaded
    PROVE  RunInv'
<1> USE DEF RunInv
<1>1. PICK id \in unbound : BindParents(id, jsonInher[id]) /\ unbound' = unbound \ {id}
    BY DEF BindLoaded
<1>2. /\ pc = "build" /\ pc' = "build" /\ unadded = {}
      /\ UNCHANGED <<files, jsonRoles, jsonInher, unadded,
                     jsonOutputRoles, jsonOutputInher, saved, dropped, edits, faults>>
    BY DEF BindLoaded
<1>3. /\ Live = DOMAIN jsonRoles
      /\ \A k \in Live : IdOf[roles[k]] = k /\ perms[roles[k]] = GrownList(k)
      /\ \A k \in ID : Up(parents, k) = IF k \in unbound THEN {} ELSE Up(jsonInher, k)
    BY <1>2 DEF InstanceInv
<1>4. id \in ID /\ id \in DOMAIN jsonInher /\ jsonInher[id] \in SUBSET ID
    BY <1>1, DocsMean DEF PersistenceTypeOK
<1>5. /\ {id} \cup jsonInher[id] \subseteq Live
      /\ parents' = Bind(parents, id, jsonInher[id])
      /\ UNCHANGED <<roles, perms>>
    BY <1>1 DEF BindParents, AllKnown
<1>6. PersistenceTypeOK'
    <2>1. HierarchyTypeOK'
        BY <1>1, <1>4, EditKeepsType DEF AnyEdit, PersistenceTypeOK
    <2> QED
        BY <1>1, <1>2, <2>1 DEF PersistenceTypeOK
<1>7. FilesInv' /\ OutputInv'
    BY <1>2, FilesStay DEF OutputInv
<1>8. LoopsInv'
    BY <1>1, <1>2, <1>3, <1>5 DEF LoopsInv
<1>9. InstanceInv'
    <2>1. Live' = Live
        BY <1>5 DEF Live
    <2>2. \A k \in Live : IdOf[roles'[k]] = k /\ perms'[roles'[k]] = GrownList(k)'
        BY <1>2, <1>3, <1>5 DEF GrownList
    <2>3. ASSUME NEW k \in ID
          PROVE  Up(parents', k) = IF k \in unbound' THEN {} ELSE Up(jsonInher, k)
        <3>1. CASE k = id
            BY <1>1, <1>3, <1>4, <1>5, <3>1 DEF Bind, Up
        <3>2. CASE k # id
            <4>1. Up(parents', k) = Up(parents, k)
                BY <1>5, <3>2 DEF Bind, Up
            <4> QED
                BY <1>1, <1>3, <3>2, <4>1
        <3> QED
            BY <3>1, <3>2
    <2> QED
        BY <1>2, <1>3, <2>1, <2>2, <2>3 DEF InstanceInv
<1>10. MixInv'
    BY <1>2, MixStays
<1> QED
    BY <1>6, <1>7, <1>8, <1>9, <1>10

\* Adding `nobody` keeps the invariant.
LEMMA AddNobodyKeeps ==
    ASSUME RunInv, AddNobody
    PROVE  RunInv'
<1> USE DEF RunInv
<1>1. /\ pc = "build" /\ pc' = "walk" /\ unadded = {} /\ unbound = {}
      /\ IF Nobody \in Live THEN UNCHANGED hvars ELSE AddNew(Nobody, {ReadText})
      /\ UNCHANGED <<files, main, saved, dropped, edits, faults>>
    BY DEF AddNobody
<1>2. /\ Live = DOMAIN jsonRoles /\ Grown = Live \cup {Nobody}
      /\ \A k \in Live : IdOf[roles[k]] = k /\ perms[roles[k]] = GrownList(k)
      /\ \A k \in ID : Up(parents, k) = Up(jsonInher, k)
    BY <1>1 DEF InstanceInv, Grown
<1>3. UNCHANGED <<jsonRoles, jsonInher, unadded, unbound, jsonOutputRoles, jsonOutputInher>>
    BY <1>1 DEF main
<1>4. /\ HierarchyTypeOK' /\ parents' = parents /\ Live' = Grown
      /\ \A k \in Live' : IdOf[roles'[k]] = k /\ perms'[roles'[k]] = GrownList(k)
    <2>1. CASE Nobody \in Live
        BY <1>1, <1>2, <2>1 DEF hvars, HierarchyTypeOK, Live, PersistenceTypeOK
    <2>2. CASE Nobody \notin Live
        <3>1. Nobody \in ID \ Live /\ {ReadText} \in SUBSET Perm /\ HierarchyTypeOK
            BY <2>2, PersistenceAssumption DEF PersistenceTypeOK
        <3>2. /\ HierarchyTypeOK' /\ parents' = parents
              /\ Live' = Live \cup {Nobody}
              /\ \A k \in Live' : /\ IdOf[roles'[k]] = k
                                  /\ perms'[roles'[k]] = IF k = Nobody THEN {ReadText} ELSE perms[roles[k]]
            BY <1>1, <1>2, <2>2, <3>1, AddNewEffect
        <3> QED
            BY <1>2, <2>2, <3>2 DEF GrownList
    <2> QED
        BY <2>1, <2>2
<1>5. PersistenceTypeOK'
    BY <1>1, <1>3, <1>4 DEF PersistenceTypeOK
<1>6. FilesInv' /\ OutputInv'
    BY <1>1, FilesStay DEF OutputInv
<1>7. LoopsInv'
    BY <1>1, <1>3 DEF LoopsInv
<1>8. InstanceInv'
    <2>1. Grown' = Grown /\ \A k : GrownList(k)' = GrownList(k)
        BY <1>3 DEF Grown, GrownList
    <2> QED
        BY <1>1, <1>2, <1>3, <1>4, <2>1 DEF InstanceInv
<1>9. MixInv'
    BY <1>1, <1>3, MixStays
<1> QED
    BY <1>5, <1>6, <1>7, <1>8, <1>9
\* Collecting the output documents keeps the invariant.
LEMMA WalkKeeps ==
    ASSUME RunInv, Walk
    PROVE  RunInv'
<1> USE DEF RunInv
<1>1. /\ pc = "walk" /\ pc' = "saveRoles"
      /\ jsonOutputRoles' = [id \in Live |-> perms[roles[id]]]
      /\ jsonOutputInher' = [id \in Live |-> Up(parents, id)]
      /\ UNCHANGED <<hvars, files, jsonRoles, jsonInher, unadded, unbound, saved, dropped, edits, faults>>
    BY DEF Walk
<1>2. /\ Live = Grown /\ Grown \in SUBSET ID /\ unbound = {}
      /\ \A k \in Live : perms[roles[k]] = GrownList(k)
      /\ \A k \in ID : Up(parents, k) = Up(jsonInher, k)
    BY <1>1, GrownDocs DEF InstanceInv, LoopsInv
<1>3. jsonOutputRoles' = GrownRoles /\ jsonOutputInher' = GrownInher
    BY <1>1, <1>2 DEF GrownRoles, GrownInher
<1>4. GrownRoles' = GrownRoles /\ GrownInher' = GrownInher
    BY <1>1 DEF GrownRoles, GrownInher, Grown, GrownList, Up
<1>5. PersistenceTypeOK'
    <2>1. HierarchyTypeOK'
        BY <1>1 DEF PersistenceTypeOK, HierarchyTypeOK, Live, hvars
    <2> QED
        BY <1>1, <1>3, <2>1, GrownDocs DEF PersistenceTypeOK
<1>6. FilesInv' /\ MixInv'
    BY <1>1, FilesStay, MixStays
<1>7. LoopsInv' /\ InstanceInv' /\ OutputInv'
    BY <1>1, <1>3, <1>4 DEF LoopsInv, InstanceInv, OutputInv
<1> QED
    BY <1>5, <1>6, <1>7

\* The links of the documents that a run saves are links between its roles.
LEMMA GrownWithin ==
    ASSUME PersistenceTypeOK, LoopsInv, pc \notin {"idle", "loadInher", "build"}
    PROVE  Within(GrownInher, Grown)
<1>1. \A id \in DOMAIN jsonInher : {id} \cup jsonInher[id] \subseteq DOMAIN jsonRoles
    BY DEF LoopsInv
<1>2. \A id \in Grown : Up(jsonInher, id) \subseteq Grown
    BY <1>1 DEF Up, Grown
<1> QED
    BY <1>2 DEF Within, GrownInher

\* A save that succeeds reads back, and the pair it completes loads.
LEMMA SavedKeeps ==
    ASSUME RunInv, NEW f \in Outputs, NEW doc, NEW next,
           \/ f = "new-roles.json" /\ doc = jsonOutputRoles /\ pc = "saveRoles" /\ next = "saveInher"
           \/ f = "new-inher.json" /\ doc = jsonOutputInher /\ pc = "saveInher" /\ next = "done",
           files' = [files EXCEPT ![f] = SaveJson(@, doc)],
           saved' = [saved EXCEPT ![f] = doc], pc' = next,
           UNCHANGED <<hvars, main, faults, dropped, edits>>
    PROVE  RunInv'
<1> USE DEF RunInv
<1>1. /\ jsonOutputRoles = GrownRoles /\ jsonOutputInher = GrownInher
      /\ pc = "saveInher" => saved["new-roles.json"] = GrownRoles
    BY DEF OutputInv
<1>2. /\ GrownRoles \in Docs(Perm) /\ DOMAIN GrownRoles = Grown
      /\ GrownInher \in Docs(ID)
      /\ Within(GrownInher, Grown)
    BY GrownDocs, GrownWithin
<1>3. doc \in Docs(Perm) \cup Docs(ID) /\ doc # Missing
    BY <1>1, <1>2, PersistenceAssumption
<1>4. /\ files'[f] \in Seq(Cell) /\ LoadJson(files'[f]) = doc
      /\ \A g \in (Inputs \cup Outputs) \ {f} : files'[g] = files[g]
      /\ files' \in [Inputs \cup Outputs -> Seq(Cell)]
    <2>1. files[f] \in Seq(Cell) /\ files \in [Inputs \cup Outputs -> Seq(Cell)]
        BY DEF PersistenceTypeOK
    <2>2. SaveJson(files[f], doc) \in Seq(Cell) /\ LoadJson(SaveJson(files[f], doc)) = doc
        BY <1>3, <2>1, SaveReadsBack
    <2> QED
        BY <2>1, <2>2
<1>5. /\ saved'[f] = doc
      /\ \A g \in Outputs \ {f} : saved'[g] = saved[g]
      /\ saved' \in [Outputs -> Docs(Perm) \cup Docs(ID) \cup {Missing}]
    BY <1>3 DEF PersistenceTypeOK
<1>6. UNCHANGED <<roles, parents, perms, jsonRoles, jsonInher, unadded, unbound,
                  jsonOutputRoles, jsonOutputInher>>
    BY DEF hvars, main
<1>7. PersistenceTypeOK'
    <2>1. HierarchyTypeOK'
        BY <1>6 DEF PersistenceTypeOK, HierarchyTypeOK, Live
    <2> QED
        BY <1>4, <1>5, <1>6, <2>1 DEF PersistenceTypeOK
<1>8. FilesInv'
    <2>1. SavedReadsBack'
        BY <1>4, <1>5 DEF SavedReadsBack, FilesInv, Outputs
    <2>2. files'["roles.json"] = files["roles.json"] /\ files'["inher.json"] = files["inher.json"]
        BY <1>4 DEF Inputs, Outputs
    <2>3. /\ saved'["new-roles.json"] \in Docs(Perm) \cup {Missing}
          /\ saved'["new-inher.json"] \in Docs(ID) \cup {Missing}
        BY <1>1, <1>2, <1>5 DEF FilesInv, Outputs
    <2> QED
        BY <2>1, <2>2, <2>3 DEF FilesInv
<1>9. /\ LoopsInv' /\ InstanceInv'
    BY <1>6 DEF LoopsInv, InstanceInv
<1>10. Grown' = Grown /\ GrownRoles' = GrownRoles /\ GrownInher' = GrownInher
    BY <1>6 DEF GrownRoles, GrownInher, Grown, GrownList, Up
<1>11. OutputInv'
    BY <1>1, <1>5, <1>6, <1>10 DEF OutputInv, Outputs
<1>12. MixInv'
    <2>1. SUFFICES ASSUME ~dropped
                   PROVE  /\ pc' # "idle" => DOMAIN jsonRoles \subseteq DOMAIN LoadJson(files["roles.json"])
                          /\ saved'["new-inher.json"] # Missing =>
                                /\ Within(saved'["new-inher.json"], DOMAIN LoadJson(files["roles.json"]) \cup {Nobody})
                                /\ Within(saved'["new-inher.json"], Grown)
                          /\ MixedPairLoads'
        <3>1. files'["roles.json"] = files["roles.json"]
            BY <1>4 DEF Inputs, Outputs
        <3> QED
            BY <3>1, <1>6, <1>10 DEF MixInv
    <2>2. DOMAIN jsonRoles \subseteq DOMAIN LoadJson(files["roles.json"])
        BY <2>1 DEF MixInv
    <2>3. CASE f = "new-roles.json"
        <3>1. saved'["new-inher.json"] = saved["new-inher.json"] /\ saved'["new-roles.json"] = GrownRoles
            BY <1>1, <1>5, <2>3 DEF Outputs
        <3>2. saved["new-inher.json"] # Missing =>
                 /\ Within(saved["new-inher.json"], DOMAIN LoadJson(files["roles.json"]) \cup {Nobody})
                 /\ Within(saved["new-inher.json"], Grown)
            BY <2>1, <2>3 DEF MixInv
        <3>3. MixedPairLoads'
            BY <3>1, <3>2, <1>2 DEF MixedPairLoads, Within
        <3> QED
            BY <2>2, <3>1, <3>2, <3>3
    <2>4. CASE f = "new-inher.json"
        <3>1. saved'["new-inher.json"] = GrownInher /\ saved'["new-roles.json"] = GrownRoles
            BY <1>1, <1>5, <2>4 DEF Outputs
        <3>2. Within(GrownInher, DOMAIN LoadJson(files["roles.json"]) \cup {Nobody})
            BY <1>2, <2>2 DEF Within, Grown
        <3>3. MixedPairLoads'
            BY <3>1, <1>2 DEF MixedPairLoads, Within
        <3> QED
            BY <2>2, <3>1, <3>2, <3>3, <1>2
    <2> QED
        BY <2>3, <2>4 DEF Outputs
<1> QED
    BY <1>7, <1>8, <1>9, <1>11, <1>12
\* One that is cut leaves some file, of which nothing is said.
LEMMA CutKeeps ==
    ASSUME RunInv, NEW f \in Outputs, NEW doc,
           doc \in {jsonOutputRoles, jsonOutputInher}, pc # "idle",
           \E cut \in CutWrites(files[f], doc) : files' = [files EXCEPT ![f] = cut],
           saved' = [saved EXCEPT ![f] = Missing], pc' = "idle", Forget,
           UNCHANGED dropped
    PROVE  RunInv'
<1> USE DEF RunInv
<1>1. PICK cut \in CutWrites(files[f], doc) : files' = [files EXCEPT ![f] = cut]
    OBVIOUS
<1>2. files[f] \in Seq(Cell) /\ files \in [Inputs \cup Outputs -> Seq(Cell)]
    BY DEF PersistenceTypeOK
<1>3. doc \in Docs(Perm) \cup Docs(ID)
    BY DEF PersistenceTypeOK
<1>4. cut \in Seq(Cell)
    BY <1>1, <1>2, <1>3, CutsAreFiles
<1>5. /\ files' \in [Inputs \cup Outputs -> Seq(Cell)]
      /\ \A g \in (Inputs \cup Outputs) \ {f} : files'[g] = files[g]
    BY <1>1, <1>2, <1>4
<1>6. /\ saved'[f] = Missing
      /\ \A g \in Outputs \ {f} : saved'[g] = saved[g]
      /\ saved' \in [Outputs -> Docs(Perm) \cup Docs(ID) \cup {Missing}]
    BY DEF PersistenceTypeOK
<1>7. PersistenceTypeOK'
    BY <1>5, <1>6, ForgetKeeps DEF PersistenceTypeOK
<1>8. files'["roles.json"] = files["roles.json"] /\ files'["inher.json"] = files["inher.json"]
    BY <1>5 DEF Inputs, Outputs
<1>9. FilesInv'
    <2>1. SavedReadsBack'
        BY <1>5, <1>6 DEF SavedReadsBack, FilesInv, Outputs
    <2> QED
        BY <1>6, <1>8, <2>1 DEF FilesInv, Outputs
<1>10. MixInv'
    <2>1. \A g \in Outputs : saved'[g] = saved[g] \/ saved'[g] = Missing
        BY <1>6
    <2> QED
        BY <1>8, <2>1 DEF MixInv, MixedPairLoads, Outputs
<1> QED
    BY <1>7, <1>9, <1>10, ForgetKeeps

\* The two saves keep the invariant, cut or not.
LEMMA SavesKeep ==
    ASSUME RunInv, Saves
    PROVE  RunInv'
<1>1. PICK f \in Outputs, doc \in {jsonOutputRoles, jsonOutputInher}, next \in {"saveInher", "done"} :
         /\ \/ f = "new-roles.json" /\ doc = jsonOutputRoles /\ pc = "saveRoles" /\ next = "saveInher"
            \/ f = "new-inher.json" /\ doc = jsonOutputInher /\ pc = "saveInher" /\ next = "done"
         /\ Save(f, doc, next)
    BY DEF Saves, Outputs
<1>2. CASE /\ files' = [files EXCEPT ![f] = SaveJson(@, doc)]
           /\ saved' = [saved EXCEPT ![f] = doc]
           /\ pc' = next
           /\ UNCHANGED <<hvars, main, faults>>
    BY <1>1, <1>2, SavedKeeps DEF Save
<1>3. CASE /\ \E cut \in CutWrites(files[f], doc) : files' = [files EXCEPT ![f] = cut]
           /\ saved' = [saved EXCEPT ![f] = Missing]
           /\ pc' = "idle" /\ Forget
    BY <1>1, <1>3, CutKeeps DEF Save
<1> QED
    BY <1>1, <1>2, <1>3 DEF Save

\* The end of a run, good or bad, keeps the invariant.
LEMMA ExitKeeps ==
    ASSUME RunInv, Exit
    PROVE  RunInv'
<1> USE DEF RunInv
<1>1. pc' = "idle" /\ Forget /\ UNCHANGED <<files, saved, dropped, edits, faults>>
    BY DEF Exit
<1>2. PersistenceTypeOK'
    BY <1>1, ForgetKeeps DEF PersistenceTypeOK
<1> QED
    BY <1>1, <1>2, ForgetKeeps, FilesStay, MixStays

\* The user puts a readable file in the place of an input.
LEMMA InputKeeps ==
    ASSUME RunInv, NEW f \in Inputs, NEW file \in Seq(Cell),
           f = "roles.json" => LoadJson(file) \in Docs(Perm),
           f = "inher.json" => LoadJson(file) \in Docs(ID),
           files' = [files EXCEPT ![f] = file], Tracked,
           UNCHANGED <<hvars, pc, main, saved>>
    PROVE  RunInv'
<1> USE DEF RunInv
<1>1. /\ files' \in [Inputs \cup Outputs -> Seq(Cell)]
      /\ files'[f] = file
      /\ \A g \in (Inputs \cup Outputs) \ {f} : files'[g] = files[g]
    BY DEF PersistenceTypeOK
<1>2. UNCHANGED <<roles, parents, perms, jsonRoles, jsonInher, unadded, unbound,
                  jsonOutputRoles, jsonOutputInher>>
    BY DEF hvars, main
<1>3. PersistenceTypeOK'
    <2>1. HierarchyTypeOK'
        BY <1>2 DEF PersistenceTypeOK, HierarchyTypeOK, Live
    <2> QED
        BY <1>1, <1>2, <2>1 DEF PersistenceTypeOK
<1>4. FilesInv'
    <2>1. \A g \in Outputs : files'[g] = files[g]
        BY <1>1 DEF Inputs, Outputs
    <2>2. SavedReadsBack'
        BY <2>1 DEF SavedReadsBack, FilesInv
    <2>3. LoadJson(files'["roles.json"]) \in Docs(Perm) /\ LoadJson(files'["inher.json"]) \in Docs(ID)
        BY <1>1 DEF FilesInv, Inputs
    <2> QED
        BY <2>2, <2>3 DEF FilesInv
<1>5. Grown' = Grown /\ GrownRoles' = GrownRoles /\ GrownInher' = GrownInher
      /\ \A id : GrownList(id)' = GrownList(id)
    BY <1>2 DEF GrownRoles, GrownInher, Grown, GrownList, Up
<1>6. LoopsInv' /\ InstanceInv' /\ OutputInv'
    BY <1>2, <1>5 DEF LoopsInv, InstanceInv, OutputInv, Live
<1>7. MixInv'
    <2>1. ~dropped' => /\ ~dropped
                       /\ DOMAIN LoadJson(files["roles.json"]) \subseteq DOMAIN LoadJson(files'["roles.json"])
        BY DEF Tracked
    <2> QED
        BY <1>2, <1>5, <2>1 DEF MixInv, MixedPairLoads, Within
<1> QED
    BY <1>3, <1>4, <1>6, <1>7

\* What the user does to the files keeps the invariant.
LEMMA UserKeeps ==
    ASSUME RunInv, Edit \/ Install
    PROVE  RunInv'
<1>1. ASSUME NEW doc \in InputRoles, files' = [files EXCEPT !["roles.json"] = Encode(doc)],
             Tracked, UNCHANGED <<hvars, pc, main, saved>>
      PROVE  RunInv'
    <2>1. doc \in Docs(Perm) /\ Encode(doc) \in Seq(Cell) /\ LoadJson(Encode(doc)) = doc
        BY PersistenceAssumption, EncodeReadsBack
    <2> QED
        BY <1>1, <2>1, InputKeeps DEF Inputs
<1>2. ASSUME NEW doc \in InputInher, files' = [files EXCEPT !["inher.json"] = Encode(doc)],
             Tracked, UNCHANGED <<hvars, pc, main, saved>>
      PROVE  RunInv'
    <2>1. doc \in Docs(ID) /\ Encode(doc) \in Seq(Cell) /\ LoadJson(Encode(doc)) = doc
        BY PersistenceAssumption, EncodeReadsBack
    <2> QED
        BY <1>2, <2>1, InputKeeps DEF Inputs
<1>3. ASSUME Install
      PROVE  RunInv'
    <2>1. /\ files["new-roles.json"] \in Seq(Cell) /\ files["new-inher.json"] \in Seq(Cell)
          /\ saved["new-roles.json"] # Missing => LoadJson(files["new-roles.json"]) \in Docs(Perm)
          /\ saved["new-inher.json"] # Missing => LoadJson(files["new-inher.json"]) \in Docs(ID)
        BY DEF RunInv, PersistenceTypeOK, FilesInv, SavedReadsBack, Outputs
    <2>2. CASE saved["new-roles.json"] # Missing /\ files' = [files EXCEPT !["roles.json"] = files["new-roles.json"]]
        BY <1>3, <2>1, <2>2, InputKeeps DEF Install, Inputs
    <2>3. CASE saved["new-inher.json"] # Missing /\ files' = [files EXCEPT !["inher.json"] = files["new-inher.json"]]
        BY <1>3, <2>1, <2>3, InputKeeps DEF Install, Inputs
    <2>4. PICK io \in {<<"roles.json", "new-roles.json">>, <<"inher.json", "new-inher.json">>} :
             /\ saved[io[2]] # Missing
             /\ files' = [files EXCEPT ![io[1]] = files[io[2]]]
        BY <1>3 DEF Install
    <2>5. \/ io[1] = "roles.json" /\ io[2] = "new-roles.json"
          \/ io[1] = "inher.json" /\ io[2] = "new-inher.json"
        BY <2>4
    <2> QED
        BY <2>2, <2>3, <2>4, <2>5
<1> QED
    BY <1>1, <1>2, <1>3 DEF Edit

\* Every step of the persistence example keeps its invariant.
LEMMA PersistenceKeepsInv ==
    ASSUME RunInv, PersistenceNext
    PROVE  RunInv'
BY LoadRolesKeeps, LoadInherKeeps, AddLoadedKeeps, BindLoadedKeeps, AddNobodyKeeps,
   WalkKeeps, SavesKeep, ExitKeeps, UserKeeps
   DEF PersistenceNext
-----------------------------------------------------------------------------
(***************************************************************************)
(* The theorems.                                                           *)
(***************************************************************************)
LEMMA InitHolds ==
    ASSUME Init
    PROVE  ExamplesInv
<1> USE DEF Init
<1>1. /\ pc = "idle" /\ unadded = {} /\ unbound = {} /\ dropped = FALSE
      /\ jsonRoles = NoDoc /\ jsonInher = NoDoc
      /\ jsonOutputRoles = NoDoc /\ jsonOutputInher = NoDoc
      /\ saved = [f \in Outputs |-> Missing]
    BY DEF PersistenceInit
<1>2. HierarchyTypeOK /\ Consistent
    BY EmptyDoc DEF PersistenceInit, HierarchyTypeOK, Consistent, Live, NoDoc
<1>3. PICK r \in InputRoles, i \in InputInher :
         files = [f \in Inputs \cup Outputs |->
                     CASE f = "roles.json" -> Encode(r)
                       [] f = "inher.json" -> Encode(i)
                       [] OTHER -> <<>>]
    BY DEF PersistenceInit
<1>4. /\ r \in Docs(Perm) /\ i \in Docs(ID)
      /\ Encode(r) \in Seq(Cell) /\ LoadJson(Encode(r)) = r
      /\ Encode(i) \in Seq(Cell) /\ LoadJson(Encode(i)) = i
    BY PersistenceAssumption, EncodeReadsBack
<1>5. /\ files["roles.json"] = Encode(r) /\ files["inher.json"] = Encode(i)
      /\ files \in [Inputs \cup Outputs -> Seq(Cell)]
    <2>1. /\ files["roles.json"] = Encode(r) /\ files["inher.json"] = Encode(i)
          /\ files["new-roles.json"] = <<>> /\ files["new-inher.json"] = <<>>
        BY <1>3 DEF Inputs, Outputs
    <2>2. DOMAIN files = Inputs \cup Outputs /\ files = [f \in DOMAIN files |-> files[f]]
        BY <1>3
    <2>3. \A f \in Inputs \cup Outputs : files[f] \in Seq(Cell)
        BY <1>4, <2>1, EmptySeq DEF Inputs, Outputs
    <2> QED
        BY <2>1, <2>2, <2>3
<1>6. PersistenceTypeOK
    BY <1>1, <1>2, <1>5, EmptyDoc DEF PersistenceTypeOK
<1>7. FilesInv
    BY <1>1, <1>4, <1>5 DEF FilesInv, SavedReadsBack, Outputs
<1>8. LoopsInv /\ InstanceInv /\ OutputInv /\ MixInv
    BY <1>1 DEF LoopsInv, InstanceInv, OutputInv, MixInv, MixedPairLoads, Outputs
<1>9. WrapperTypeOK /\ ClientInv
    BY <1>2, WrapperAssumption, EmptyDoc
    DEF WrapperInit, WrapperTypeOK, ClientInv, ClientOf, Busy, NoDoc
<1>10. AgreeInv
    <2>1. repoRoles = Live /\ repoParents = parents
        BY DEF WrapperInit, Live
    <2> QED
        BY <2>1 DEF AgreeInv, RepoFacts, InnerFacts
<1> QED
    BY <1>1, <1>2, <1>6, <1>7, <1>8, <1>9, <1>10 DEF ExamplesInv, RunInv

\* Every step of either program keeps the invariant of both.
LEMMA NextKeeps ==
    ASSUME ExamplesInv, [Next]_vars
    PROVE  ExamplesInv'
<1> USE DEF ExamplesInv
<1>1. CASE UNCHANGED vars
    <2>1. /\ UNCHANGED <<program, roles, parents, perms, files, pc, jsonRoles, jsonInher, unadded,
                         unbound, jsonOutputRoles, jsonOutputInher, saved, dropped>>
          /\ UNCHANGED <<repoRoles, repoParents, call, todo, at, shared, doubtful>>
        BY <1>1 DEF vars, pvars, wvars, hvars, main, repo
    <2>2. PersistenceTypeOK'
        BY <2>1 DEF RunInv, PersistenceTypeOK, HierarchyTypeOK, Live
    <2>6. FilesInv' /\ MixInv'
        BY <2>1, FilesStay, MixStays DEF RunInv
    <2>7. LoopsInv'
        BY <2>1 DEF RunInv, LoopsInv
    <2>8. InstanceInv'
        BY <2>1 DEF RunInv, InstanceInv, Live, Grown, GrownList, Up
    <2>9. OutputInv'
        <3>1. GrownRoles' = GrownRoles /\ GrownInher' = GrownInher
            BY <2>1 DEF GrownRoles, GrownInher, Grown, GrownList
        <3> QED
            BY <2>1, <3>1 DEF RunInv, OutputInv
    <2>3. WrapperTypeOK' /\ Consistent' = Consistent
        BY <2>1 DEF WrapperTypeOK, HierarchyTypeOK, Live, Consistent
    <2>4. RepoFacts' = RepoFacts /\ InnerFacts' = InnerFacts /\ Busy' = Busy
        BY <2>1 DEF RepoFacts, InnerFacts, Busy, Live
    <2>5. ClientInv' = ClientInv /\ AgreeInv' = AgreeInv
        BY <2>1, <2>4 DEF ClientInv, ClientOf, Carried, Makes, AgreeInv, Untouched
    <2> QED
        BY <2>1, <2>2, <2>3, <2>5, <2>6, <2>7, <2>8, <2>9 DEF RunInv
<1>2. ASSUME program = "persistence", PersistenceNext,
             UNCHANGED <<program, repo, call, todo, at, fails, shared, doubtful>>
      PROVE  ExamplesInv'
    <2>1. RunInv'
        BY <1>2, PersistenceKeepsInv
    <2>2. WrapperTypeOK'
        BY <1>2, <2>1 DEF RunInv, PersistenceTypeOK, WrapperTypeOK, repo
    <2> QED
        BY <1>2, <2>1, <2>2
<1>3. ASSUME program = "rbac-wrapper", WrapperNext,
             UNCHANGED <<program, files, pc, main, saved, dropped, edits, faults>>
      PROVE  ExamplesInv'
    <2>1. WrapperTypeOK' /\ Consistent' /\ ClientInv' /\ AgreeInv'
        BY <1>3, WrapperKeepsInv
    <2>2. PersistenceTypeOK'
        BY <1>3, <2>1 DEF WrapperTypeOK, RunInv, PersistenceTypeOK, main
    <2>3. FilesInv' /\ MixInv'
        BY <1>3, FilesStay, MixStays DEF RunInv
    <2>4. LoopsInv' /\ InstanceInv' /\ OutputInv'
        BY <1>3 DEF RunInv, LoopsInv, InstanceInv, OutputInv, main
    <2> QED
        BY <1>3, <2>1, <2>2, <2>3, <2>4 DEF RunInv
<1> QED
    BY <1>1, <1>2, <1>3 DEF Next

\* The inductive invariant holds in every run of either program.
THEOREM InvAlways == Spec => []ExamplesInv
<1>1. Init => ExamplesInv
    BY InitHolds
<1>2. ExamplesInv /\ [Next]_vars => ExamplesInv'
    BY NextKeeps
<1> QED
    BY <1>1, <1>2, PTL DEF Spec

\* The variables of both examples keep their types.
THEOREM TypeCorrect == Spec => []ExamplesTypeOK
<1>1. ExamplesInv => ExamplesTypeOK
    BY DEF ExamplesInv, RunInv, ExamplesTypeOK
<1> QED
    BY <1>1, InvAlways, PTL

\* What SaveJson wrote without an error reads back, over whatever the file held.
THEOREM SavedReadsBackAlways == Spec => []SavedReadsBack
<1>1. ExamplesInv => SavedReadsBack
    BY DEF ExamplesInv, RunInv, FilesInv
<1> QED
    BY <1>1, InvAlways, PTL

\* A run of the persistence example that ends well saves the hierarchy it read
\* and `nobody`.
THEOREM RunKeepsEverythingAlways == Spec => []RunKeepsEverything
<1>1. ASSUME ExamplesInv, pc = "done"
      PROVE  /\ LoadJson(files["new-roles.json"]) = GrownRoles
             /\ LoadJson(files["new-inher.json"]) = GrownInher
    <2>1. /\ saved["new-roles.json"] = GrownRoles /\ saved["new-inher.json"] = GrownInher
          /\ GrownRoles # Missing /\ GrownInher # Missing
        BY <1>1, GrownDocs, PersistenceAssumption DEF ExamplesInv, RunInv, OutputInv
    <2> QED
        BY <1>1, <2>1 DEF ExamplesInv, RunInv, FilesInv, SavedReadsBack, Outputs
<1>2. ExamplesInv => RunKeepsEverything
    BY <1>1 DEF RunKeepsEverything, GrownRoles, GrownInher, GrownList, Grown
<1> QED
    BY <1>2, InvAlways, PTL

\* The files that a run killed between its two saves leaves load together.
THEOREM MixedPairLoadsAlways == Spec => []MixedPairLoads
<1>1. ExamplesInv => MixedPairLoads
    BY DEF ExamplesInv, RunInv, MixInv, MixedPairLoads
<1> QED
    BY <1>1, InvAlways, PTL

\* The repository of the wrapper says what the instance says.
THEOREM WrapperAgreesAlways == Spec => []WrapperAgrees
<1>1. ASSUME ExamplesInv, program = "rbac-wrapper"
      PROVE  RepoAgrees
    <2>1. SUFFICES ASSUME NEW f \in Fact, f \notin UNION { Facts(call[c]) : c \in Busy },
                          f \notin doubtful
                   PROVE  f \in RepoFacts <=> f \in InnerFacts
        BY DEF RepoAgrees
    <2>2. \A c \in Busy : Untouched(c, f)
        BY <2>1 DEF Untouched
    <2> QED
        BY <1>1, <2>1, <2>2 DEF ExamplesInv, AgreeInv
<1>2. ExamplesInv => WrapperAgrees
    BY <1>1 DEF WrapperAgrees
<1> QED
    BY <1>2, InvAlways, PTL
=============================================================================
