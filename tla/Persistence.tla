---------------------------- MODULE Persistence ----------------------------
(***************************************************************************)
(* The example program src/examples/persistence: it builds an RBAC         *)
(* instance from two JSON files, changes it and saves it to two others,    *)
(* run after run.  It may be killed between any two steps, and its user    *)
(* edits the input files or copies an output file over an input file at    *)
(* any time.  The output files are only ever written by the program.       *)
(*                                                                         *)
(* A document is a function: role id -> permissions, or id -> parents.  A  *)
(* file is the sequence of its members in the order the encoder gives them *)
(* (it sorts the keys of a map) and End, the closing brace.  A file that   *)
(* does not exist and an empty one are both unreadable and are both <<>>.  *)
(*                                                                         *)
(* The program's checks with IsGranted only log and are left out.          *)
(***************************************************************************)
EXTENDS Hierarchy, Integers, Sequences, FiniteSets

CONSTANTS
    Keys,               \* every id, in the encoder's order
    Nobody, ReadText,   \* the role the program adds, and its permission
    InputRoles,         \* what the user may write to roles.json
    InputInher,         \* what the user may write to inher.json
    End, Garbled,       \* the end of a document; a member cut in two
    Missing,            \* what an unreadable file holds
    MaxEdits, MaxFaults \* bounds on the user's edits and on cut writes

Docs(values) == UNION { [ids -> SUBSET values] : ids \in SUBSET ID }

\* A member of a document: an id and its permissions or parents.
Member == [key : ID, list : SUBSET (ID \cup Perm)]
Cell == Member \cup {End, Garbled}

ASSUME PersistenceAssumption ==
    /\ Garbled # End /\ {End, Garbled} \cap Member = {}
    /\ Missing \notin Docs(Perm) \cup Docs(ID)
    /\ Nobody \in ID /\ ReadText \in Perm
    /\ Keys \in Seq(ID) /\ { Keys[i] : i \in DOMAIN Keys } = ID
    /\ \A i, j \in DOMAIN Keys : Keys[i] = Keys[j] => i = j
    /\ InputRoles \subseteq Docs(Perm) /\ InputInher \subseteq Docs(ID)
    /\ \A id \in ID : \E r \in Role : IdOf[r] = id

VARIABLES
    files,      \* file -> its cells
    pc,         \* "idle", or the statement of main the run has come to
    jsonRoles,  \* the documents main has read
    jsonInher,
    unadded,    \* keys of jsonRoles and of jsonInher its loops have to take
    unbound,
    jsonOutputRoles,    \* the documents Walk's handler has collected
    jsonOutputInher,
    \* History, which no action of the program reads:
    saved,      \* output file -> the document of its last save that succeeded
    dropped,    \* the user has taken a role out of roles.json
    edits,      \* input files the user has written
    faults      \* writes that were cut

main == <<jsonRoles, jsonInher, unadded, unbound, jsonOutputRoles, jsonOutputInher>>
pvars == <<hvars, files, pc, main, saved, dropped, edits, faults>>

Inputs == {"roles.json", "inher.json"}
Outputs == {"new-roles.json", "new-inher.json"}
NoDoc == [x \in {} |-> {}]

-----------------------------------------------------------------------------
\* The ids in the encoder's order.
Before(x, y) == \E i, j \in DOMAIN Keys : i < j /\ Keys[i] = x /\ Keys[j] = y

Sorted(ids) ==
    CHOOSE s \in [1 .. Cardinality(ids) -> ids] :
        \A i, j \in DOMAIN s : i < j => Before(s[i], s[j])

\* The text of a document, as json.Encoder writes it.
Encode(doc) ==
    LET keys == Sorted(DOMAIN doc)
    IN  Append([i \in DOMAIN keys |-> [key |-> keys[i], list |-> doc[keys[i]]]], End)

\* The first document of a file ends at its n-th cell.
Closed(file, n) == file[n] = End /\ \A i \in 1..n - 1 : file[i] \notin {End, Garbled}

\* Of two members with one key the decoder keeps the last.
LastOf(file, n, id) ==
    CHOOSE i \in 1..n - 1 : file[i].key = id /\ \A j \in i + 1..n - 1 : file[j].key # id

\* LoadJson: the decoder stops where the first document ends, whatever follows.
LoadJson(file) ==
    IF \E n \in DOMAIN file : Closed(file, n)
    THEN LET n == CHOOSE k \in DOMAIN file : Closed(file, k)
         IN  [id \in { file[i].key : i \in 1..n - 1 } |-> file[LastOf(file, n, id)].list]
    ELSE Missing

\* The cells of `old` once the first k of `new` are written over them: the
\* file is opened without O_TRUNC, and what was longer stays.
Overwrite(old, new, k) == SubSeq(new, 1, k) \o SubSeq(old, k + 1, Len(old))

\* Faulty variant of SaveJson: the file is opened with O_APPEND.
SaveJsonAppending(old, doc) == old \o Encode(doc)

\* The file that SaveJson leaves when its one write succeeds.
SaveJson(old, doc) == Overwrite(old, Encode(doc), Len(Encode(doc)))

\* The files it may leave when the write is cut short, by an error or by the
\* end of the process, between two members or inside one.
CutWrites(old, doc) ==
    LET new == Encode(doc)
    IN  { Overwrite(old, new, k) : k \in 0..Len(new) - 1 }
          \cup { Overwrite(old, SubSeq(new, 1, k) \o <<Garbled>>, k + 1) : k \in 0..Len(new) - 1 }

-----------------------------------------------------------------------------
\* The process ends: neither instance nor documents stay in memory.
Forget ==
    /\ roles' = [x \in {} |-> x] /\ parents' = NoDoc /\ perms' = [r \in Role |-> {}]
    /\ jsonRoles' = NoDoc /\ jsonInher' = NoDoc
    /\ unadded' = {} /\ unbound' = {}
    /\ jsonOutputRoles' = NoDoc /\ jsonOutputInher' = NoDoc

PersistenceInit ==
    /\ pc = "idle"
    /\ roles = [x \in {} |-> x] /\ parents = NoDoc /\ perms = [r \in Role |-> {}]
    /\ jsonRoles = NoDoc /\ jsonInher = NoDoc
    /\ unadded = {} /\ unbound = {}
    /\ jsonOutputRoles = NoDoc /\ jsonOutputInher = NoDoc
    /\ \E r \in InputRoles, i \in InputInher :
          files = [f \in Inputs \cup Outputs |->
                      CASE f = "roles.json" -> Encode(r)
                        [] f = "inher.json" -> Encode(i)
                        [] OTHER -> <<>>]
    /\ saved = [f \in Outputs |-> Missing]
    /\ dropped = FALSE /\ edits = 0 /\ faults = 0

\* main reads roles.json; log.Fatal ends a run that cannot.
LoadRoles ==
    /\ pc = "idle"
    /\ LoadJson(files["roles.json"]) # Missing
    /\ jsonRoles' = LoadJson(files["roles.json"])
    /\ pc' = "loadInher"
    /\ UNCHANGED <<hvars, files, jsonInher, unadded, unbound,
                   jsonOutputRoles, jsonOutputInher, saved, dropped, edits, faults>>

\* Faulty variant of TakeKeys: each loop ranges over the other's document.
TakeOtherKeys ==
    /\ unadded' = DOMAIN jsonInher'
    /\ unbound' = DOMAIN jsonRoles

\* What main's two loops range over.
TakeKeys ==
    /\ unadded' = DOMAIN jsonRoles
    /\ unbound' = DOMAIN jsonInher'

\* main reads inher.json and makes a new instance.
LoadInher ==
    /\ pc = "loadInher"
    /\ LoadJson(files["inher.json"]) # Missing
    /\ jsonInher' = LoadJson(files["inher.json"])
    /\ TakeKeys
    /\ roles' = [x \in {} |-> x]
    /\ parents' = NoDoc
    /\ perms' = [r \in Role |-> {}]
    /\ pc' = "build"
    /\ UNCHANGED <<files, jsonRoles, jsonOutputRoles, jsonOutputInher, saved, dropped, edits, faults>>

\* A new role object with the permissions ps, and Add.
AddNew(id, ps) ==
    LET r == CHOOSE o \in Role : IdOf[o] = id
    IN  /\ roles' = [x \in Live \cup {id} |-> IF x = id THEN r ELSE roles[x]]
        /\ perms' = [perms EXCEPT ![r] = ps]
        /\ UNCHANGED parents

\* One turn of main's loop over jsonRoles.
AddLoaded ==
    /\ pc = "build"
    /\ \E id \in unadded :
          /\ AddNew(id, jsonRoles[id])
          /\ unadded' = unadded \ {id}
    /\ UNCHANGED <<files, pc, jsonRoles, jsonInher, unbound,
                   jsonOutputRoles, jsonOutputInher, saved, dropped, edits, faults>>

\* One turn of its loop over jsonInher, where every id is known.
BindLoaded ==
    /\ pc = "build" /\ unadded = {}
    /\ \E id \in unbound :
          /\ BindParents(id, jsonInher[id])
          /\ unbound' = unbound \ {id}
    /\ UNCHANGED <<files, pc, jsonRoles, jsonInher, unadded,
                   jsonOutputRoles, jsonOutputInher, saved, dropped, edits, faults>>

\* Faulty variant of AddNobody: `nobody` gets read-text whether it was there or not.
AddNobodyAnyway ==
    /\ pc = "build" /\ unadded = {} /\ unbound = {}
    /\ AddNew(Nobody, {ReadText})
    /\ pc' = "walk"
    /\ UNCHANGED <<files, main, saved, dropped, edits, faults>>

\* main adds `nobody`; Add keeps the role of that id if there is one, and its
\* error is not looked at.
AddNobody ==
    /\ pc = "build" /\ unadded = {} /\ unbound = {}
    /\ IF Nobody \in Live THEN UNCHANGED hvars ELSE AddNew(Nobody, {ReadText})
    /\ pc' = "walk"
    /\ UNCHANGED <<files, main, saved, dropped, edits, faults>>

\* Walk hands every role and its parents to SaveJsonHandler.
Walk ==
    /\ pc = "walk"
    /\ jsonOutputRoles' = [id \in Live |-> perms[roles[id]]]
    /\ jsonOutputInher' = [id \in Live |-> Up(parents, id)]
    /\ pc' = "saveRoles"
    /\ UNCHANGED <<hvars, files, jsonRoles, jsonInher, unadded, unbound, saved, dropped, edits, faults>>

\* The write of SaveJson(f, doc), all of it or a part, after which the run ends.
Save(f, doc, next) ==
    /\ \/ /\ files' = [files EXCEPT ![f] = SaveJson(@, doc)]
          /\ saved' = [saved EXCEPT ![f] = doc]
          /\ pc' = next
          /\ UNCHANGED <<hvars, main, faults>>
       \/ /\ faults < MaxFaults
          /\ faults' = faults + 1
          /\ \E cut \in CutWrites(files[f], doc) : files' = [files EXCEPT ![f] = cut]
          /\ saved' = [saved EXCEPT ![f] = Missing]
          /\ pc' = "idle" /\ Forget
    /\ UNCHANGED <<dropped, edits>>

\* Faulty variant of the two saves: the inheritance goes first.
SavesSwapped ==
    \/ pc = "saveRoles" /\ Save("new-inher.json", jsonOutputInher, "saveInher")
    \/ pc = "saveInher" /\ Save("new-roles.json", jsonOutputRoles, "done")

Saves ==
    \/ pc = "saveRoles" /\ Save("new-roles.json", jsonOutputRoles, "saveInher")
    \/ pc = "saveInher" /\ Save("new-inher.json", jsonOutputInher, "done")

\* The run ends: main returns, the process is killed, or log.Fatal when
\* inher.json cannot be read or SetParents refuses an unknown id.
Exit ==
    /\ pc # "idle"
    /\ pc' = "idle" /\ Forget
    /\ UNCHANGED <<files, saved, dropped, edits, faults>>

-----------------------------------------------------------------------------
\* roles.json is written anew, in whatever way, and may lose roles.
Tracked == dropped' = (dropped \/ ~(DOMAIN LoadJson(files["roles.json"])
                                      \subseteq DOMAIN LoadJson(files'["roles.json"])))

\* The user writes an input file of their own.
Edit ==
    /\ edits < MaxEdits
    /\ edits' = edits + 1
    /\ \/ \E doc \in InputRoles : files' = [files EXCEPT !["roles.json"] = Encode(doc)]
       \/ \E doc \in InputInher : files' = [files EXCEPT !["inher.json"] = Encode(doc)]
    /\ Tracked
    /\ UNCHANGED <<hvars, pc, main, saved, faults>>

\* The user makes an output file that was saved the next input.
Install ==
    /\ \E io \in {<<"roles.json", "new-roles.json">>, <<"inher.json", "new-inher.json">>} :
          /\ saved[io[2]] # Missing
          /\ files' = [files EXCEPT ![io[1]] = files[io[2]]]
    /\ Tracked
    /\ UNCHANGED <<hvars, pc, main, saved, edits, faults>>

PersistenceNext ==
    \/ LoadRoles \/ LoadInher \/ AddLoaded \/ BindLoaded \/ AddNobody
    \/ Walk \/ Saves \/ Exit \/ Edit \/ Install

-----------------------------------------------------------------------------
PersistenceTypeOK ==
    /\ HierarchyTypeOK
    /\ pc \in {"idle", "loadInher", "build", "walk", "saveRoles", "saveInher", "done"}
    /\ jsonRoles \in Docs(Perm) /\ jsonOutputRoles \in Docs(Perm)
    /\ jsonInher \in Docs(ID) /\ jsonOutputInher \in Docs(ID)
    /\ unadded \subseteq DOMAIN jsonRoles /\ unbound \subseteq DOMAIN jsonInher
    /\ files \in [Inputs \cup Outputs -> Seq(Cell)]
    /\ saved \in [Outputs -> Docs(Perm) \cup Docs(ID) \cup {Missing}]

\* What a save wrote without an error reads back, although SaveJson does not
\* truncate: over a longer file of an earlier run, and over what a cut write
\* left, also when the file was copied.
SavedReadsBack ==
    \A f \in Outputs : saved[f] # Missing => LoadJson(files[f]) = saved[f]

\* A run that ends well has saved the roles and the links of the documents
\* it read, and has added `nobody` when it was not among them, no more.
RunKeepsEverything ==
    pc = "done" =>
        LET ids == DOMAIN jsonRoles \cup {Nobody}
        IN  /\ LoadJson(files["new-roles.json"]) =
                  [id \in ids |-> IF id \in DOMAIN jsonRoles THEN jsonRoles[id] ELSE {ReadText}]
            /\ LoadJson(files["new-inher.json"]) = [id \in ids |-> Up(jsonInher, id)]

\* A run killed between its two saves leaves new roles with older links.
\* Unless the user drops roles, such a pair loads: no link names an id that is
\* not a role, since the roles are saved first and no run drops one.
MixedPairLoads ==
    LET r == saved["new-roles.json"]
        i == saved["new-inher.json"]
    IN  (~dropped /\ r # Missing /\ i # Missing) =>
            \A id \in DOMAIN i : {id} \cup i[id] \subseteq DOMAIN r
=============================================================================
