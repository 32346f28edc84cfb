------------------------------ MODULE Examples ------------------------------
(***************************************************************************)
(* The two example programs that put something beside an instance.  They   *)
(* share nothing: a behaviour is of one of them, which has the instance,   *)
(* and the variables of the other keep their initial values.               *)
(***************************************************************************)
EXTENDS Persistence, Wrapper

VARIABLE program    \* which of the two runs

vars == <<program, pvars, wvars>>

Init ==
    /\ program \in {"persistence", "rbac-wrapper"}
    /\ PersistenceInit /\ WrapperInit
    \* The wrapper has no files: one value of them is enough.
    /\ program = "rbac-wrapper" =>
          /\ files["roles.json"] = Encode(CHOOSE doc \in InputRoles : TRUE)
          /\ files["inher.json"] = Encode(CHOOSE doc \in InputInher : TRUE)

Next ==
    \/ /\ program = "persistence"
       /\ PersistenceNext
       /\ UNCHANGED <<program, repo, call, todo, at, fails, shared, doubtful>>
    \/ /\ program = "rbac-wrapper"
       /\ WrapperNext
       /\ UNCHANGED <<program, files, pc, main, saved, dropped, edits, faults>>

Spec == Init /\ [][Next]_vars

\* The variables of both programs have the shapes their modules give them.
ExamplesTypeOK == PersistenceTypeOK /\ WrapperTypeOK

\* The instance of the wrapper is the one its repository is about: what the
\* repository and the instance hold differs in no fact but those a call in
\* progress changes and those RepoAgrees excuses.
WrapperAgrees == program = "rbac-wrapper" => RepoAgrees
=============================================================================
