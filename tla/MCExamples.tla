----------------------------- MODULE MCExamples -----------------------------
(***************************************************************************)
(* Persistence: three ids; documents of one and two roles, so that saving  *)
(* shrinks a file and grows it, with `nobody` among the roles or not, and  *)
(* links that refer to it, so that some pairs of documents do not load.    *)
(*                                                                         *)
(* Wrapper: two clients; a role that is added, removed and added again     *)
(* while the other client links it, and a SetParents of two parents, which *)
(* the repository may refuse after the first.                              *)
(***************************************************************************)
EXTENDS Examples, TLC

CONSTANTS a, b, nobody, ra, rb, rn, read, readText, x, y

MCID == {a, b, nobody}
MCRole == {ra, rb, rn}
MCIdOf == (ra :> a) @@ (rb :> b) @@ (rn :> nobody)
MCKeys == <<a, b, nobody>>
MCInputRoles ==
    { (a :> {read}) @@ (b :> {readText}),
      a :> {read, readText},
      (b :> {}) @@ (nobody :> {read}) }
MCInputInher ==
    { a :> {b}, [id \in {} |-> {}], (b :> {nobody}) @@ (nobody :> {b}) }
MCCalls ==
    { [op |-> "Add", role |-> ra, id |-> a],
      [op |-> "Add", role |-> rb, id |-> b],
      [op |-> "Remove", id |-> b],
      [op |-> "SetParents", id |-> a, ps |-> {a, b}],
      [op |-> "SetParents", id |-> b, ps |-> {}],
      [op |-> "RemoveParents", id |-> a, ps |-> {b}] }

\* Clients are interchangeable.
Symmetry == Permutations(Client)
=============================================================================
