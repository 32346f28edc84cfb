----------------------------- MODULE MCHelpers -----------------------------
(***************************************************************************)
(* Four ids with the links d -> b, d -> a, b -> a, a -> e and a -> d: two  *)
(* ways from d to a, which is not the end of either, and a link that       *)
(* closes cycles.  a is removed and registered again while a helper runs.  *)
(***************************************************************************)
EXTENDS Helpers, TLC

CONSTANTS a, b, d, e, ra, rb, rd, re

MCID == {a, b, d, e}
MCRole == {ra, rb, rd, re}
MCIdOf == (ra :> a) @@ (rb :> b) @@ (rd :> d) @@ (re :> e)
MCEdits ==
    { [op |-> "Add", role |-> r] : r \in MCRole }
      \cup { [op |-> "Remove", id |-> a],
             [op |-> "SetParents", id |-> d, ps |-> {a, b}],
             [op |-> "SetParents", id |-> b, ps |-> {a}],
             [op |-> "SetParents", id |-> a, ps |-> {d}],
             [op |-> "SetParents", id |-> a, ps |-> {e}],
             [op |-> "RemoveParents", id |-> a, ps |-> {d}] }
=============================================================================
