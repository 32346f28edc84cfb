-------------------------- MODULE MCStdRBACLocking --------------------------
(***************************************************************************)
(* Two goroutines and three roles.  The calls are chosen so that           *)
(*   - d -> b -> a and d -> a are the links of an acyclic hierarchy, with  *)
(*     two ways from d to a, and a -> d closes a cycle;                    *)
(*   - a is removed, and added again, while others run;                    *)
(*   - the permission moves between role objects while IsGranted walks.    *)
(***************************************************************************)
EXTENDS StdRBACLocking, TLC

CONSTANTS c1, c2, a, b, d, ra, rb, rd, p, WithCycle

MCClient == {c1, c2}
MCID == {a, b, d}
MCRole == {ra, rb, rd}
MCIdOf == (ra :> a) @@ (rb :> b) @@ (rd :> d)
MCPerm == {p}

MCRequests ==
    { [op |-> "Add", role |-> ra], [op |-> "Add", role |-> rb], [op |-> "Add", role |-> rd],
      [op |-> "Remove", id |-> a], [op |-> "Remove", id |-> b],
      [op |-> "SetParents", id |-> d, ps |-> {a, b}],
      [op |-> "SetParents", id |-> b, ps |-> {a}],
      [op |-> "RemoveParents", id |-> d, ps |-> {a, b}],
      [op |-> "Get", id |-> a],
      [op |-> "GetParents", id |-> d],
      [op |-> "RoleIDs"],
      [op |-> "IsGranted", id |-> d, perm |-> p],
      [op |-> "Assign", role |-> ra, perms |-> {p}],
      [op |-> "Revoke", role |-> ra, perms |-> {p}] }
    \cup IF WithCycle THEN { [op |-> "SetParents", id |-> a, ps |-> {d}] } ELSE {}

\* For liveness: the calls that loop, recurse, fail, or hold either lock.
MCLivenessRequests ==
    { q \in MCRequests :
        /\ q.op \in {"Add", "Remove", "SetParents", "GetParents", "IsGranted"}
        /\ q.op = "Remove" => q.id = a }

MCSymmetry == Permutations(MCClient)
=============================================================================
