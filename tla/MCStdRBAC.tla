----------------------------- MODULE MCStdRBAC -----------------------------
(***************************************************************************)
(* One client, three ids, and two role objects that share an id: every     *)
(* hierarchy over three roles, cyclic ones included, is reached, and an id *)
(* is removed and registered again with the other object.                  *)
(***************************************************************************)
EXTENDS StdRBAC, TLC

CONSTANTS c1, a, b, d, ra, ra2, rb, rd, p

MCClient == {c1}
MCID == {a, b, d}
MCRole == {ra, ra2, rb, rd}
MCIdOf == (ra :> a) @@ (ra2 :> a) @@ (rb :> b) @@ (rd :> d)
MCPerm == {p}
\* SetParents names up to two parents, RemoveParents one; a is the id that is
\* queried and its first object the one whose permissions are edited.
MCRequests == { q \in RequestType :
    /\ q.op = "SetParents" => q.ps # MCID
    /\ q.op = "RemoveParents" => \E x \in MCID : q.ps = {x}
    /\ q.op \in {"Assign", "Revoke"} => q.role = ra /\ q.perms = {p}
    /\ q.op \in {"Get", "GetParents", "IsGranted"} => q.id = a }

\* b and d are interchangeable, with their role objects.
MCSymmetry == { (b :> d) @@ (d :> b) @@ (rb :> rd) @@ (rd :> rb) }
=============================================================================
