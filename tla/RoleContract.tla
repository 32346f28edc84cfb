---------------------------- MODULE RoleContract ----------------------------
(***************************************************************************)
(* What src/role.go promises of one role object: its permissions are a map *)
(* from permission id to permission, and every call acts on it at one      *)
(* moment between its start and its return.                                *)
(***************************************************************************)
EXTENDS RoleMaps

VARIABLES
    granted,  \* the role's permissions: permission id -> permission
    call, reply

rvars == <<granted, call, reply>>

-----------------------------------------------------------------------------
Init ==
    /\ granted = [id \in {} |-> Nil]
    /\ call = [g \in Goroutine |-> NoCall]
    /\ reply = [g \in Goroutine |-> NoReply]

Pending(g, op) == call[g].op = op /\ reply[g] = NoReply

Answer(g, r) == reply' = [reply EXCEPT ![g] = r] /\ UNCHANGED call

Invoke(g) ==
    /\ call[g] = NoCall
    /\ \E q \in RoleRequests : call' = [call EXCEPT ![g] = q]
    /\ UNCHANGED <<granted, reply>>

Return(g) ==
    /\ call[g] # NoCall
    /\ reply[g] # NoReply \/ call[g].op = "FilterPermissions"
    /\ call' = [call EXCEPT ![g] = NoCall]
    /\ reply' = [reply EXCEPT ![g] = NoReply]
    /\ UNCHANGED granted

Assign(g) ==
    /\ Pending(g, "Assign")
    /\ granted' = AssignFrom(granted, call[g].perms, 1)
    /\ Answer(g, Ok)

Revoke(g) ==
    /\ Pending(g, "Revoke")
    /\ granted' = RevokeFrom(granted, call[g].perms, 1)
    /\ Answer(g, Ok)

Permit(g) ==
    /\ Pending(g, "Permit")
    /\ Answer(g, Permitted(CoversAll(granted, call[g].perms)))
    /\ UNCHANGED granted

Permissions(g) ==
    /\ Pending(g, "Permissions")
    /\ Answer(g, Listed(Held(granted)))
    /\ UNCHANGED granted

Get(g) ==
    /\ Pending(g, "Get")
    /\ Answer(g, Found({ granted[id] : id \in DOMAIN granted \cap {call[g].id} }))
    /\ UNCHANGED granted

Next ==
    \E g \in Goroutine :
        \/ Invoke(g) \/ Return(g)
        \/ Assign(g) \/ Revoke(g) \/ Permit(g) \/ Permissions(g) \/ Get(g)

Spec == Init /\ [][Next]_rvars
=============================================================================
