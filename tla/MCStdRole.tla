------------------------------ MODULE MCStdRole ------------------------------
(***************************************************************************)
(* Two goroutines share one role object.  plain and filt are a plain and a *)
(* filter permission with the same id, wide is a layered permission that   *)
(* also matches the layered other, whose separator is its own.             *)
(***************************************************************************)
EXTENDS StdRole, TLC

CONSTANTS g1, g2

P == INSTANCE Permissions

plain == P!StdPermission(<<"p">>)
filt == P!FilterPermission(<<"p">>)
wide == P!LayerPermission(<<"q">>, "/")
other == P!LayerPermission(<<"q", "::", "r">>, "::")
idp == <<"p">>

MCGoroutine == {g1, g2}
MCPermission == {plain, filt, other, wide}
MCPermID == { P!ID(x) : x \in MCPermission }
MCIdOfPerm == [x \in MCPermission |-> P!ID(x)]
MCMatching == { <<h, x>> \in MCPermission \X MCPermission : P!Match(h, x) }
MCHasCEL == { x \in MCPermission : P!HasCELMethod(x) }

Locked ==
    { [op |-> "Assign", perms |-> ps] : ps \in {<<plain, other>>, <<filt>>, <<filt, plain>>,
                                               <<filt, wide>>, <<>>} }
      \cup { [op |-> "Revoke", perms |-> ps] : ps \in {<<other>>, <<plain, wide>>, <<>>} }
      \cup { [op |-> "Permit", perms |-> ps] : ps \in {<<plain, other>>, <<other>>,
                                               <<other, Nil>>, <<>>} }
      \cup { [op |-> "Permissions"], [op |-> "Get", id |-> idp] }

MCWithRange == Locked \cup { [op |-> "FilterPermissions"] }
MCAssigns == { [op |-> "Assign", perms |-> <<plain>>], [op |-> "Assign", perms |-> <<other>>] }

MCShared == {"NewRole", "Warm"}
MCZero == {"Zero"}

MCSymmetry == Permutations(Goroutine)
=============================================================================
