---------------------------- MODULE MCDataScope ----------------------------
(***************************************************************************)
(* A user with two roles: staff, which may inherit from team, and guest.   *)
(* The permission read carries a filter at staff and at team that is set,  *)
(* replaced, made plain and revoked; list carries one at team, of two      *)
(* conditions.  guest may carry a blank filter or one that does not        *)
(* compile, on a permission that a request need not require.  opening and  *)
(* closing compare with a string that is a parenthesis, calling looks for  *)
(* one by a call, which ends in a parenthesis of its own: joined by ||,    *)
(* opening and one of the others look like one expression in parentheses.  *)
(***************************************************************************)
EXTENDS DataScope, TLC

CONSTANTS staff, team, guest, rstaff, rteam, rguest, read, list,
          mine, open, hidden, owner, public, late, opening, closing, calling, unknown

MCID == {staff, team, guest}
MCRole == {rstaff, rteam, rguest}
MCIdOf == (rstaff :> staff) @@ (rteam :> team) @@ (rguest :> guest)
MCRow == {mine, open, hidden}
MCAtom == {owner, public, late, opening, closing, calling, unknown}
MCInner == [a \in MCAtom |-> CASE a = opening -> <<"(">>
                               [] a = closing -> <<")">>
                               [] a = calling -> <<"(", ")", ")">>
                               [] OTHER -> <<>>]
MCCloses == {calling}
MCHolds == (owner :> {mine}) @@ (public :> {open}) @@ (late :> {mine})
             @@ (opening :> {hidden}) @@ (closing :> {open}) @@ (calling :> {open})

\* (title == "(") || (title == ")"), and with title.contains(")") at the end.
Titles == InParens(<<opening>>) \o <<"||">> \o InParens(<<closing>>)
Call == InParens(<<opening>>) \o <<"||", calling>>
Either == <<public, "||", late>>
MCExtra == <<Blank, <<opening, "||", owner>>, Either \o <<"||">> \o Titles>>

Ask(check, rs, ps, extra) == [check |-> check, roles |-> rs, perms |-> ps, extra |-> extra]
MCAsks == { Ask("AllGranted", <<guest, staff>>, <<read, list>>, MCExtra),
            Ask("AnyGranted", <<staff>>, <<list, read>>, <<>>),
            Ask("unchecked", <<guest>>, <<read>>, << <<unknown>> >>),
            Ask("unchecked", <<guest>>, <<>>, <<>>),
            Ask("AllGranted", <<>>, <<read>>, <<>>) }

Assigned(r, p, f) == [op |-> "Assign", role |-> r, perm |-> p, filter |-> f]
Revoked(r, p) == [op |-> "Revoke", role |-> r, perm |-> p]

MCEdits ==
    { [op |-> "Add", role |-> r] : r \in MCRole }
      \cup { [op |-> "Remove", id |-> team],
             [op |-> "SetParents", id |-> staff, ps |-> {team}] }
MCGrants ==
    { Assigned(rstaff, read, <<opening>>), Assigned(rstaff, read, Plain), Revoked(rstaff, read),
      Assigned(rstaff, read, Call),
      Assigned(rteam, read, <<closing>>), Assigned(rteam, list, Either),
      Assigned(rguest, list, Blank), Assigned(rguest, list, <<unknown>>) }
=============================================================================
