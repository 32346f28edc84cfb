---------------------------- MODULE Permissions ----------------------------
(***************************************************************************)
(* The permissions of src/permission.go, src/filter_permission.go and      *)
(* src/permission_layer.go.  A permission is a record: its kind, its id as *)
(* a sequence of words, and the separator of a layered permission, which   *)
(* is one of the words.  Every kind is immutable.                          *)
(***************************************************************************)
EXTENDS Sequences, SequencesExt

StdPermission(sid) == [kind |-> "std", sid |-> sid, sep |-> ""]
FilterPermission(sid) == [kind |-> "filter", sid |-> sid, sep |-> ""]
LayerPermission(sid, sep) == [kind |-> "layer", sid |-> sid, sep |-> sep]

ID(p) == p.sid
HasCELMethod(p) == p.kind = "filter"

\* strings.Split: what stands between the separators, one layer each.
Split(sid, sep) ==
    FoldLeft(LAMBDA layers, word :
                IF word = sep THEN Append(layers, <<>>)
                ELSE [layers EXCEPT ![Len(layers)] = Append(@, word)],
             << <<>> >>, sid)

\* p.Match(q): the ids are equal, or both are layered and the layers of p,
\* each split at its own separator, begin those of q.
Match(p, q) ==
    \/ ID(p) = ID(q)
    \/ /\ p.kind = "layer" /\ q.kind = "layer"
       /\ IsPrefix(Split(p.sid, p.sep), Split(q.sid, q.sep))
=============================================================================
