---------------------------- MODULE FilterSchema ----------------------------
(***************************************************************************)
(* SchemaFromStruct of src/filter/schema_utils.go: the fields a filter may *)
(* name, read by reflection from a Go struct and its tags.                 *)
(*                                                                         *)
(* A struct field is a record: its Go name in snake case, whether it is    *)
(* exported and embedded, its type behind all pointers, and its tags.  The *)
(* filter tag is the sequence of its comma-separated parts, <<>> if there  *)
(* is none; of the json, db and gorm tags only the name or column they     *)
(* give matters, "" if they give none.                                     *)
(***************************************************************************)
EXTENDS Integers, Sequences, SequencesExt, FiniteSets

AllOps == {"=", "!=", "<", "<=", ">", ">="}

Word(w) == [key |-> "", value |-> w]          \* a part without =
Option(k, v) == [key |-> k, value |-> v]      \* k=v

\* parseComparisonOps: names it does not know are passed over.
ParseComparisonOps(names) ==
    { n \in AllOps : \E i \in DOMAIN names : names[i] = n }

NoTag == [skip |-> FALSE, explicit |-> FALSE, name |-> "", kind |-> "", column |-> "",
          path |-> "", target |-> "", contains |-> FALSE, ops |-> <<>>]

\* parseFilterTag, part by part: only the first part may be the name.
TagPart(tag, part, first) ==
    CASE tag.skip -> tag
      [] part = Word("-") -> [tag EXCEPT !.skip = TRUE]
      [] first /\ part.key = "" /\ part.value # "contains" -> [tag EXCEPT !.name = part.value]
      [] part = Word("contains") -> [tag EXCEPT !.contains = TRUE]
      [] part.key = "kind" -> [tag EXCEPT !.kind = part.value]
      [] part.key = "column" -> [tag EXCEPT !.column = part.value]
      [] part.key = "json" -> [tag EXCEPT !.path = part.value]
      [] part.key \in {"alias", "alias_for"} -> [tag EXCEPT !.target = part.value]
      [] part.key = "ops" -> [tag EXCEPT !.ops = part.value]
      [] OTHER -> tag

ParseFilterTag(parts) ==
    FoldLeft(LAMBDA tag, i : TagPart(tag, parts[i], i = 1),
             [NoTag EXCEPT !.explicit = parts # <<>>],
             [i \in DOMAIN parts |-> i])

-----------------------------------------------------------------------------
\* inferFieldType: the type of a field, "" if a schema has none for it.
InferFieldType(type, kind) ==
    IF (kind = "json_list") # type.slice THEN ""
    ELSE IF type.of \in {"string", "bool", "int"} THEN type.of ELSE ""

\* defaultAllowedComparisonOps
DefaultAllowedOps(kind, type) ==
    CASE kind \in {"json_list", "virtual_alias"} -> {}
      [] kind = "json_bool" \/ type = "bool" -> {"=", "!="}
      [] OTHER -> AllOps

\* The first of these names that is one.
FirstOf(names) ==
    LET given == { i \in DOMAIN names : names[i] # "" } IN
    IF given = {} THEN "" ELSE names[CHOOSE i \in given : \A j \in given : i <= j]

\* Faulty variant of ColumnOf: the gorm tag is not consulted.
ColumnWithoutGorm(sf, tag, name) == FirstOf(<<tag.column, sf.db, name>>)

FieldName(sf, tag) == FirstOf(<<tag.name, sf.json, sf.db, sf.snake>>)
ColumnOf(sf, tag, name) == FirstOf(<<tag.column, sf.db, sf.gorm, name>>)

\* A JSON field lives at a path of its column.
Place(sf, tag, kind, name) ==
    <<ColumnOf(sf, tag, name), IF kind \in {"json_bool", "json_list"} THEN tag.path ELSE "">>

\* The definition of one field.  An alias has no column of its own, and its
\* target need not exist.
Definition(sf, tag, kind, type, name) ==
    [kind |-> kind, type |-> type, contains |-> tag.contains,
     target |-> IF kind = "virtual_alias" THEN tag.target ELSE name,
     column |-> IF kind = "virtual_alias" THEN <<"", "">> ELSE Place(sf, tag, kind, name),
     ops |-> IF tag.ops # <<>> THEN ParseComparisonOps(tag.ops) ELSE DefaultAllowedOps(kind, type)]

\* What makes a field of this kind an error.
Invalid(tag, kind, type) ==
    \/ kind = "virtual_alias" /\ tag.target = ""
    \/ kind = "json_bool" /\ (type # "bool" \/ tag.path = "")
    \/ kind = "json_list" /\ (type # "string" \/ tag.path = "")

Reading(ok, fields) == [ok |-> ok, fields |-> fields]

\* One field of the struct that is not flattened.
AddField(sf, acc) ==
    LET tag == ParseFilterTag(sf.tag)
        name == FieldName(sf, tag)
        kind == IF tag.kind = "" THEN "scalar" ELSE tag.kind
        type == InferFieldType(sf.type, kind)
        def == Definition(sf, tag, kind, type, name)
    IN  CASE (~sf.exported /\ ~sf.embedded) \/ tag.skip \/ name = "-" -> acc
          [] (sf.exported \/ sf.embedded) /\ ~tag.skip /\ name # "-" /\ type = "" ->
                Reading(acc.ok /\ ~tag.explicit, acc.fields)
          [] OTHER ->
                IF Invalid(tag, kind, type) \/ name \in DOMAIN acc.fields THEN Reading(FALSE, acc.fields)
                ELSE Reading(acc.ok, [f \in DOMAIN acc.fields \cup {name} |->
                                        IF f = name THEN def ELSE acc.fields[f]])

\* collectFieldsFromStruct: an embedded struct without a tag is flattened.
RECURSIVE CollectFields(_, _)
CollectFields(fs, acc) ==
    FoldLeft(LAMBDA a, sf : IF ~a.ok THEN a
                            ELSE IF sf.embedded /\ sf.type.of = "struct" /\ sf.tag = <<>>
                            THEN CollectFields(sf.type.fields, a)
                            ELSE AddField(sf, a),
             acc, fs)

\* SchemaFromStruct: the fields, or an error.
SchemaFromStruct(table, fs) ==
    IF table = "" THEN Reading(FALSE, [f \in {} |-> {}])
    ELSE CollectFields(fs, Reading(TRUE, [f \in {} |-> {}]))
=============================================================================
