-------------------------- MODULE MCFilterProgram --------------------------
(***************************************************************************)
(* A document with a field of each kind, whose tags name other columns     *)
(* than the fields are called, and one with the loose ends that a schema   *)
(* may have; and an expression or more for each way of parsing and         *)
(* rendering.  Strings: 0 is empty, 2 extends 1 and lies below it as a tag *)
(* does, 3 is apart; 4 and 7 are the brackets of a list, 5 is its comma    *)
(* and 6 a comma with a space.  Integers have three bits.                  *)
(***************************************************************************)
EXTENDS FilterProgram, TLC

Of(t) == [slice |-> FALSE, of |-> t, fields |-> <<>>]
Slices(t) == [Of(t) EXCEPT !.slice = TRUE]
StructField(name, type, tag) ==
    [snake |-> name, exported |-> TRUE, embedded |-> FALSE, type |-> type, tag |-> tag,
     json |-> "", db |-> "", gorm |-> ""]
Kind(k) == Option("kind", k)
JSON(k, path) == <<Kind(k), Option("column", "payload"), Option("json", path)>>
Alias(f) == <<Kind("virtual_alias"), Option("alias", f)>>

Owner == [StructField("owner", Of("int"), <<>>) EXCEPT !.gorm = "owner_id"]
Dept == [StructField("dept", Of("string"), <<Word("contains")>>) EXCEPT !.db = "department"]
Pinned == StructField("pinned", Of("bool"), JSON("json_bool", "pinned"))
Tags == StructField("tags", Slices("string"), JSON("json_list", "tags"))
Base == [StructField("base", [Of("struct") EXCEPT !.fields = <<Owner>>], <<>>) EXCEPT !.embedded = TRUE]
Passed == << [StructField("hidden", Of("int"), <<>>) EXCEPT !.exported = FALSE],
             [StructField("secret", Of("int"), <<>>) EXCEPT !.json = "-"],
             StructField("skipped", Of("int"), <<Word("-")>>),
             StructField("blob", Of("bytes"), <<>>) >>

Document ==
    [table |-> "doc",
     fields |-> <<Base, Dept, Pinned, Tags>> \o Passed \o
        << StructField("is_open", Of("bool"), <<Word("open"), Option("column", "is_open")>>),
           StructField("tag", Of("string"), Alias("tags") \o <<Word("contains")>>),
           StructField("author", Of("int"), Alias("owner") \o <<Option("ops", <<"=", "?">>)>>) >>,
     stored |-> [owner |-> <<"owner_id", "">>, dept |-> <<"department", "">>,
                 open |-> <<"is_open", "">>, pinned |-> <<"payload", "pinned">>,
                 tags |-> <<"payload", "tags">>, tag |-> <<"payload", "tags">>,
                author |-> <<"owner_id", "">>]]

\* An alias of nothing, an alias of an alias, no operators, a list's other name.
Loose ==
    [table |-> "doc",
     fields |-> << [Owner EXCEPT !.tag = <<Option("ops", <<"?">>)>>], Tags,
                   StructField("open", Of("bool"), <<Option("column", "is_open")>>),
                   StructField("label", Of("string"), Alias("tags")),
                   StructField("tag", Of("string"), Alias("labels")),
                   StructField("author", Of("int"), Alias("owner")),
                   StructField("public", Of("bool"), Alias("shown")),
                   StructField("shown", Of("bool"), Alias("open")) >>,
     stored |-> [owner |-> <<"owner_id", "">>, author |-> <<"owner_id", "">>,
                 open |-> <<"is_open", "">>, shown |-> <<"is_open", "">>, public |-> <<"is_open", "">>,
                 tags |-> <<"payload", "tags">>, label |-> <<"payload", "tags">>]]

\* Models that are refused.
WithFields(fs) == [Document EXCEPT !.fields = fs]
MCModels ==
    { Document, Loose, [Document EXCEPT !.table = ""], WithFields(<<Owner, Base>>),
      WithFields(<<StructField("pinned", Of("bool"), <<Kind("json_bool")>>)>>),
      WithFields(<<StructField("tags", Of("string"), JSON("json_list", "tags"))>>),
      WithFields(<<StructField("tag", Of("string"), <<Kind("virtual_alias")>>)>>) }

MCMatch ==
    { <<how, p, s>> \in {"contains", "startsWith", "endsWith"} \X (0 .. 7) \X (0 .. 7) : p \in {0, s} }
      \cup { <<how, 1, 2>> : how \in {"contains", "startsWith", "below"} }
      \cup { <<how, 5, 6>> : how \in {"contains", "startsWith"} }
MCPunctuation ==
    [d \in {"sqlite", "mysql", "postgres"} |->
        [before |-> 4, between |-> IF d = "sqlite" THEN 5 ELSE 6, after |-> 7]]

IsOwner == <<Atom(InTemplate("author"), "=", <<Mark("?", 0)>>)>>
MCPredicates == 1 :> [sql |-> [default |-> IsOwner], eval |-> IsOwner]

MCBindings ==
    { [uid |-> Int64(1), admin |-> Bool(FALSE), depts |-> List(<<Str(1), Str(3)>>)],
      [uid |-> Uint(7), admin |-> Bool(TRUE), depts |-> List(<<>>)],
      [uid |-> Double(1), admin |-> Null, depts |-> List(<<Str(2)>>)] }

MCRow ==
    { (<<"owner_id", "">> :> o) @@ (<<"department", "">> :> d) @@ (<<"is_open", "">> :> b)
        @@ (<<"payload", "pinned">> :> p) @@ (<<"payload", "tags">> :> ts) @@ (<<"dept", "">> :> Str(0)) :
      <<o, d, b, p, ts>> \in
        { <<Int64(1), Str(1), Bool(TRUE), Bool(FALSE), List(<<Str(2)>>)>>,
          <<Int64(2), Str(2), Bool(FALSE), Bool(TRUE), List(<<Str(1), Str(3)>>)>>,
          <<Int64(3), Str(3), Bool(TRUE), Bool(TRUE), List(<<>>)>>,
          <<Null, Null, Bool(TRUE), Null, Null>>,
          <<Null, Null, Bool(FALSE), Bool(FALSE), Null>>,
          <<Int64(-1), Str(1), Null, Bool(TRUE), List(<<Str(3)>>)>> } }

I(n) == Literal(Int64(n))
S(n) == Literal(Str(n))
B(b) == Literal(Bool(b))
In_(l, r) == Binary("in", l, r)
SizeOf_(t) == Call("size", <<t>>)

MCSources ==
    { Binary("=", Ident("owner"), Ident("uid")),
      Binary("<", I(1), Ident("owner")),
      Binary("<", Ident("owner"), Binary("-", Call("now", <<>>), I(2))),
      Binary("=", Binary("+", I(1), Literal(Double(1))), Ident("owner")),
      Binary("=", Ident("author"), Binary("+", I(3), Call("neg", <<I(-1)>>))),
      Binary("<", Ident("author"), I(2)),
      Binary("=", Ident("owner"), Literal(Uint(7))),
      Binary("=", Ident("dept"), Literal(Null)),
      Binary("!=", Ident("open"), B(TRUE)),
      Binary("<", B(FALSE), Ident("open")),
      Binary("!=", Ident("pinned"), B(TRUE)),
      Binary("=", Ident("pinned"), B(FALSE)),
      Binary("<", I(0), SizeOf_(Ident("tags"))),
      Binary("=", Method(Ident("tags"), "size", <<>>), I(0)),
      Binary("or", Binary("=", Ident("admin"), B(TRUE)), B(FALSE)),
      Binary("and", Binary("=", Ident("owner"), Ident("uid")), Binary("=", Ident("admin"), B(TRUE))),
      Binary("=", Ident("owner"), Ident("author")),
      Ident("open"), Ident("pinned"), Ident("public"), Ident("dept"),
      In_(Ident("dept"), Ident("depts")),
      In_(Ident("owner"), ListOf(<<I(2), Ident("uid")>>)),
      In_(Ident("uid"), ListOf(<<I(1)>>)),
      In_(Ident("tag"), ListOf(<<S(1), S(3)>>)),
      In_(Ident("label"), ListOf(<<S(1), S(3)>>)),
      In_(S(1), Ident("tags")),
      In_(S(3), Ident("tag")),
      Method(Ident("dept"), "contains", <<S(0)>>),
      Method(Ident("dept"), "startsWith", <<S(1)>>),
      Method(Ident("tag"), "endsWith", <<S(1)>>),
      ExistsIn(Ident("tags"), Method(IterVar, "startsWith", <<S(1)>>)),
      ExistsIn(Ident("tag"), Method(IterVar, "endsWith", <<S(1)>>)),
      AllIn(Ident("tags"), Method(IterVar, "endsWith", <<S(1)>>)),
      ExistsIn(Ident("tags"), Method(IterVar, "contains", <<S(5)>>)),
      ExistsIn(Ident("tags"), Method(IterVar, "startsWith", <<S(7)>>)),
      In_(S(5), Ident("tags")),
      Call("sql", <<S(1), ListOf(<<Ident("uid")>>)>>),
      Call("sql", <<S(1), ListOf(<<Ident("unbound")>>)>>),
      Call("sql", <<S(2)>>),
      B(FALSE), Literal(Double(0)) }
MCOthers ==
    { In_(Ident("dept"), Ident("depts")),
      ExistsIn(Ident("tags"), Method(IterVar, "startsWith", <<S(1)>>)),
      Binary("or", Binary("=", Ident("admin"), B(TRUE)),
                   Binary("or", Ident("open"), Binary("=", Ident("author"), Ident("uid")))),
      Binary("and", Binary("<", Binary("-", Call("now", <<>>), I(2)), Ident("owner")),
                    Call("not", <<In_(Ident("owner"), ListOf(<<I(2), I(3)>>))>>)) }
MCDialects == {<<"sqlite", "?">>, <<"mysql", "?">>, <<"postgres", "$">>, <<"postgres", "@">>}
=============================================================================
