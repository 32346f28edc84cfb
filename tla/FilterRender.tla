---------------------------- MODULE FilterRender ----------------------------
(***************************************************************************)
(* The SQL renderer of src/filter/render.go.  A renderer r is a record:    *)
(*   dialect   "sqlite", "mysql" or "postgres"                             *)
(*   style     how its placeholders look: "?", "$" or "@"                  *)
(*   offset    the number before that of its first placeholder             *)
(*   bindings  the values of the parameters                                *)
(*   args      the arguments so far, by number or by name; how many they   *)
(*             are is placeholderCounter                                   *)
(* Rendering a condition gives a fragment: a text, or a condition that is  *)
(* always or never true, or an error, and the renderer as it is then.      *)
(*                                                                         *)
(* Table names, quoting and the expressions that wrap a column are left    *)
(* out.                                                                    *)
(***************************************************************************)
EXTENDS FilterEval

Renderer(style, dialect, offset, bindings) ==
    [dialect |-> dialect, style |-> style, offset |-> offset, bindings |-> bindings, args |-> <<>>]

Fragment(kind, sql, r) == [kind |-> kind, sql |-> sql, r |-> r]
Text(sql, r) == Fragment("text", sql, r)
Trivial(r) == Fragment("trivial", <<>>, r)
Unsatisfiable(r) == Fragment("unsatisfiable", Never, r)
Failed(r) == Fragment("error", <<>>, r)
Folded(verdict, r) ==
    CASE verdict = "true" -> Trivial(r) [] verdict = "false" -> Unsatisfiable(r) [] OTHER -> Failed(r)

\* Faulty variant of Marks: each statement numbers its placeholders from 1.
MarksWithoutOffset(r, vs) ==
    [k \in DOMAIN vs |-> Mark(r.style, IF r.style = "?" THEN 0 ELSE Len(r.args) + k)]

\* addArg for each of vs, in order: the placeholders, and the renderer then.
Marks(r, vs) ==
    [k \in DOMAIN vs |-> Mark(r.style, IF r.style = "?" THEN 0 ELSE r.offset + Len(r.args) + k)]
AddArgs(r, vs) == [r EXCEPT !.args = @ \o vs]

\* addBoolArg: SQLite has no boolean type.
BoolArg(r, v) == IF r.dialect = "sqlite" /\ v.type = "bool" THEN Int64(v.n) ELSE v

\* operand rel placeholder
Relation(r, operand, rel, vs) == Text(<<Atom(operand, rel, Marks(r, vs))>>, AddArgs(r, vs))

ResolveValue(e, r) ==
    CASE e.e = "lit" -> e.value [] e.e = "param" -> Lookup(e.name, r.bindings) [] OTHER -> Error
ResolveAll(es, r) == Flat([i \in DOMAIN es |-> ResolveValue(es[i], r)])

-----------------------------------------------------------------------------
\* The fragments of the conditions that a logical condition joins.
RECURSIVE Flatten(_, _)
Flatten(c, op) == IF c.op = op THEN Flatten(c.left, op) \o Flatten(c.right, op) ELSE <<c>>

KindsOf(fs) == { fs[i].kind : i \in DOMAIN fs }

\* Faulty variant of Joined: no parentheses around the joined fragments.
JoinedWithoutParens(fs, word, dropped, none, r) ==
    LET rest == SelectSeq(fs, LAMBDA f : f.kind # dropped) IN
    IF rest = <<>> THEN none ELSE Text(Join([i \in DOMAIN rest |-> rest[i].sql], word), r)

\* What remains of fs once those of this kind are dropped, joined by word.
Joined(fs, word, dropped, none, r) ==
    LET rest == SelectSeq(fs, LAMBDA f : f.kind # dropped) IN
    CASE Len(rest) = 0 -> none
      [] Len(rest) = 1 -> Text(rest[1].sql, r)
      [] OTHER -> Text(Parens(Join([i \in DOMAIN rest |-> rest[i].sql], word)), r)

CombineAndAll(fs, r) ==
    IF "unsatisfiable" \in KindsOf(fs) THEN Unsatisfiable(r)
    ELSE Joined(fs, "AND", "trivial", Trivial(r), r)

\* Faulty variant of CombineOrAll: a disjunction of nothing restricts nothing.
CombineOrAllOfNothing(fs, r) ==
    IF "trivial" \in KindsOf(fs) THEN Trivial(r)
    ELSE Joined(fs, "OR", "unsatisfiable", Trivial(r), r)

CombineOrAll(fs, r) ==
    IF "trivial" \in KindsOf(fs) THEN Trivial(r)
    ELSE Joined(fs, "OR", "unsatisfiable", Unsatisfiable(r), r)

Combine(op, fs, r) == IF op = "AND" THEN CombineAndAll(fs, r) ELSE CombineOrAll(fs, r)

RenderNot(f) ==
    CASE f.kind = "trivial" -> Unsatisfiable(f.r)
      [] f.kind = "unsatisfiable" -> Trivial(f.r)
      [] f.kind = "text" -> Text(Negated(f.sql), f.r)
      [] OTHER -> f

-----------------------------------------------------------------------------
\* A boolean field by itself.  SQLite compares a column, but not a JSON value,
\* with 0; both are false for NULL in the other dialects.
RenderFieldPredicate(c, r) ==
    LET f == Target(c.field) IN
    IF ~Resolves(c.field) \/ schema[f].type # "bool" THEN Failed(r)
    ELSE IF r.dialect = "sqlite" /\ schema[f].kind # "json_bool"
    THEN Text(<<Atom(Column(f), "!=", <<Int64(0)>>)>>, r)
    ELSE Relation(r, Column(f), "IS TRUE", <<>>)

\* The values that are converted to the type of field f, and to what.
Accepts(f, v) == v.type = schema[f].type \/ (schema[f].type = "int" /\ IsNumber(v))
Converted(v) == IF IsNumber(v) THEN Int64(ToInt64(v)) ELSE v

RenderFieldComparison(f, cmp, v, r) ==
    CASE v = Error -> Failed(r)
      [] v = Null -> IF cmp \notin Equality THEN Failed(r)
                     ELSE Relation(r, Column(f), IF cmp = "=" THEN "IS NULL" ELSE "IS NOT NULL", <<>>)
      [] OTHER -> IF ~Accepts(f, v) THEN Failed(r)
                  ELSE Relation(r, Column(f), cmp, <<BoolArg(r, Converted(v))>>)

RenderJSONBoolComparison(f, cmp, v, r) ==
    LET holds == <<Atom(Column(f), "IS TRUE", <<>>)>> IN
    CASE v.type # "bool" \/ (r.dialect = "sqlite" /\ cmp \notin Equality) -> Failed(r)
      [] v.type = "bool" /\ r.dialect = "postgres" -> Relation(r, Column(f), cmp, <<v>>)
      [] v.type = "bool" /\ r.dialect = "mysql" -> Text(<<Atom(Column(f), cmp, <<v>>)>>, r)
      [] OTHER -> Text(IF (cmp = "=") <=> (v = Bool(TRUE)) THEN holds ELSE Negated(holds), r)

\* size(list) cmp v
RenderFunctionComparison(e, cmp, v, r) ==
    IF e.e = "field" /\ HasKind(e.name, "json_list") /\ IsNumber(v)
    THEN Relation(r, Length(Target(e.name)), cmp, <<Converted(v)>>) ELSE Failed(r)

RenderComparisonOf(left, cmp, right, r) ==
    LET f == Target(left.name)
        v == ResolveValue(right, r)
    IN  CASE left.e = "size" -> RenderFunctionComparison(left.arg, cmp, v, r)
          [] left.e # "size" /\ (~Resolves(left.name) \/ HasKind(left.name, "json_list")) -> Failed(r)
          [] left.e # "size" /\ HasKind(left.name, "json_bool") -> RenderJSONBoolComparison(f, cmp, v, r)
          [] OTHER -> RenderFieldComparison(f, cmp, v, r)

OnColumn(e) == e.e \in {"field", "size"}

\* A comparison is turned round if only its right side reads a column, and
\* folded if neither does.
RenderComparison(c, r) ==
    CASE OnColumn(c.left) -> RenderComparisonOf(c.left, c.cmp, c.right, r)
      [] ~OnColumn(c.left) /\ OnColumn(c.right) ->
            RenderComparisonOf(c.right, Inverted(c.cmp), c.left, r)
      [] OTHER -> Folded(EvalComparison(c, r.bindings), r)

-----------------------------------------------------------------------------
\* The text that says that list f has v as an element, or one that v is a
\* prefix, suffix or part of.  A pattern is matched with the text of the list,
\* and for SQLite an element is a pattern too: v in quotes.
Pattern(how, v) == [type |-> "pattern", how |-> how, n |-> v.n]
HasLike(r, f, how, v) == Relation(r, ListText(f, r.dialect), "HAS LIKE", <<Pattern(how, v)>>)
Has(r, f, v) ==
    IF r.dialect = "sqlite" THEN HasLike(r, f, "is", v) ELSE Relation(r, Column(f), "HAS", <<v>>)
HasOrLike(exact, f, how, v) ==
    LET like == HasLike(exact.r, f, how, v)
    IN  Text(Parens(Join(<<exact.sql, like.sql>>, "OR")), like.r)

\* One value of an alias of list f; the alias tag is hierarchical.
HasValue(alias, r, f, v) ==
    LET exact == Has(r, f, v) IN IF alias = "tag" THEN HasOrLike(exact, f, "below", v) ELSE exact

RenderAliasInList(alias, f, vs, r) ==
    LET add(acc, v) == LET one == HasValue(alias, acc.r, f, v)
                       IN  [texts |-> Append(acc.texts, one.sql), r |-> one.r]
        all == FoldLeft(add, [texts |-> <<>>, r |-> r], vs)
    IN  CASE vs = <<>> -> Unsatisfiable(r)
          [] \E v \in ToSet(vs) : NoString(v) -> Failed(r)
          [] OTHER -> Text(IF Len(vs) = 1 THEN all.texts[1] ELSE Parens(Join(all.texts, "OR")), all.r)

RenderFieldIn(f, vs, r) ==
    LET args == [i \in DOMAIN vs |-> Converted(vs[i])] IN
    CASE vs = <<>> -> Unsatisfiable(r)
      [] vs # <<>> /\ (schema[f].type = "bool" \/ \E v \in ToSet(vs) : ~Accepts(f, v)) -> Failed(r)
      [] OTHER -> IF r.style = "@" /\ Len(vs) > 1 THEN Relation(r, Column(f), "ANY", <<List(args)>>)
                  ELSE Relation(r, Column(f), "IN", args)

RenderIn(c, r) ==
    LET name == c.left.name
        vs == ResolveAll(c.values, r)
    IN  CASE c.left.e # "field" -> Folded(EvalIn(c, r.bindings), r)
          [] c.left.e = "field" /\ (~Resolves(name) \/ Error \in ToSet(vs)) -> Failed(r)
          [] OTHER ->
                IF IsAlias(name) /\ HasKind(name, "json_list")
                THEN RenderAliasInList(name, Target(name), vs, r)
                ELSE IF IsAlias(name) \/ HasKind(name, "json_list") THEN Failed(r)
                ELSE RenderFieldIn(name, vs, r)

RenderElementIn(c, r) ==
    LET v == ResolveValue(c.element, r) IN
    IF ~HasKind(c.field, "json_list") \/ NoString(v) THEN Failed(r) ELSE Has(r, Target(c.field), v)

\* wrapWithNullCheck
Checked(f, text) ==
    Text(Parens(text.sql \o <<Token("AND"), Atom(Column(f), "IS NOT NULL", <<>>),
                              Token("AND"), Atom(Column(f), "NOT EMPTY", <<>>)>>), text.r)

RenderListComprehension(c, r) ==
    LET f == Target(c.field)
        v == ResolveValue(c.value, r)
        exact == IF r.dialect = "postgres" THEN Has(r, f, v) ELSE HasLike(r, f, "is", v)
    IN  IF ~HasKind(c.field, "json_list") \/ NoString(v) THEN Failed(r)
        ELSE Checked(f, IF c.how = "startsWith" THEN HasOrLike(exact, f, c.how, v)
                        ELSE HasLike(r, f, c.how, v))

RenderMatches(c, r) ==
    LET v == ResolveValue(c.value, r) IN
    CASE ~Known(c.field) \/ NoString(v) -> Failed(r)
      [] Known(c.field) /\ schema[c.field].type # "string" -> Failed(r)
      [] OTHER -> IF v = EmptyString THEN Trivial(r)
                  ELSE Relation(r, Column(c.field), "LIKE", <<Pattern(c.how, v)>>)

-----------------------------------------------------------------------------
\* The template of a predicate, in the text as it is, with the columns of its
\* fields and the placeholders of its arguments.
Template(p, dialect) ==
    CASE dialect \in DOMAIN p.sql -> p.sql[dialect]
      [] dialect \notin DOMAIN p.sql /\ "default" \in DOMAIN p.sql -> p.sql["default"]
      [] OTHER -> <<>>

Interpolates(f) == Resolves(f) /\ schema[Target(f)].kind \in {"scalar", "bool_column"}

RenderSQLPredicate(c, r) ==
    LET ts == Template(Predicates[c.name], r.dialect)
        vs == [i \in DOMAIN c.args |-> ResolveValue(c.args[i], r)]
        args == [i \in DOMAIN vs |-> BoolArg(r, vs[i])]
        columns == [i \in DOMAIN ts |->
                      IF IsAtom(ts[i]) THEN [ts[i] EXCEPT !.operand = Column(Target(@.column))] ELSE ts[i]]
    IN  IF \/ ts = <<>> \/ Error \in ToSet(vs) \/ MarkCount(ts) # Len(args)
           \/ \E i \in AtomsIn(ts) : ~Interpolates(ts[i].operand.column)
        THEN Failed(r)
        ELSE Text(Bind(columns, Marks(r, args)), AddArgs(r, args))

-----------------------------------------------------------------------------
\* The fragments of cs, one after the other, up to the first error.
RECURSIVE RenderCondition(_, _)
RenderAll(cs, r) ==
    LET add(acc, c) ==
          IF "error" \in KindsOf(acc.parts) THEN acc
          ELSE LET one == RenderCondition(c, acc.r)
               IN  [parts |-> Append(acc.parts, one), r |-> one.r]
    IN  FoldLeft(add, [parts |-> <<>>, r |-> r], cs)

RenderLogical(c, r) ==
    LET all == RenderAll(Flatten(c, c.op), r) IN
    IF "error" \in KindsOf(all.parts) THEN Failed(all.r) ELSE Combine(c.op, all.parts, all.r)

RenderCondition(c, r) ==
    CASE c.op \in {"AND", "OR"} -> RenderLogical(c, r)
      [] c.op = "NOT" -> RenderNot(RenderCondition(c.expr, r))
      [] c.op = "predicate" -> RenderFieldPredicate(c, r)
      [] c.op = "compare" -> RenderComparison(c, r)
      [] c.op = "in" -> RenderIn(c, r)
      [] c.op = "element" -> RenderElementIn(c, r)
      [] c.op = "matches" -> RenderMatches(c, r)
      [] c.op = "exists" -> RenderListComprehension(c, r)
      [] c.op = "sql" -> RenderSQLPredicate(c, r)
      [] c.op = "const" -> Folded(Verdict(c.value = Bool(TRUE)), r)

\* Render: the statement, whose text is empty if it selects every row.  Named
\* arguments, by the number in their names, are apart from the others.
Statement(c, r) ==
    LET f == RenderCondition(c, r)
        values == IF f.kind = "text" THEN f.r.args ELSE <<>>
        names == IF r.style = "@" THEN { r.offset + k : k \in DOMAIN values } ELSE {}
    IN  [ok |-> f.kind # "error", sql |-> f.sql,
         args |-> IF r.style = "@" THEN <<>> ELSE values,
         namedArgs |-> [n \in names |-> values[n - r.offset]]]
=============================================================================
