---------------------------- MODULE FilterParser ----------------------------
(***************************************************************************)
(* src/filter/parser.go: from the syntax tree of a CEL expression to a     *)
(* condition of FilterIR.                                                  *)
(*                                                                         *)
(* The trees are those that the parser and the type checker of cel-go let  *)
(* pass, which are external.  The functions "and", "or", "not", "neg" and  *)
(* "in" are &&, ||, !, the unary minus and @in.                            *)
(***************************************************************************)
EXTENDS FilterRender

\* Syntax trees.
Literal(v) == [ast |-> "const", value |-> v]
Ident(name) == [ast |-> "ident", name |-> name]
ListOf(ts) == [ast |-> "list", elems |-> ts]
NoTarget == [ast |-> "none"]
Method(target, fn, ts) == [ast |-> "call", target |-> target, fn |-> fn, args |-> ts]
Call(fn, ts) == Method(NoTarget, fn, ts)
Binary(fn, l, r) == Call(fn, <<l, r>>)

\* The macros range.exists(x, pred) and range.all(x, pred).
Macro(accu, step, range, pred) ==
    [ast |-> "comprehension", accu |-> accu, step |-> step, range |-> range, pred |-> pred]
ExistsIn(range, pred) == Macro(FALSE, "or", range, pred)
AllIn(range, pred) == Macro(TRUE, "and", range, pred)
IterVar == Ident("x")

\* What stands for an error.
NoValue == [e |-> "invalid"]
Rejected == [op |-> "invalid"]
IsConstant(e) == e.e \in {"lit", "param"}

-----------------------------------------------------------------------------
\* getConstValue: an unsigned constant becomes an int64.
ConstValue(v) == IF v.type = "uint" THEN Int64(ToInt64(v)) ELSE v

\* Faulty variant of Arithmetic: the operands change places.
ArithmeticSwapped(fn, a, b) ==
    Wrap(CASE fn = "+" -> b + a [] fn = "-" -> b - a [] fn = "*" -> b * a)

\* Arithmetic of Go, on int64.
Arithmetic(fn, a, b) ==
    Wrap(CASE fn = "+" -> a + b [] fn = "-" -> a - b [] fn = "*" -> a * b)
Operators == {"+", "-", "*"}

\* evaluateNumeric folds constants at the time of compilation: <<>>, or <<n>>.
RECURSIVE EvaluateNumeric(_, _)
EvaluateNumeric(t, at) ==
    CASE t.ast = "const" -> IF IsNumber(t.value) THEN <<ToInt64(t.value)>> ELSE <<>>
      [] t.ast = "call" /\ t.fn = "now" -> <<at>>
      [] t.ast = "call" /\ t.fn \in Operators ->
            LET l == EvaluateNumeric(t.args[1], at)
                r == EvaluateNumeric(t.args[2], at)
            IN  IF <<>> \in {l, r} THEN <<>> ELSE <<Arithmetic(t.fn, l[1], r[1])>>
      [] t.ast = "call" /\ t.fn = "neg" ->
            LET v == EvaluateNumeric(t.args[1], at) IN IF v = <<>> THEN <<>> ELSE <<Wrap(-v[1])>>
      [] OTHER -> <<>>

\* A name that is no field is a parameter.
RECURSIVE BuildValueExpr(_, _)
BuildValueExpr(t, at) ==
    LET n == EvaluateNumeric(t, at) IN
    CASE t.ast = "ident" -> IF Known(t.name) THEN Field(t.name) ELSE Param(t.name)
      [] t.ast = "const" -> Lit(ConstValue(t.value))
      [] t.ast \notin {"ident", "const"} /\ n # <<>> -> Lit(Int64(n[1]))
      [] OTHER ->
            IF t.ast # "call" \/ t.fn # "size" \/ Len(t.args) # 1 THEN NoValue
            ELSE LET arg == BuildValueExpr(t.args[1], at)
                 IN  IF arg = NoValue THEN NoValue ELSE Size(arg)
BuildAll(ts, at) == [i \in DOMAIN ts |-> BuildValueExpr(ts[i], at)]

\* Faulty variant of BuildComparison: the operators of the schema are ignored.
BuildAnyComparison(t, at) ==
    LET l == BuildValueExpr(t.args[1], at)
        r == BuildValueExpr(t.args[2], at)
    IN  IF NoValue \in {l, r} THEN Rejected ELSE Compare(l, t.fn, r)

\* Of a field on the left only, the operator must be one that the schema allows.
BuildComparison(t, at) ==
    LET l == BuildValueExpr(t.args[1], at)
        r == BuildValueExpr(t.args[2], at)
    IN  IF NoValue \in {l, r} \/ (l.e = "field" /\ t.fn \notin schema[l.name].ops)
        THEN Rejected ELSE Compare(l, t.fn, r)

\* list in list-field, value in [values] and value in list-parameter
BuildIn(t, at) ==
    LET l == BuildValueExpr(t.args[1], at)
        right == t.args[2]
        r == BuildValueExpr(right, at)
        vs == IF right.ast = "list" THEN BuildAll(right.elems, at) ELSE <<r>>
        field == right.ast = "ident" /\ Known(right.name)
    IN  CASE field /\ ~Resolves(right.name) -> Rejected
          [] field /\ HasKind(right.name, "json_list") ->
                IF l = NoValue THEN Rejected ELSE ElementIn(l, right.name)
          [] OTHER -> IF NoValue \in {l} \cup ToSet(vs) THEN Rejected ELSE In(l, vs)

\* target.contains(v), target.startsWith(v) and target.endsWith(v)
BuildMatches(t, at) ==
    LET f == t.target.name
        v == BuildValueExpr(t.args[1], at)
    IN  IF t.target.ast # "ident" THEN Rejected
        ELSE IF ~Known(f) \/ ~IsConstant(v) THEN Rejected
        ELSE IF schema[f].contains THEN Matches(f, t.fn, v) ELSE Rejected

\* sql(name) and sql(name, [args])
BuildSQLPredicate(t, at) ==
    LET name == t.args[1].value.n
        args == IF Len(t.args) = 1 THEN <<>> ELSE BuildAll(t.args[2].elems, at)
    IN  IF t.args[1].ast # "const" \/ (Len(t.args) = 2 /\ t.args[2].ast # "list") THEN Rejected
        ELSE IF name \notin DOMAIN Predicates \/ \E e \in ToSet(args) : ~IsConstant(e) THEN Rejected
        ELSE SQL(name, args)

\* exists(), of a list field and one match of its variable.
BuildComprehension(t, at) ==
    LET v == BuildValueExpr(t.pred.args[1], at) IN
    IF t.accu \/ t.step # "or" \/ t.range.ast # "ident" THEN Rejected
    ELSE IF ~HasKind(t.range.name, "json_list") \/ t.pred.ast # "call" THEN Rejected
    ELSE IF t.pred.target # IterVar \/ Len(t.pred.args) # 1 THEN Rejected
    ELSE IF ~IsConstant(v) \/ t.pred.fn \notin {"startsWith", "endsWith", "contains"} THEN Rejected
    ELSE Exists(t.range.name, t.pred.fn, v)

BuildConst(v) ==
    IF IsNumber(v) \/ v.type = "bool" THEN Const(v.n # 0 \/ v.type = "double") ELSE Rejected

Logical(fn, l, r) ==
    IF Rejected \in {l, r} THEN Rejected ELSE IF fn = "and" THEN And(l, r) ELSE Or(l, r)

BuildIdent(name) ==
    IF ~Known(name) THEN Rejected
    ELSE IF schema[name].type = "bool" THEN FieldIs(name) ELSE Rejected

RECURSIVE BuildCondition(_, _)
BuildCondition(t, at) ==
    CASE t.ast = "const" -> BuildConst(t.value)
      [] t.ast = "ident" -> BuildIdent(t.name)
      [] t.ast = "comprehension" -> BuildComprehension(t, at)
      [] t.ast = "call" ->
            CASE t.fn \in {"and", "or"} ->
                    Logical(t.fn, BuildCondition(t.args[1], at), BuildCondition(t.args[2], at))
              [] t.fn = "not" -> LET c == BuildCondition(t.args[1], at)
                                 IN  IF c = Rejected THEN Rejected ELSE Not(c)
              [] t.fn \in Comparisons -> BuildComparison(t, at)
              [] t.fn = "in" -> BuildIn(t, at)
              [] t.fn \in {"contains", "startsWith", "endsWith"} -> BuildMatches(t, at)
              [] t.fn = "sql" -> BuildSQLPredicate(t, at)
              [] OTHER -> Rejected
      [] OTHER -> Rejected

=============================================================================
