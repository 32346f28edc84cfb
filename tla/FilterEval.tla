----------------------------- MODULE FilterEval -----------------------------
(***************************************************************************)
(* The in-memory evaluator of src/filter/eval.go.  Its verdict is "true",  *)
(* "false" or "error"; vars maps field names and parameters to values.     *)
(***************************************************************************)
EXTENDS SQLText

Verdict(b) == IF b THEN "true" ELSE "false"

Lookup(name, vars) == IF name \in DOMAIN vars THEN vars[name] ELSE Error

SizeOf(v) ==
    CASE v = Null -> Int64(0)
      [] v.type = "list" -> Int64(Len(v.elems))
      [] OTHER -> Error

\* The argument of size() has no size() in it.
EvalScalar(e, vars) == IF e.e = "lit" THEN e.value ELSE Lookup(e.name, vars)
EvalValueExpr(e, vars) ==
    IF e.e = "size" THEN SizeOf(EvalScalar(e.arg, vars)) ELSE EvalScalar(e, vars)
EvalAll(es, vars) == [i \in DOMAIN es |-> EvalValueExpr(es[i], vars)]

\* A loop that returns at the first element that is a hit, or is bad.
Search(s, Bad(_), Hit(_)) ==
    LET stops == { i \in DOMAIN s : Bad(s[i]) \/ Hit(s[i]) } IN
    CASE stops = {} -> "false"
      [] stops # {} /\ Bad(s[Min(stops)]) -> "error"
      [] OTHER -> "true"

IsError(v) == v = Error
NoString(v) == v.type # "string"
EqualsLoose(l, r) ==
    IF IsNumber(l) THEN IsNumber(r) /\ ToInt64(l) = ToInt64(r) ELSE l = r /\ l.type # "list"
MatchesString(how, p, s) == <<how, p.n, s.n>> \in Match

EvalComparison(c, vars) ==
    LET l == EvalValueExpr(c.left, vars)
        r == EvalValueExpr(c.right, vars)
    IN  CASE IsError(l) \/ IsError(r) -> "error"
          [] Null \in {l, r} /\ Error \notin {l, r} ->
                IF c.cmp \in Equality THEN Verdict((l = r) <=> (c.cmp = "=")) ELSE "error"
          [] OTHER ->
                CASE IsNumber(l) /\ IsNumber(r) -> Verdict(Ordered(ToInt64(l), c.cmp, ToInt64(r)))
                  [] {l.type, r.type} = {"string"} -> Verdict(Ordered(l.n, c.cmp, r.n))
                  [] {l.type, r.type} = {"bool"} /\ c.cmp \in Equality ->
                        Verdict(Ordered(l.n, c.cmp, r.n))
                  [] OTHER -> "error"

\* An element of the list belongs to a value; the alias tag is hierarchical.
Belongs(alias, item, v) == item = v \/ (alias = "tag" /\ MatchesString("below", v, item))

\* A virtual alias of a list: one of its elements is among the values.
EvalAliasIn(alias, values, vars) ==
    LET list == Lookup(Target(alias), vars)
        flat == Flat(EvalAll(values, vars))
        pairs == FlattenSeq([i \in DOMAIN list.elems |->
                               [j \in DOMAIN flat |-> <<list.elems[i], flat[j]>>]])
    IN  CASE list \in {Error, Null} -> "false"
          [] list \notin {Error, Null} /\ (list.type # "list" \/ Error \in ToSet(flat)) -> "error"
          [] OTHER -> Search(pairs, LAMBDA p : NoString(p[1]) \/ NoString(p[2]),
                                    LAMBDA p : Belongs(alias, p[1], p[2]))

EvalIn(c, vars) ==
    LET left == EvalValueExpr(c.left, vars)
        alias == c.left.e = "field" /\ Known(c.left.name) /\ IsAlias(c.left.name)
    IN  CASE alias /\ ~Resolves(c.left.name) -> "error"
          [] alias /\ HasKind(c.left.name, "json_list") -> EvalAliasIn(c.left.name, c.values, vars)
          [] OTHER -> IF IsError(left) THEN "error"
                      ELSE Search(Flat(EvalAll(c.values, vars)), IsError,
                                  LAMBDA v : EqualsLoose(left, v))

EvalElementIn(c, vars) ==
    LET list == Lookup(Target(c.field), vars)
        element == EvalValueExpr(c.element, vars)
    IN  CASE ~HasKind(c.field, "json_list") -> "error"
          [] HasKind(c.field, "json_list") /\ list \in {Error, Null} -> "false"
          [] OTHER -> IF list.type # "list" \/ IsError(element) THEN "error"
                      ELSE Verdict(\E v \in ToSet(list.elems) : EqualsLoose(element, v))

EvalListComprehension(c, vars) ==
    LET list == Lookup(Target(c.field), vars)
        pattern == EvalValueExpr(c.value, vars)
    IN  CASE ~HasKind(c.field, "json_list") -> "error"
          [] HasKind(c.field, "json_list") /\ list \in {Error, Null} -> "false"
          [] OTHER -> IF list.type # "list" \/ NoString(pattern) THEN "error"
                      ELSE Search(list.elems, NoString, LAMBDA s : MatchesString(c.how, pattern, s))

\* contains(), startsWith() and endsWith().
EvalMatches(c, vars) ==
    LET s == Lookup(c.field, vars)
        pattern == EvalValueExpr(c.value, vars)
    IN  IF NoString(s) \/ NoString(pattern) THEN "error" ELSE Verdict(MatchesString(c.how, pattern, s))

\* The function that was registered with the predicate.
EvalSQLPredicate(c, vars) ==
    LET args == EvalAll(c.args, vars)
        eval == Predicates[c.name].eval
    IN  IF eval = <<>> \/ Error \in ToSet(args) THEN "error"
        ELSE Verdict(Reads(Bind(eval, args), vars) = "T")

RECURSIVE EvaluateCondition(_, _)
EvaluateCondition(c, vars) ==
    LET left == EvaluateCondition(c.left, vars) IN
    CASE c.op = "AND" -> IF left = "true" THEN EvaluateCondition(c.right, vars) ELSE left
      [] c.op = "OR" -> IF left = "false" THEN EvaluateCondition(c.right, vars) ELSE left
      [] c.op = "NOT" -> LET v == EvaluateCondition(c.expr, vars) IN
                         IF v = "error" THEN v ELSE Verdict(v = "false")
      [] c.op = "predicate" -> LET v == Lookup(c.field, vars) IN
                               IF v.type = "bool" THEN Verdict(v = Bool(TRUE)) ELSE "error"
      [] c.op = "compare" -> EvalComparison(c, vars)
      [] c.op = "in" -> EvalIn(c, vars)
      [] c.op = "element" -> EvalElementIn(c, vars)
      [] c.op = "matches" -> EvalMatches(c, vars)
      [] c.op = "exists" -> EvalListComprehension(c, vars)
      [] c.op = "sql" -> EvalSQLPredicate(c, vars)
      [] c.op = "const" -> Verdict(c.value = Bool(TRUE))
=============================================================================
