------------------------------ MODULE FilterIR ------------------------------
(***************************************************************************)
(* The condition trees of src/filter/ir.go, the schema they refer to and   *)
(* the values they compare.                                                *)
(*                                                                         *)
(* A value is a record with its type.  A string is a number, which gives   *)
(* its place in the alphabetical order; what is a prefix, a suffix or a    *)
(* part of what is the constant Match.  Strings hold no letters that       *)
(* differ in case only, no LIKE wildcards, no quotes and no backslashes.   *)
(* Integers have the width of MaxInt; Double(n) is n and a half, for n     *)
(* that are not negative, and Uint(n) is n.                                *)
(***************************************************************************)
EXTENDS Integers, Sequences, SequencesExt, FiniteSetsExt

CONSTANTS
    MaxInt,     \* the greatest int64; the least is -MaxInt - 1
    Match,      \* the <<how, pattern, string>> that match
    Predicates  \* name, a string -> its SQL templates and, as SQL, its Eval function: <<>> if none

VARIABLE schema  \* field name -> its definition, as FilterSchema makes them

Kinds == {"scalar", "bool_column", "json_bool", "json_list", "virtual_alias"}
Hows == {"contains", "startsWith", "endsWith", "below"}

ASSUME FilterAssumption ==
    /\ MaxInt \in Nat
    /\ Match \subseteq Hows \X Nat \X Nat

Scalar(t, n) == [type |-> t, n |-> n]
Str(n) == Scalar("string", n)
Int64(n) == Scalar("int", n)
Uint(n) == Scalar("uint", n)
Double(n) == Scalar("double", n)
Bool(b) == Scalar("bool", IF b THEN 1 ELSE 0)
Null == Scalar("null", 0)
List(vs) == [type |-> "list", elems |-> vs]
Error == [type |-> "error"]

EmptyString == Str(0)

\* Integers wrap around at their width.
Wrap(n) == ((n + MaxInt + 1) % (2 * (MaxInt + 1))) - (MaxInt + 1)

\* toInt64 truncates a double and wraps an unsigned number.
IsNumber(v) == v.type \in {"int", "uint", "double"}
ToInt64(v) == Wrap(v.n)

\* What a database compares: the exact number, in halves.
Exact(v) == IF v.type = "double" THEN 2 * v.n + 1 ELSE 2 * v.n

Known(f) == f \in DOMAIN schema
IsAlias(f) == schema[f].kind = "virtual_alias"

\* ResolveAlias: the field that f names.
Target(f) == IF Known(f) /\ IsAlias(f) THEN schema[f].target ELSE f
Resolves(f) == Known(f) /\ Known(Target(f))
HasKind(f, k) == Resolves(f) /\ schema[Target(f)].kind = k

-----------------------------------------------------------------------------
\* Value expressions.
Field(f) == [e |-> "field", name |-> f]
Param(p) == [e |-> "param", name |-> p]
Lit(v) == [e |-> "lit", value |-> v]
Size(e) == [e |-> "size", arg |-> e]

\* Conditions.
And(l, r) == [op |-> "AND", left |-> l, right |-> r]
Or(l, r) == [op |-> "OR", left |-> l, right |-> r]
Not(c) == [op |-> "NOT", expr |-> c]
FieldIs(f) == [op |-> "predicate", field |-> f]
Compare(l, cmp, r) == [op |-> "compare", left |-> l, cmp |-> cmp, right |-> r]
In(l, vs) == [op |-> "in", left |-> l, values |-> vs]
ElementIn(e, f) == [op |-> "element", element |-> e, field |-> f]
Matches(f, how, v) == [op |-> "matches", field |-> f, how |-> how, value |-> v]
Exists(f, how, v) == [op |-> "exists", field |-> f, how |-> how, value |-> v]
SQL(p, args) == [op |-> "sql", name |-> p, args |-> args]
Const(b) == [op |-> "const", value |-> Bool(b)]

\* CondAnd and CondOr of helpers.go nest to the left.
CondAnd(cs) == IF cs = <<>> THEN Const(TRUE) ELSE FoldLeft(And, Head(cs), Tail(cs))
CondOr(cs) == IF cs = <<>> THEN Const(FALSE) ELSE FoldLeft(Or, Head(cs), Tail(cs))

-----------------------------------------------------------------------------
\* WalkCondition with its value expressions: the nodes in the order visited.
WalkValueExpr(e) == IF e.e = "size" THEN <<e, e.arg>> ELSE <<e>>
WalkValues(es) == FlattenSeq([i \in DOMAIN es |-> WalkValueExpr(es[i])])

\* Faulty variant of WalkedValues: the right side of a comparison is passed over.
WalkedLeft(c) ==
    CASE c.op = "compare" -> <<c.left>>
      [] c.op = "in" -> <<c.left>> \o c.values
      [] c.op = "element" -> <<c.element>>
      [] c.op \in {"matches", "exists"} -> <<c.value>>
      [] c.op = "sql" -> c.args
      [] OTHER -> <<>>

\* The value expressions directly below a condition.
WalkedValues(c) ==
    CASE c.op = "compare" -> <<c.left, c.right>>
      [] c.op = "in" -> <<c.left>> \o c.values
      [] c.op = "element" -> <<c.element>>
      [] c.op \in {"matches", "exists"} -> <<c.value>>
      [] c.op = "sql" -> c.args
      [] OTHER -> <<>>

RECURSIVE WalkCondition(_)
WalkCondition(c) ==
    <<c>> \o CASE c.op \in {"AND", "OR"} -> WalkCondition(c.left) \o WalkCondition(c.right)
               [] c.op = "NOT" -> WalkCondition(c.expr)
               [] OTHER -> WalkValues(WalkedValues(c))

-----------------------------------------------------------------------------
Equality == {"=", "!="}
Comparisons == Equality \cup {"<", "<=", ">", ">="}

\* What a comparison operator says of two numbers.
Ordered(a, cmp, b) ==
    \/ cmp = "=" /\ a = b
    \/ cmp = "!=" /\ a # b
    \/ cmp = "<" /\ a < b
    \/ cmp = "<=" /\ a <= b
    \/ cmp = ">" /\ a > b
    \/ cmp = ">=" /\ a >= b

\* invertComparisonOperator: for operands that change sides.
Inverted(cmp) ==
    CASE cmp = "<" -> ">" [] cmp = ">" -> "<" [] cmp = "<=" -> ">=" [] cmp = ">=" -> "<="
      [] OTHER -> cmp

\* What a value contributes to a list of values: a list, its elements.
Slice(v) == IF v.type = "list" THEN v.elems ELSE <<v>>
Flat(vs) == FlattenSeq([i \in DOMAIN vs |-> Slice(vs[i])])
=============================================================================
