--------------------------- MODULE FilterMeaning ---------------------------
(***************************************************************************)
(* What an expression means by the language definition of CEL, for an      *)
(* object whose fields, and the parameters, have the values in env: a      *)
(* value, or Error.  Numbers are exact, whatever their types.  Nothing     *)
(* here is taken from the code: the parser and the evaluator are compared  *)
(* with it.                                                                *)
(***************************************************************************)
EXTENDS FilterParser

Equal(a, b) == IF IsNumber(a) /\ IsNumber(b) THEN Exact(a) = Exact(b) ELSE a = b
Orderable(a, b) == \/ IsNumber(a) /\ IsNumber(b)
                   \/ a.type = b.type /\ a.type \in {"string", "bool"}
Compared(a, fn, b) ==
    CASE Error \in {a, b} -> Error
      [] fn \in Equality /\ Error \notin {a, b} -> Bool(Equal(a, b) <=> (fn = "="))
      [] OTHER -> IF Orderable(a, b) THEN Bool(Ordered(Exact(a), fn, Exact(b))) ELSE Error

\* Either side of && and || decides, even if the other is an error.
Decides(v, l, r) == IF v \in {l, r} THEN v ELSE IF Error \in {l, r} THEN Error ELSE l

\* How a match of the elements of a list ends.
AnyOf(vs, Test(_)) ==
    LET results == { Test(v) : v \in vs } IN
    CASE Bool(TRUE) \in results -> Bool(TRUE) [] results \subseteq {Bool(FALSE)} -> Bool(FALSE) [] OTHER -> Error

StringTest(how, p, v) ==
    IF {p.type, v.type} = {"string"} THEN Bool(<<how, p.n, v.n>> \in Match) ELSE Error

IsListAlias(t) == t.ast = "ident" /\ HasKind(t.name, "json_list") /\ IsAlias(t.name)

\* tag in [...]: one of the elements of the list is one of these, or, for the
\* alias of this name, below one of them.
AliasAmong(name, list, vs) ==
    IF list.type # "list" THEN Error
    ELSE AnyOf(ToSet(list.elems), LAMBDA item :
            AnyOf(vs, LAMBDA v : IF name = "tag" /\ StringTest("below", v, item) = Bool(TRUE)
                                 THEN Bool(TRUE) ELSE Compared(item, "=", v)))

RECURSIVE Means(_, _, _)
Means(t, env, at) ==
    LET arg(i) == Means(t.args[i], env, at)
        named(u) == IF u.ast = "ident" THEN Lookup(u.name, env) ELSE Error
        among(u) == IF u.ast = "list" THEN { Means(u.elems[i], env, at) : i \in DOMAIN u.elems }
                    ELSE IF named(u).type = "list" THEN ToSet(named(u).elems) ELSE {Error}
    IN  CASE t.ast = "const" -> t.value
          [] t.ast = "ident" -> named(t)
          [] t.ast = "comprehension" ->
                IF named(t.range).type # "list" THEN Error
                ELSE AnyOf(ToSet(named(t.range).elems), LAMBDA v :
                            StringTest(t.pred.fn, Means(t.pred.args[1], env, at), v))
          [] t.ast = "call" ->
                CASE t.fn = "and" -> Decides(Bool(FALSE), arg(1), arg(2))
                  [] t.fn = "or" -> Decides(Bool(TRUE), arg(1), arg(2))
                  [] t.fn = "not" -> IF arg(1).type = "bool" THEN Bool(arg(1).n = 0) ELSE Error
                  [] t.fn \in Comparisons -> Compared(arg(1), t.fn, arg(2))
                  [] t.fn = "in" ->
                        IF IsListAlias(t.args[1])
                        THEN AliasAmong(t.args[1].name, named(t.args[1]), among(t.args[2]))
                        ELSE AnyOf(among(t.args[2]), LAMBDA v : Compared(arg(1), "=", v))
                  [] t.fn \in {"contains", "startsWith", "endsWith"} ->
                        StringTest(t.fn, arg(1), named(t.target))
                  [] t.fn = "size" -> IF arg(1).type = "list" THEN Int64(Len(arg(1).elems)) ELSE Error
                  [] t.fn = "now" -> Int64(at)
                  [] t.fn = "neg" -> Int64(-arg(1).n)
                  [] t.fn \in Operators ->
                        Int64(CASE t.fn = "+" -> arg(1).n + arg(2).n
                                [] t.fn = "-" -> arg(1).n - arg(2).n
                                [] t.fn = "*" -> arg(1).n * arg(2).n)
                  [] t.fn = "sql" ->
                        LET eval == Predicates[t.args[1].value.n].eval
                            vs == IF Len(t.args) = 1 THEN <<>>
                                  ELSE [i \in DOMAIN t.args[2].elems |-> Means(t.args[2].elems[i], env, at)]
                        IN  IF Error \in ToSet(vs) THEN Error ELSE Bool(Reads(Bind(eval, vs), env) = "T")

\* An expression fits if all of its numbers, those that it computes as well,
\* are in the range of int64 and have no fraction.
IsInt64(v) == IsNumber(v) => v.type # "double" /\ v.n \in -MaxInt - 1 .. MaxInt

RECURSIVE Subterms(_)
Subterms(t) ==
    {t} \cup CASE t.ast = "call" -> UNION { Subterms(u) : u \in ToSet(t.args) \cup {t.target} }
               [] t.ast = "list" -> UNION { Subterms(u) : u \in ToSet(t.elems) }
               [] t.ast = "comprehension" -> Subterms(t.range) \cup Subterms(t.pred)
               [] OTHER -> {}

Fits(t, env, at) ==
    \A u \in Subterms(t) :
        (u.ast \in {"const", "ident"} \/ (u.ast = "call" /\ u.fn \in Operators \cup {"neg"}))
            => IsInt64(Means(u, env, at))
=============================================================================
