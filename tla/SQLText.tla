------------------------------ MODULE SQLText ------------------------------
(***************************************************************************)
(* The SQL text that src/filter/render.go produces, as a sequence of       *)
(* tokens, and how a database reads it: NOT binds tighter than AND, AND    *)
(* tighter than OR, and a comparison with NULL is neither true nor false.  *)
(*                                                                         *)
(* A token is a keyword, a parenthesis or an atom: a relation between an   *)
(* operand (a column, or the length or the text of the list in it) and the *)
(* values of its placeholders.  In the template of a predicate the operand *)
(* is a field, until it is rendered.                                       *)
(*                                                                         *)
(* The text of a list has its strings in quotes, and around them what the  *)
(* constant Punctuation gives: a bracket before and after all of them, a   *)
(* comma between two, which some databases write with a space.             *)
(***************************************************************************)
EXTENDS FilterIR

CONSTANT Punctuation  \* dialect -> the strings before, between and after those of a list

ASSUME PunctuationAssumption ==
    \A d \in DOMAIN Punctuation : Punctuation[d] \in [before : Nat, between : Nat, after : Nat]

Token(t) == [tok |-> t]
Atom(operand, rel, args) == [tok |-> "atom", operand |-> operand, rel |-> rel, args |-> args]
IsAtom(t) == t.tok = "atom"

InTemplate(f) == [column |-> f, as |-> "value"]
Column(f) == [column |-> schema[f].column, as |-> "value"]
Length(f) == [column |-> schema[f].column, as |-> "length"]
ListText(f, dialect) == [column |-> schema[f].column, as |-> "text", marks |-> Punctuation[dialect]]
Never == <<Atom([column |-> <<>>, as |-> "nothing"], "1 = 0", <<>>)>>

\* The columns that a text reads.
ReadsColumn(t) == IsAtom(t) /\ t.operand.as # "nothing"
Columns(ts) == { t.operand.column : t \in ToSet(SelectSeq(ts, ReadsColumn)) }

Parens(ts) == <<Token("(")>> \o ts \o <<Token(")")>>
Join(texts, word) ==
    FlattenSeq([i \in DOMAIN texts |-> IF i = 1 THEN texts[1] ELSE <<Token(word)>> \o texts[i]])
Negated(ts) == <<Token("NOT")>> \o Parens(ts)

-----------------------------------------------------------------------------
\* Placeholders: "?" takes the next argument, "$" and "@" the one they number.
Mark(style, n) == [mark |-> style, n |-> n]
AtomsIn(ts) == { i \in DOMAIN ts : IsAtom(ts[i]) }
IsMark(a) == "mark" \in DOMAIN a

\* How many placeholders come before the one at position k of atom i.
MarksOf(t) == IF IsAtom(t) THEN SelectSeq(t.args, IsMark) ELSE <<>>
MarksBefore(ts, i) == FoldLeft(LAMBDA n, t : n + Len(MarksOf(t)), 0, SubSeq(ts, 1, i - 1))
MarkCount(ts) == MarksBefore(ts, Len(ts) + 1)

\* The number of the argument that a placeholder takes.
Argument(ts, i, k) ==
    LET a == ts[i].args[k] IN
    IF a.mark = "?" THEN MarksBefore(ts, i) + k ELSE a.n

\* The text with its placeholders replaced by what is in args, which maps the
\* numbers of the arguments to their values.
Bind(ts, args) ==
    [i \in DOMAIN ts |->
        IF IsAtom(ts[i])
        THEN [ts[i] EXCEPT !.args = [k \in DOMAIN @ |->
                 IF IsMark(@[k]) THEN args[Argument(ts, i, k)] ELSE @[k]]]
        ELSE ts[i]]

\* Every placeholder has an argument and, if they are not numbered, every
\* argument a placeholder.
Bindable(ts, args) ==
    /\ \A i \in AtomsIn(ts) : \A k \in DOMAIN ts[i].args :
          IsMark(ts[i].args[k]) => Argument(ts, i, k) \in DOMAIN args
    /\ (\E i \in AtomsIn(ts) : \E k \in DOMAIN ts[i].args :
          IsMark(ts[i].args[k]) /\ ts[i].args[k].mark = "?") => MarkCount(ts) = Len(args)

-----------------------------------------------------------------------------
\* Truth values: "T", "F", and "U" for unknown.
Truth3(b) == IF b THEN "T" ELSE "F"
Not3(a) == CASE a = "T" -> "F" [] a = "F" -> "T" [] OTHER -> a
And3(a, b) == CASE "F" \in {a, b} -> "F" [] "U" \in {a, b} -> "U" [] OTHER -> "T"
Or3(a, b) == CASE "T" \in {a, b} -> "T" [] "U" \in {a, b} -> "U" [] OTHER -> "F"

OperandValue(o, row) ==
    LET v == row[o.column] IN
    CASE o.as = "length" -> Int64(IF v = Null THEN 0 ELSE Len(v.elems))
      [] o.as = "text" /\ v # Null -> [elems |-> v.elems, marks |-> o.marks]
      [] OTHER -> v

\* Where a pattern may match in the text of a list: in one of its strings, or
\* in the punctuation on the right side of a quote that the pattern has.
Between(text, how) ==
    { Str(text.marks[m]) : m \in
        { m \in DOMAIN text.marks :
            CASE m = "before" -> how \in {"contains", "endsWith"}
              [] m = "between" -> Len(text.elems) > 1
              [] m = "after" -> how \in {"contains", "startsWith"} } }
Like(pattern, s) ==
    IF pattern.how = "is" THEN pattern.n = s.n ELSE <<pattern.how, pattern.n, s.n>> \in Match

\* A relation between a value that is not NULL and the values it is given.
Relates(v, rel, args) ==
    CASE rel = "IN" -> \E k \in DOMAIN args : v.n = args[k].n
      [] rel = "ANY" -> \E a \in ToSet(args[1].elems) : v.n = a.n
      [] rel = "NOT EMPTY" -> v.elems # <<>>
      [] rel = "HAS" -> args[1] \in ToSet(v.elems)
      [] rel = "HAS LIKE" -> \E s \in ToSet(v.elems) \cup Between(v, args[1].how) : Like(args[1], s)
      [] rel = "LIKE" -> Like(args[1], v)
      [] OTHER -> Ordered(Exact(v), rel, Exact(args[1]))

\* The truth of an atom for a row.
Truth(t, row) ==
    IF t.rel = "1 = 0" THEN "F"
    ELSE LET v == OperandValue(t.operand, row) IN
         CASE t.rel = "IS NULL" -> Truth3(v = Null)
           [] t.rel = "IS NOT NULL" -> Truth3(v # Null)
           [] t.rel = "IS TRUE" -> Truth3(v = Bool(TRUE))
           [] OTHER -> IF v = Null \/ \E k \in DOMAIN t.args : t.args[k] = Null THEN "U"
                       ELSE Truth3(Relates(v, t.rel, t.args))

\* The positions of word in ts outside all parentheses.
Depth(ts, i) ==
    Cardinality({ j \in 1 .. i : ts[j].tok = "(" }) - Cardinality({ j \in 1 .. i : ts[j].tok = ")" })
TopLevel(ts, word) == { i \in DOMAIN ts : ts[i].tok = word /\ Depth(ts, i) = 0 }

\* The truth of a text, whose placeholders are bound, for a row.
RECURSIVE Reads(_, _)
Reads(ts, row) ==
    LET ors == TopLevel(ts, "OR")
        ands == TopLevel(ts, "AND")
        before(i) == Reads(SubSeq(ts, 1, i - 1), row)
        after(i) == Reads(SubSeq(ts, i + 1, Len(ts)), row)
    IN  IF ors # {} THEN Or3(before(Min(ors)), after(Min(ors)))
        ELSE IF ands # {} THEN And3(before(Min(ands)), after(Min(ands)))
        ELSE CASE ts[1].tok = "NOT" -> Not3(after(1))
               [] ts[1].tok = "(" -> Reads(SubSeq(ts, 2, Len(ts) - 1), row)
               [] IsAtom(ts[1]) -> Truth(ts[1], row)
=============================================================================
