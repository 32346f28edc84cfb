----------------------------- MODULE FilterText -----------------------------
(***************************************************************************)
(* Filter expressions as src/filter_scope.go joins them: as text, which    *)
(* nothing reads before NewFilterProgramFromCEL compiles the result.       *)
(*                                                                         *)
(* A text is a sequence of tokens: parentheses, operators, constants, and  *)
(* the atoms, which are true of some rows: the comparisons, calls and      *)
(* negations that && and || join.  White space counts for nothing, so that *)
(* a blank text is empty.  An atom has parentheses of its own, those of    *)
(* its calls and those in its string literals, and isWrappedExpr counts    *)
(* them all: Inner gives them.                                             *)
(***************************************************************************)
EXTENDS Integers, FiniteSets, Sequences, SequencesExt

CONSTANTS
    Row,     \* the rows of the table that is queried
    Atom,    \* conditions that no && or || joins
    Inner,   \* atom -> the parentheses in its text, in order
    Opens,   \* the atoms whose text begins with a parenthesis
    Closes,  \* the atoms whose text ends with one, as a call does
    Holds    \* atom -> the rows it is true of; it has none if it does not compile

Word == {"(", ")", "&&", "||", "true", "false"}
Token == Atom \cup Word

ASSUME FilterTextAssumption ==
    /\ Atom \cap Word = {}
    /\ Inner \in [Atom -> Seq({"(", ")"})]
    /\ \A a \in Opens : a \in Atom /\ Inner[a] # <<>> /\ Head(Inner[a]) = "("
    /\ \A a \in Closes : a \in Atom /\ Inner[a] # <<>> /\ Last(Inner[a]) = ")"
    /\ DOMAIN Holds \subseteq Atom /\ \A a \in DOMAIN Holds : Holds[a] \subseteq Row

Blank == <<>>
True == <<"true">>
False == <<"false">>
InParens(ts) == <<"(">> \o ts \o <<")">>
JoinedBy(t, left, right) == left \o <<t>> \o right

-----------------------------------------------------------------------------
\* The balance of parentheses in the first n of ps.
Balance(ps, n) ==
    Cardinality({ i \in 1 .. n : ps[i] = "(" }) - Cardinality({ i \in 1 .. n : ps[i] = ")" })

\* Every parenthesis of a text, those inside its atoms included.
ParensIn(ts) ==
    FlattenSeq([i \in DOMAIN ts |-> CASE ts[i] \in Atom -> Inner[ts[i]]
                                      [] ts[i] \in {"(", ")"} -> <<ts[i]>>
                                      [] OTHER -> <<>>])

\* The text begins and ends with a parenthesis, and the first is closed by the
\* last, if all of them are counted.
IsWrappedExpr(ts) ==
    LET ps == ParensIn(ts) IN
    /\ ts # <<>> /\ Head(ts) \in Opens \cup {"("} /\ Last(ts) \in Closes \cup {")"}
    /\ Balance(ps, Len(ps)) = 0
    /\ \A i \in 1 .. Len(ps) - 1 : ps[i] = ")" => Balance(ps, i) # 0

WrapExpr(ts) ==
    IF ts \in {Blank, True, False} \/ IsWrappedExpr(ts) THEN ts ELSE InParens(ts)

\* Faulty variant of Part: the expressions are joined as they are.
BarePart(ts) == ts

\* What is joined of an expression.
Part(ts) == WrapExpr(ts)

\* What the loop of combineExprs has kept of the first n texts, joined.
Joining(texts, identity, joiner) ==
    LET joined[n \in 0 .. Len(texts)] ==
          CASE n = 0 -> Blank
            [] n > 0 /\ texts[n] \in {Blank, identity} -> joined[n-1]
            [] OTHER -> IF joined[n-1] = Blank THEN Part(texts[n])
                        ELSE JoinedBy(joiner, joined[n-1], Part(texts[n]))
    IN  joined

\* combineExprs
CombineExprs(texts, identity, annihilator, joiner) ==
    LET joined == Joining(texts, identity, joiner)[Len(texts)]
    IN  CASE annihilator \in ToSet(texts) -> annihilator
          [] annihilator \notin ToSet(texts) /\ joined = Blank -> identity
          [] OTHER -> joined

AndAllExprs(texts) == CombineExprs(texts, True, False, "&&")
OrAllExprs(texts) == CombineExprs(texts, False, True, "||")

\* The text of a role: the expressions on each of ps are joined by ||, what
\* this gives by &&; a permission without an expression contributes "true".
BuildSingleRoleExpr(exprsByPermission, ps) ==
    AndAllExprs([i \in DOMAIN ps |->
        IF exprsByPermission[ps[i]] = <<>> THEN True ELSE OrAllExprs(exprsByPermission[ps[i]])])

\* WithExtraFilterCEL, once for each of the first n texts.
ExtraFilters(texts) ==
    LET extra[n \in 0 .. Len(texts)] ==
          CASE n = 0 -> Blank
            [] n > 0 /\ texts[n] = Blank -> extra[n-1]
            [] OTHER -> IF extra[n-1] = Blank THEN texts[n]
                        ELSE JoinedBy("&&", InParens(extra[n-1]), InParens(texts[n]))
    IN  extra

ExtraFilterCEL(texts) == ExtraFilters(texts)[Len(texts)]

-----------------------------------------------------------------------------
(***************************************************************************)
(* What the CEL compiler makes of a text.  It reads it from left to right; *)
(* && binds tighter than ||.  Inside each open parenthesis, and outside    *)
(* all of them, it has a frame: the rows of the disjuncts before and those *)
(* of the conjunction it is in.                                            *)
(***************************************************************************)
Fresh == [before |-> {}, current |-> Row]
Value(frame) == frame.before \cup frame.current
Narrowed(frame, rows) == [frame EXCEPT !.current = @ \cap rows]
Meaning(t) == CASE t = "true" -> Row [] t = "false" -> {} [] OTHER -> Holds[t]

\* The frames once t is read inside d parentheses.
Reads(frames, d, t) ==
    CASE t = "(" -> [frames EXCEPT ![d+1] = Fresh]
      [] t = ")" -> [frames EXCEPT ![d-1] = Narrowed(@, Value(frames[d]))]
      [] t = "||" -> [frames EXCEPT ![d] = [before |-> Value(@), current |-> Row]]
      [] t = "&&" -> frames
      [] OTHER -> [frames EXCEPT ![d] = Narrowed(@, Meaning(t))]

\* The frames once the first n tokens are read.
Reading(ts) ==
    LET after[n \in 0 .. Len(ts)] ==
          IF n = 0 THEN [d \in 0 .. Len(ts) |-> Fresh]
          ELSE Reads(after[n-1], Balance(ts, n-1), ts[n])
    IN  after

RowsWhere(ts) == Value(Reading(ts)[Len(ts)][0])

\* Every parenthesis of the text is matched.
Matched(ts) ==
    /\ \A n \in 1 .. Len(ts) : Balance(ts, n) >= 0
    /\ Balance(ts, Len(ts)) = 0

\* What a caller writes: a text whose parentheses match.
Expression == { ts \in Seq(Token) : Matched(ts) }

Compiles(ts) == ts # Blank /\ \A t \in ToSet(ts) : t \in Atom => t \in DOMAIN Holds

\* The rows an expression grants by itself: none if it is blank or does not
\* compile.
Granting(ts) == IF Compiles(ts) THEN RowsWhere(ts) ELSE {}

\* An expression is misread if isWrappedExpr takes it for one in parentheses
\* although it is a disjunction: joined by && it falls apart.
Misread(ts) == IsWrappedExpr(ts) /\ \E i \in DOMAIN ts : ts[i] = "||" /\ Balance(ts, i) = 0
=============================================================================
