--------------------------- MODULE FilterProgram ---------------------------
(***************************************************************************)
(* The life of a query with row filters: a schema is read from a model of  *)
(* the table, filters are compiled against it (engine.go), joined to       *)
(* programs (helpers.go), rendered, and the statements put into one WHERE  *)
(* clause.  LLM_CODER_GUIDE.md:219-231 shows how, and gives a statement    *)
(* the number of the Args before it for its PlaceholderOffset.  Args is    *)
(* empty with named arguments, so that a caller may count these too        *)
(* (countsNamed) or go by the guide.  The same programs can be evaluated   *)
(* on a row in memory.                                                     *)
(***************************************************************************)
EXTENDS FilterMeaning, FilterSchema

CONSTANTS
    Models,      \* [table, fields, stored]: a struct, and the columns of its names
    Sources,     \* what the engine compiles first in a query
    Others,      \* what it compiles after that
    Dialects,    \* the dialects, each with the style of its placeholders
    Bindings,    \* the values of the parameters
    Times,       \* bound: what the clock may show
    Row,         \* the rows of the table: a value in each of its columns
    MaxParts     \* bound: how many filters a query is made of

ASSUME ProgramAssumption ==
    /\ Dialects \subseteq {<<"sqlite", "?">>, <<"mysql", "?">>, <<"postgres", "$">>, <<"postgres", "@">>}
    /\ \A m \in Models : \A row \in Row : \A f \in DOMAIN m.stored : m.stored[f] \in DOMAIN row
    /\ MaxParts \in Nat
    /\ { d[1] : d \in Dialects } \subseteq DOMAIN Punctuation
    /\ \A p \in DOMAIN Predicates : \A d \in DOMAIN Predicates[p].sql :
          TopLevel(Predicates[p].sql[d], "OR") \cup TopLevel(Predicates[p].sql[d], "AND") = {}

VARIABLES
    stored,      \* where the table has what the names of the model stand for
    dialect,     \* the dialect of the query
    countsNamed, \* its caller counts named arguments as well
    bindings,    \* the parameters of the query
    clock,       \* the time
    program,     \* the program that is being built, or NoProgram
    parts,       \* how many filters have been compiled
    programs,    \* the programs that have been rendered
    where,       \* the text of the WHERE clause, empty if there is none
    args,        \* its arguments
    namedArgs,   \* those that have names, by the number in the name
    failed       \* compiling or rendering returned an error

given == <<schema, stored, dialect, countsNamed, bindings>>
fpvars == <<given, clock, program, parts, programs, where, args, namedArgs, failed>>

\* A program, with the expression it was compiled from and when.
Program(source, at, cond) == [source |-> source, at |-> at, cond |-> cond]
NoProgram == Program(NoTarget, 0, Rejected)

Schemas == { m \in Models : SchemaFromStruct(m.table, m.fields).ok }

Init ==
    /\ \E m \in Schemas : /\ schema = SchemaFromStruct(m.table, m.fields).fields
                          /\ stored = m.stored
    /\ dialect \in Dialects /\ countsNamed \in {TRUE, dialect[2] # "@"}
    /\ bindings \in Bindings /\ clock = Min(Times)
    /\ program = NoProgram /\ parts = 0 /\ programs = {}
    /\ where = <<>> /\ args = <<>> /\ namedArgs = <<>> /\ failed = FALSE

\* The names of an expression that the environment of the engine declares: the
\* fields of the schema, the parameters and the variables of the macros.
Declared(t) ==
    \A u \in Subterms(t) : u.ast = "ident" => Known(u.name) \/ u.name \in DOMAIN bindings \cup {"x", "unbound"}

\* Engine.Compile
Compile(t) ==
    LET cond == IF Declared(t) THEN BuildCondition(t, clock) ELSE Rejected IN
    /\ ~failed /\ program = NoProgram /\ parts < MaxParts
    /\ t \in IF parts = 0 THEN Sources ELSE Others
    /\ failed' = (cond = Rejected)
    /\ program' = IF cond = Rejected THEN NoProgram ELSE Program(t, clock, cond)
    /\ parts' = parts + 1
    /\ UNCHANGED <<given, clock, programs, where, args, namedArgs>>

\* Compile hooks rewrite the condition: join another to it, or negate it.
Extend(t) ==
    LET c == BuildCondition(t, clock)
        extended(fn, cond) == Program(Binary(fn, program.source, t), clock, cond)
    IN  /\ ~failed /\ program # NoProgram /\ parts < MaxParts /\ Declared(t) /\ c # Rejected
        /\ program' \in { extended("and", CondAnd(<<program.cond, c>>)),
                          extended("or", CondOr(<<program.cond, c>>)) }
        /\ parts' = parts + 1
        /\ UNCHANGED <<given, clock, programs, where, args, namedArgs, failed>>

Negate ==
    /\ ~failed /\ program # NoProgram /\ program.cond.op # "NOT"
    /\ program' = Program(Call("not", <<program.source>>), clock, Not(program.cond))
    /\ UNCHANGED <<given, clock, parts, programs, where, args, namedArgs, failed>>

\* RenderSQL with the number of arguments so far as PlaceholderOffset; a
\* fragment without text restricts nothing, and a named argument replaces an
\* earlier one of its name.  Meanwhile time passes.
RenderSQL ==
    LET offset == Len(args) + IF countsNamed THEN Cardinality(DOMAIN namedArgs) ELSE 0
        r == Renderer(dialect[2], dialect[1], offset, bindings)
        stmt == Statement(program.cond, r)
        part == IF stmt.sql = <<>> THEN <<>> ELSE <<Parens(stmt.sql)>>
        whole == IF where = <<>> THEN <<>> ELSE <<where>>
    IN  /\ ~failed /\ program # NoProgram
        /\ failed' = ~stmt.ok
        /\ where' = Join(whole \o part, "AND")
        /\ args' = args \o stmt.args
        /\ namedArgs' = stmt.namedArgs @@ namedArgs
        /\ programs' = programs \cup {program}
        /\ program' = NoProgram
        /\ clock' \in { time \in Times : time >= clock }
        /\ UNCHANGED <<given, parts>>

\* The query has been run.
Done ==
    /\ failed \/ (program = NoProgram /\ programs # {})
    /\ clock' = Min(Times)
    /\ program' = NoProgram /\ parts' = 0 /\ programs' = {}
    /\ where' = <<>> /\ args' = <<>> /\ namedArgs' = <<>> /\ failed' = FALSE
    /\ UNCHANGED given

Next ==
    \/ \E t \in Sources \cup Others : Compile(t)
    \/ \E t \in Others : Extend(t)
    \/ Negate \/ RenderSQL \/ Done

Spec == Init /\ [][Next]_fpvars

-----------------------------------------------------------------------------
\* What IsCondGranted is given for a row: the values of its fields, which its
\* aliases share, and the parameters.
Given(row) ==
    [x \in DOMAIN stored \cup DOMAIN bindings |->
        IF x \in DOMAIN bindings THEN bindings[x] ELSE row[stored[x]]]

Verdicts(row) == { EvaluateCondition(p.cond, Given(row)) : p \in programs }

Rendered == programs # {} /\ ~failed

\* What the placeholders of the query stand for.
Values == IF dialect[2] = "@" THEN namedArgs ELSE args

\* A query of several filters may use a name twice, for different values, if
\* its caller goes by the guide.
SharesNames == ~countsNamed /\ parts > 1

\* The database runs a query that reads columns of the table only.
InTable(ts) == \A row \in Row : Columns(ts) \subseteq DOMAIN row
Runs == Rendered /\ ~SharesNames /\ Bindable(where, Values) /\ InTable(where)
Selects(query, row) == query = <<>> \/ Reads(query, row) = "T"
Complete(row) == \A c \in DOMAIN row : row[c] # Null

\* What a visitor of the programs sees: the nodes, and the fields they name.
Nodes == UNION { ToSet(WalkCondition(p.cond)) : p \in programs }
IsOp(n, op) == "op" \in DOMAIN n /\ n.op = op
FieldsSeen ==
    { n.field : n \in { m \in Nodes : "field" \in DOMAIN m } }
      \cup { n.name : n \in { m \in Nodes : "e" \in DOMAIN m /\ m.e = "field" } }
TemplatesSeen == { Template(Predicates[n.name], dialect[1]) : n \in { m \in Nodes : IsOp(m, "sql") } }
FieldsInTemplates == UNION { Columns(ts) : ts \in TemplatesSeen }

\* The columns of a field and of what it is an alias for.
AliasOf(f) == IF f \in DOMAIN schema THEN {f, schema[f].target} ELSE {}
ColumnsOf(f) == { schema[g].column : g \in AliasOf(f) \cap DOMAIN schema }

\* A boolean is ordered with the field on the right, where the parser looks
\* for no operator that the schema forbids; the evaluator orders no booleans.
OrdersBooleans ==
    \E n \in Nodes : IsOp(n, "compare") /\ n.cmp \notin Equality /\ n.right.e = "field"
                    /\ schema[n.right.name].type = "bool"

\* A string is matched with an alias, whose own column is not one of the table
\* (render.go:991, 1022, 1053); the evaluator matches no list.
MatchesAlias == \E n \in Nodes : IsOp(n, "matches") /\ schema[n.field].kind = "virtual_alias"

\* Some pattern that the query looks for in a list is found in the punctuation
\* of the text of this row's list, and in none of its strings; the query asks
\* of an empty list that it has any.
FindsPunctuation(query, row) ==
    \E t \in ToSet(query) :
        /\ IsAtom(t) /\ t.rel = "HAS LIKE" /\ Truth(t, row) = "T"
        /\ LET elems == row[t.operand.column].elems IN
              elems # <<>> /\ \A s \in ToSet(elems) : ~Like(t.args[1], s)

\* On a row without NULL the query selects exactly what the evaluator grants,
\* which then has no error (LLM_CODER_GUIDE.md:214-215, render.go, eval.go),
\* unless it finds punctuation (render.go:905-936).
SQLAgreesWithEvaluator ==
    (Runs /\ ~OrdersBooleans /\ ~MatchesAlias) =>
        LET query == Bind(where, Values) IN
        \A row \in Row : Complete(row) =>
            /\ "error" \notin Verdicts(row)
            /\ FindsPunctuation(query, row) \/ (Selects(query, row) <=> Verdicts(row) = {"true"})

\* SQLite renders a JSON boolean that must be false as NOT(x IS TRUE), which
\* holds for NULL, unlike the comparison of the other dialects and of eval.go.
NullIsNotTrue(row) ==
    /\ dialect[1] = "sqlite"
    /\ \E n \in Nodes : /\ IsOp(n, "compare") /\ Lit(Bool(TRUE)) \notin {n.left, n.right}
                        /\ \E e \in {n.left, n.right} :
                              e.e = "field" /\ HasKind(e.name, "json_bool") /\ row[stored[e.name]] = Null

\* Whatever else is NULL, the query selects no row that the evaluator denies:
\* NOT and comparisons are three-valued in SQL only (render.go:348-360,
\* 464-510, eval.go:116-125).
SQLSelectsOnlyGranted ==
    Runs => LET query == Bind(where, Values) IN
            \A row \in Row :
                (Selects(query, row) /\ ~NullIsNotTrue(row) /\ ~FindsPunctuation(query, row))
                    => "false" \notin Verdicts(row)

\* Numbered and named placeholders stand for an argument each, and no two of
\* them, of one fragment or of several, for the same (render.go:1063-1080),
\* unless the caller counts Args only, as LLM_CODER_GUIDE.md:224-228 does, and
\* has named arguments, which are not in Args (render.go:78-84).
PlaceholdersHaveArguments ==
    (Rendered /\ dialect[2] # "?" /\ ~SharesNames) =>
        /\ Bindable(where, Values)
        /\ IsInjective(FlattenSeq([i \in DOMAIN where |-> MarksOf(where[i])]))

\* The verdict on an object is what CEL says of the expression and the object
\* at the time of compilation, for every expression that fits: && and ||,
\* folded constants, aliases and parameters of parser.go, hooks, and eval.go.
ConditionMeansExpression ==
    \A p \in programs \cup ({program} \ {NoProgram}) : \A row \in Row :
        LET meant == Means(p.source, Given(row), p.at)
            found == EvaluateCondition(p.cond, Given(row))
        IN  (meant.type = "bool" /\ found # "error" /\ Fits(p.source, Given(row), p.at))
                => found = Verdict(meant = Bool(TRUE))

\* What an analyzer sees that walks a program (walk.go, engine.go:153-167) is
\* all that the query reads: the fields, or those of a template it meets.
WalkVisitsWhatIsRendered ==
    Rendered => Columns(where) \subseteq UNION { ColumnsOf(f) : f \in FieldsSeen \cup FieldsInTemplates }

\* The query reads columns that the table has, unless a string is matched with
\* an alias, or an alias is one of an alias, and whatever tag of the model
\* names the column (schema_utils.go:379-400, render.go:362-462).
ColumnsExist ==
    Rendered =>
        \/ InTable(where) \/ MatchesAlias
        \/ \E f \in FieldsSeen \cup FieldsInTemplates : \E g \in AliasOf(f) \cap DOMAIN schema :
                g # f /\ schema[g].kind = "virtual_alias"

\* A query compares a column with an operator that no field of that column is
\* allowed only if the expression has the field on the right (parser.go:178),
\* or in a predicate, or is the field itself.
ForbiddenOpsOnlyTurned ==
    Rendered =>
        \A t \in ToSet(where) :
            (ReadsColumn(t) /\ t.rel \in Comparisons /\ t.operand.as = "value") =>
                \/ \E f \in DOMAIN schema : t.operand.column \in ColumnsOf(f) /\ t.rel \in schema[f].ops
                \/ \E f \in FieldsInTemplates : t.operand.column \in ColumnsOf(f)
                \/ \E n \in Nodes :
                      \/ IsOp(n, "predicate") /\ t.operand.column \in ColumnsOf(n.field)
                      \/ /\ IsOp(n, "compare") /\ n.right.e = "field" /\ t.rel = Inverted(n.cmp)
                         /\ t.operand.column \in ColumnsOf(n.right.name)

\* The statement has an argument for each placeholder and no other
\* (filter/engine.go:234).  Violated by the code: a fragment that is folded
\* away leaves the arguments that it has already added.
ArgumentsMatchPlaceholders ==
    (Rendered /\ dialect[2] = "?") => Bindable(where, args)
=============================================================================
