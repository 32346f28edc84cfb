# A TLA+ model of gorbac

gorbac (`src/`, Go) is a library for role-based access control. A program keeps
one *RBAC instance*: roles with ids, links by which a role inherits the
permissions of its parents, and permissions assigned to roles. It asks the
instance whether a role is granted a permission, and it may attach CEL filter
expressions to permissions, which the library composes and renders to SQL so
that a query returns only the rows the role may see.

This directory specifies that library in TLA+, checks the specifications with
TLC and proves the most important theorems with TLAPS.

## The system

| Part | Source | State | Operations | What is hard |
|---|---|---|---|---|
| RBAC instance | `rbac.go` | `roles`: id -> role; `parents`: id -> set of ids; an `RWMutex` | `Add`, `Remove`, `SetParents`, `RemoveParents`, `Get`, `GetParents`, `RoleIDs`, `IsGranted` | every method runs in many goroutines; `IsGranted` recurses and reads roles that have locks of their own; cycles |
| Role object | `role.go` | maps `permissions` and `filterPermissions`, a mutex, all behind pointers that are made lazily | `Assign`, `Revoke`, `Permit`, `Permissions`, `Get`, `FilterPermissions`, `PermissionsMap` | lazy initialisation without a lock; two maps that must agree; raw maps handed out |
| Permissions | `permission*.go`, `filter_permission.go` | none (values) | `ID`, `Match`, `CEL` | user types decide what matches; layers |
| Helpers | `helper.go` | none | `Walk`, `InherCircle`, `AnyGranted`, `AllGranted` | several calls, not atomic together |
| Data scope | `filter_scope.go` | none | `FilterExprsForRoles`, `NewFilterProgramFromCEL` | several calls; missing filters mean "allow all"; expressions combined as text |
| Filter engine | `filter/` | a schema, a compiled condition tree | read a schema from a struct, parse, walk, render to SQL with arguments, evaluate in memory | two readings of one expression; constants folded when it is compiled; placeholders counted while fragments are dropped |
| Example: persistence | `examples/persistence/` | two input files, two output files | load, build, add a role, save, save | files are not truncated; a crash between or inside two writes |
| Example: wrapper | `examples/rbac-wrapper/` | a repository beside an instance | update the one, then the other | an error or another caller between the two updates |

The parts interact through method calls and shared memory. A caller holds the
instance and the role objects; a role object that was removed from the instance,
or not yet added, can still be edited. `IsGranted` holds the instance's read
lock and takes the lock of each role object it comes to. The helpers and the
data scope read the instance through its public methods and hold no lock between
two of them.

What makes each part correct:

- *RBAC instance.* Its calls look atomic. No link starts or ends at an id that
  is not a role. A failing call changes nothing. Taking something away widens no
  access. A new role inherits nothing from an earlier role with its id.
  Every call returns.
- *Role object.* Its calls look atomic. Its maps are never read and written at
  once. The filter cache holds exactly the permissions with a filter.
- *Helpers, closure.* What they return was true of the instance: exactly if it
  was left alone, link by link and object by object if it was edited meanwhile.
- *Data scope.* The rows allowed are those that the filters found along the
  hierarchy allow; nothing is allowed that no policy of the meantime allowed.
- *Filter engine.* A compiled condition means what CEL says its expression
  means. SQL selects the rows that the evaluator grants, also when fragments are
  folded away, negated or put together and when columns are NULL. It reads only
  columns the table has, and an analyzer that walks the condition sees them all.
- *Examples.* What was saved without an error reads back, and what is left by a
  crash loads. The repository says what the instance says, but for links that a
  refused call named.

## Modules

| Module | Models | State and actions |
|---|---|---|
| `RoleGraph` | the `parents` map | pure operators: the three edits (`Bind`, `Unbind`, `Scrub`) and `Reach`, the ids a walk along the links comes to, as a least closed set without recursion |
| `Hierarchy` | the shared state of `rbac.go` and what each operation does to it when nothing interferes | `roles`, `parents`, `perms`; one action per effect |
| `StdRBAC` | the contract of `rbac.go` | `call`, `reply`: `Invoke`, one action per operation that takes effect and answers at one moment, `Return` |
| `StdRBACLocking` | `rbac.go` as it runs | `rw` (the mutex), `pc`, `todo` (entries left in a loop), `stack` (the active calls of `recursionCheck`), `crashed` |
| `RWMutex` | `sync.RWMutex`, external, as the code uses it | a record, with the writer that waits and blocks new readers |
| `Permissions` | the three kinds of permission | pure: ids, `Split` into layers, `Match` |
| `RoleMaps`, `RoleContract` | the map of a role object, and its contract | `granted`: one map; one action per method |
| `StdRole` | `role.go` as it runs | three pointers, the mutexes and maps they may point at, `pc`, `at` (the loop index) |
| `Helpers` | `Walk`, `InherCircle`, `collectRoleClosure` | `ids`, `frames` (the calls of the search), `seen`, `held`, `out`; `Edit` is any call of another goroutine |
| `FilterText` | the text that `filter_scope.go` puts together | pure: a text is a sequence of tokens, an atom of it has the parentheses of its calls and literals; `CombineExprs`, `WrapExpr`, `IsWrappedExpr`; `RowsWhere` reads a text from left to right, with a frame for each open parenthesis, by the grammar of CEL |
| `DataScope` | a request: `AnyGranted` or `AllGranted`, then `FilterExprsForRoles` and `NewFilterProgramFromCEL`, on top of the search of `Helpers` | `phase`, `permAt`, `roleAt` (the loops), `variants` and `exprs` (texts), `answer` |
| `FilterIR` | `filter/ir.go`, `helpers.go`, `convert.go`, `walk.go`, schema lookup, values | condition and value terms, their walk, pure operators |
| `FilterSchema` | `filter/schema_utils.go` | pure: struct fields with their tags to a schema, or an error |
| `FilterParser` | `filter/parser.go` | pure: a syntax tree to a condition, or `Rejected` |
| `FilterMeaning` | no code: what CEL says an expression means | the reference for the parser and the evaluator |
| `SQLText` | the text the renderer produces, and a database that reads it (external) | a sequence of tokens; placeholders take their arguments; a list is searched in its text, punctuation included; `Reads` gives T, F or U, with the precedence of NOT, AND and OR |
| `FilterEval` | `filter/eval.go` | pure: "true", "false" or "error" |
| `FilterRender` | `filter/render.go`, `filter/sql_predicate.go` | pure: the renderer is a record that each operator takes and returns |
| `FilterProgram` | make a schema, compile, rewrite, render, compose one WHERE clause | `schema`, `countsNamed`, `program`, `where`, `args`, `namedArgs`, `programs`, `clock` |
| `Persistence` | `examples/persistence` | `files` as sequences of cells, `pc`, the documents in memory, on the instance of `Hierarchy`; cut writes, `Exit` at any point, the user's `Edit` and `Install` |
| `Wrapper` | `examples/rbac-wrapper` | `repoRoles`, `repoParents` beside the instance of `Hierarchy`; `call`, `todo`, `at` per client |
| `Examples` | the two example programs side by side | `program`: which of them a behaviour is of |
| `HierarchyProofs`, `StdRBACProofs`, `StdRBACLockingProofs`, `StdRoleProofs`, `HelpersProofs`, `FilterTextProofs`, `DataScopeProofs`, `ExamplesProofs` | theorems and the inductive invariants they need | |

`StdRBACLocking` implements `StdRBAC` and `StdRole` implements `RoleContract`:
each instantiates its contract with a refinement mapping and the run checks the
contract's specification as a property. In both mappings an operation takes
effect when it owns the lock and has validated its arguments, and what its loop
has still to do counts as done. `Helpers` builds on the contract: a call of the
instance is one step there, because `StdRBACLocking` shows that it may be.

The modules of the filter engine use recursive operators over expressions,
conditions and texts; they are for TLC only. A renderer and
an evaluator that share no operator but the comparison of two constants are
compared through what a database makes of the text: the text is tokens and not a
tree, so that a missing parenthesis shows. The evaluator in turn is compared with
`FilterMeaning`, and so is, through it, the tree that the parser built. The texts
of `filter_scope.go` are checked in the same way, one step earlier: `DataScope`
compares the rows that the finished text selects with the policy, which is
computed from the filters one by one. Loops over a text or over texts are
recursive functions there, not operators, so that TLAPS can reason about them.

A file of `Persistence` is a sequence of cells, one for each member of the
document in the encoder's order and one for the closing brace. Writing a document
over a longer one leaves the last cells of the old; a write that is cut leaves the
first cells of the new, perhaps a garbled one, and what follows of the old.
`Wrapper` takes a role and a link for facts and compares the sets of facts on the
two sides; its history variables name the facts that a refused call or two
overlapping calls leave in doubt, until a later call that goes through alone
settles them.

`IsGranted` is the one operation that is not a single reading of the state. It
reads the hierarchy under the instance's lock but each role's permissions under
that role's lock, and `Assign` and `Revoke` may run in between. The contract
says what remains true: a grant holds at the moment it is answered; a denial
means that every role of the hierarchy was seen without the permission at some
moment of the call (`missed`), not that there was one moment when all were.

Names starting like a definition and ending in a deviation (`ScrubOthers`,
`WritersButRemove`, ...) stand before that definition and are marked *Faulty
variant*: the mistake the code could have made there. `PROJECT.json` pairs each
property with the variant that breaks it.

## Runs

| Run | Question | Instance | Result |
|---|---|---|---|
| `rbac_contract` | Does each call change exactly what it should? | 1 client, 3 ids, 4 role objects of which two share an id, 1 permission, all calls | holds; 1.9 million states |
| `rbac_locking` | Does the locked, looping, recursive code implement the contract? | 2 goroutines, 3 roles, 15 calls, stack bound 4 | holds; 0.36 million states |
| `rbac_liveness` | Does every call return? | 2 goroutines, the calls that loop, recurse, fail or hold either lock | holds |
| `rbac_cycle` | README.md:56, "absolutely safe" | as `rbac_locking` | violated |
| `role_locking` | Are the calls on an initialised role atomic and free of races? | 2 goroutines, 4 permissions (two with one id, one layered), arguments of length 0 to 2 | holds; 0.18 million states |
| `role_range` | The same with the raw filter map | as above | violated |
| `role_zero` | May an embedded zero `StdRole` be shared? | 2 goroutines, first calls | violated |
| `helpers` | What do the multi-call helpers return while the instance is edited? | 4 roles, 11 edits, one helper at a time | holds; 0.67 million states |
| `data_scope` | Which rows may a request see while the policy changes? | 3 roles, 3 rows, 2 permissions, 5 requests, 7 conditions of which two quote a parenthesis, one is a call that does and one does not compile, 13 edits of the hierarchy and the filters | holds; 0.37 million states |
| `filter_render` | Does a filter mean what CEL says, and does its SQL select what the evaluator grants? | 2 schemas and 5 refused ones, a field of each kind, 6 rows with NULLs, 3 bindings, 4 dialects, 41 expressions and 4 to join, negate or put in a further statement, callers that count named arguments and not | holds; 94 thousand states |
| `filter_args` | `filter/engine.go:234`, a fragment "and its args" | as above | violated |
| `examples` | Does what the two examples put beside an instance agree with it? | persistence: 3 ids, 3 + 3 input documents, 1 edit, 1 cut write, any number of runs and exits; wrapper: 2 clients, 6 calls, 1 failure of the repository | holds; 0.29 million states |

Why the bounds are enough. Three roles give every shape of link the operations
treat differently: chains, two ways to one role, a self link, a cycle through
one and two others; the contract's run reaches every hierarchy over them. One
client suffices for the contract, whose actions are atomic and whose properties
speak of single steps; two goroutines give every conflict over a mutex with one
owner, and the third role of that protocol, a reader that arrives behind a
waiting writer, is played by the first goroutine's next call. `Helpers` has a
fourth role so that a search can go two links deep beyond the point where two
ways meet. `MaxDepth` (4) exceeds the longest way through three roles, so that
the stack overflows only when a role is visited again.
`DataScope` uses two roles in a request and one they inherit from, the least at
which the loops over roles and over permissions and the search all go on; its
filters are two conditions, each with one half of a pair of quoted parentheses, at two role
objects, so that they look as if they stood in parentheses once the library has
joined them; one filter that looks so by itself because it ends in a call; two conditions joined
by `||`, a blank filter and one that does not compile.
Two of the extra filters have a disjunction outside parentheses.
`FilterProgram` joins two conditions, one of which is a conjunction or a
disjunction itself: the least at which a fragment is folded away inside a condition that remains, and at
which AND stands under OR, and NOT over both. The first condition of a query is
any; those after it hold the cases in which the folding differs. Integers
have three bits, so that sums overflow, and one schema has aliases of nothing and
of another alias. The rows have a NULL in each column. Strings are numbers: an empty one,
one that extends another, and the four pieces of punctuation in the text of a list, which
SQLite writes without a space.
In `examples` the documents have one role and two, so that a file shrinks and
grows, and one edit between two runs does either; one cut write can hit either
save, over a shorter, an equal or a longer file. The example programs share
nothing: a behaviour is of one of them.

The violated runs are findings:

- `rbac_cycle`: `SetParents` accepts a cycle and `recursionCheck` does not
  remember where it has been. A check that no role on the way grants never
  returns, and exhausts the stack, which ends the program.
  `OverflowOnlyOnCycle` shows that nothing else does, and
  `OverflowOnCycleOrChain` proves it for a hierarchy of any size.
- `role_range`: `FilterPermissions` returns the live map and `filterExprForRole`
  ranges over it without the role's lock. Callers who do not ask for the map are safe
  (`NoDataRaceAlways`).
- `role_zero`: `init` makes the mutex of a zero `StdRole` without a lock. Once
  one call has returned (`Warm`) the role is safe, which `role_locking` covers.
- `filter_args`: a fragment that folds to true or false has already appended its
  arguments, and keeps them in a statement that drops its text. `$1` and `@p1`
  placeholders keep their own arguments all the same (`PlaceholdersHaveArguments`),
  `?` placeholders do not. `SQLAgreesWithEvaluator` and `SQLSelectsOnlyGranted`
  therefore speak of statements whose placeholders can be bound.

Other properties hold but for cases that they exempt by name, in which the code
does something else than they say:

- `ScopeExact`, `RowsWereAllowed`: `misread`. `isWrappedExpr`
  (`filter_scope.go:225`) counts the parentheses in string literals and of calls with the
  others. It takes `(title == "(") || (title == ")")`, and
  `(title == "(") || title.contains(")")`, for an expression in parentheses and leaves it
  bare; joined by `&&` to the filter of another permission, which
  LLM_CODER_GUIDE.md:207 asks for, it selects other rows than the two filters. No
  single filter need look like this: `title == "("` of one role object and
  `title == ")"` of another are joined to it by `orAllExprs`, so that the exemption
  (and the hypothesis of `AndMeans`) is about the joined text. `Misread` is exact: what
  passes for wrapped and has an `||` outside its parentheses.
- `RowsWereAllowed`: `loosened`. A filter that is revoked between the check of the
  permission and the composition is missing, and missing filters are allow-all
  by `filter_scope.go:42-44`.
- `SQLAgreesWithEvaluator`, `SQLSelectsOnlyGranted`: `FindsPunctuation`. `exists()`, and `in` on
  SQLite, are rendered as LIKE on the text of the whole list (`filter/render.go:883-936`), so
  that `tags.exists(t, t.contains(","))` finds the comma between two tags and
  `t.startsWith("]")` the bracket behind the last; the evaluator, which LLM_CODER_GUIDE.md:215
  calls the in-memory counterpart, tests the elements. Without the exemption both are violated.
- `PlaceholdersHaveArguments` and the two above: `SharesNames`. With named arguments `Args` is
  empty, as `postgres_named_args_test.go:29` expects, so that the
  `PlaceholderOffset: len(stmt1.Args)` of LLM_CODER_GUIDE.md:227 stays 0 and two statements both call their
  first argument `p1`. The queries of a caller who counts the named arguments too (`countsNamed`)
  are not exempt. Without the exemption `PlaceholdersHaveArguments` is violated.
- `SQLSelectsOnlyGranted`: `NullIsNotTrue`. SQLite's `NOT(x IS TRUE)` selects a
  missing JSON boolean that must be false. The rows without that boolean are exempt when the program
  compares it with something other than `true`; NULLs in other columns are not.
- `SQLAgreesWithEvaluator`, `ColumnsExist`: `MatchesAlias`. `contains()`,
  `startsWith()` and `endsWith()` render the alias's own column.
- `SQLAgreesWithEvaluator`: `OrdersBooleans`, and `ForbiddenOpsOnlyTurned`: the operators that a schema
  allows are looked up for the left operand only.
- `ConditionMeansExpression`: expressions that do not `Fits`. Unsigned constants
  wrap, doubles lose their fraction, and sums overflow silently.
- `WrapperAgrees`: `doubtful`. The wrapper's `SetParents` and `RemoveParents`
  change the repository before the instance has looked at the ids.

## Fairness

`rbac_liveness` assumes weak fairness of each goroutine that is inside a call
(the Go scheduler runs a runnable goroutine again and again) and strong fairness
of acquiring the mutex for writing (a `sync.Mutex` hands itself over in arrival
order once a waiter starves for a millisecond). Nobody is assumed to make a
call. `helpers` assumes weak fairness of the helper's own steps only; edits may
go on for ever.

## Proofs

Every theorem is about all values of the constants: any number of goroutines,
ids, role objects and permissions, any set of calls, and hierarchies of any
shape, cyclic ones included.

`HierarchyProofs` proves what `Reach` is (it starts at its root, is closed, is
least, is transitive and monotone) and the exact effect of each edit on it:
`UnbindNarrows`, `ScrubNarrows`, `BindExact`, `FreshIsolated`; that an edit made
entry by entry comes to the same; and that every edit keeps `HierarchyTypeOK` and
`Consistent`. They hold for every graph, finite or not. The
modules that follow rest on them.

`StdRBACProofs` proves of the contract:

- `TypeCorrect`: `TypeOK` is inductive as it stands.
- `NoDanglingParentsAlways`: `Consistent` is inductive relative to `TypeOK`. The
  first conjunct (a role is registered under its own id) is what `AddRole` needs;
  the other two need `Remove` to scrub every entry and `SetParents` to
  validate every id.
- `ErrorsChangeNothingAlways`, `RemovalNarrowsAlways`, `AddIsolatedAlways`,
  `SetParentsExactAlways`: the action properties. `EffectStep` says which action
  answered a call, and the lemma of `HierarchyProofs` on that edit does the rest.
  `AddIsolated` needs `NoDanglingParents`: without it a link left behind by a
  removed role would be inherited by the next role with its id.

`StdRBACLockingProofs` proves of the code as it runs:

- `TypeCorrect`: types, and `MutexInv`, which says who is in the mutex's queues and at
  which steps: it has one owner at most, and an edit has no reader beside it.
- `EditsExcludeAlways`. The inductive invariant `IInv` says, besides these, which step goes with which
  call (`ControlInv`), what the loops have done (`LoopInv`: without it a `Remove`
  could leave an entry it has passed), that no role object is registered twice
  (`RegisteredInv`), and what the recursion has seen and has ahead of it
  (`WalkInv`: the parents of each role it has seen are seen or on the stack, which
  makes a denial complete).
- `LinearizesCallsAlways`: the code implements the contract. There is one lemma for
  each action: under the mapping it is the contract's action or a stutter.
  `EffectiveInv` says what `parents` will be once the loop in progress has ended. The
  contract's properties hold of the code through this theorem, read for the
  hierarchy of the mapping.
- `OverflowOnCycleOrChain`: the stack overflows only in a hierarchy with a cycle or
  with more roles than the stack takes calls. The active calls are a path
  (`PathInv`), and a path without a repetition is no longer than there are roles.
  `OverflowOnlyOnCycleAlways` takes `Cardinality(ID) <= MaxDepth` for granted, as
  the run does: Go's stack takes millions of calls.

`StdRoleProofs` proves of `role.go`, for a role object that is not a zero `StdRole`
shared from its first call on (`"Zero" \notin Starts`, which `role_zero` gives up):
`TypeCorrect`, `NoFatalUnlockAlways`, `CacheMatchesAlways`, and
`NoDataRaceAlways` for callers who do not ask for the raw map (which `role_range`
gives up). The invariant follows the pointers while one call makes them
(`InitialisedInv`), the steps of each call (`ControlInv`), the queues of the mutex
the object has got (`MutexInv`), the one permission whose cache entry may lag behind
(`CacheInv`) and what a `Permit` has covered (`PermitInv`).
Its last part proves the refinement, `LinearizesRoleCallsAlways`: a loop's remaining
iterations, counted as done, make the map of the contract, and one iteration leaves
what is counted unchanged.

`HelpersProofs` proves all safety properties of `helpers`: `TypeCorrect`,
`WalkCompleteAlways`, `NotExistMeansRemovedAlways`, `CircleExactAlways`,
`CircleWasLinkedAlways` and `ClosureExactAlways`. The parts of its invariant:

- `ControlInv`, `HeldInv`, `HistoryInv`: what is left empty when; that the object in
  hand is of the id that was asked for; that the history holds what there is.
- `KnownInv`: an id to look at is a role or has been removed, so that
  `ErrRoleNotExist` comes of a removal.
- `WalkInv`: each id of the snapshot is still to take, in hand, or in one pair.
- `PathInv`: the stack of `InherCircle` is a path of links that existed.
- `CircleInv`: in an instance left alone, an id that is neither on the stack nor
  still to be searched leads to no circle. This is why it suffices to look at the
  stack, and to forget an id once its search has ended. `NoCircleAbove` is the
  step: an id whose parents lead to no circle leads to none.
- `ClosureInv`, `WaitingInv`: what the search of the closure has visited leads only to
  what is visited, in hand or in a list; when nothing is left, it is closed, and
  `ReachLeast` makes it the ancestors.

`FilterTextProofs` proves what the joined texts of `filter_scope.go` mean, for filters
of any length and any number:

- `RoleTextMeans`: the text of a role compiles exactly when its filters do or one of them
  decides alone, and is true of the rows that the filters on every permission grant,
  unless what was joined on one of several permissions is misread. `OrMeans` and `AndMeans` say the same
  of `combineExprs`: dropping the identity, stopping at the annihilator and wrapping
  all but what looks wrapped change no meaning.
- `ExtraMeans`: several extra filters are one text, true of the rows that each of them
  is true of.

The argument: a text that stands inside another, where the conjunction it is in is
still all rows (`Embedding`), is read there as it is by itself, frame by frame, for as
long as its parentheses match; a text that is in parentheses (`Closed`) leaves the
disjuncts before it alone wherever it stands. A text that `isWrappedExpr` takes for
wrapped need not be closed, as the first and the last parenthesis may be in atoms; if it is not
misread it has no `||` outside parentheses (`NoOuterOr`), and needs none of its own. What the loops give is
proved by `Induction` over sets of numbers and `Recursion`, since the induction theorems
of the library take an operator.

`DataScopeProofs` proves all properties of `data_scope`. Of the check:
`AllGrantedWasGrantedAlways` (each permission was granted to one of the
roles at some moment of the call) and, in an instance left alone,
`CheckExactAlways`. The invariant says what the roles and permissions before the
current ones have shown; a role object that was seen without the permission still
lacks it when nobody edits. Of the rows: `ScopeTypeCorrect`, `ScopeExactAlways` and
`RowsWereAllowedAlways`. The invariant `KindsInv /\ RowsInv` was checked by TLC on the
instance of `data_scope` first. Its parts:

- `KindsInv`: the types, that a search runs for the role the request is at, and that
  what was collected for one role is gone when the next is begun (`RequestInv`, `VisitInv`).
- `AllowedInv`: what the policy allows now is in the history.
- `ClosingInv`: while nothing is taken away, what a search has visited and has still to
  visit is inherited by its root. No invariant on the present hierarchy says that it
  will visit enough, since a link may be added behind the search: `Snapshot` says
  that it visits all that the root reached *when the root was visited*, in a hierarchy
  that is part of the present one, and that on each permission some role of it has a
  filter, or all rows were allowed then. So a permission on which nothing is found
  was without a filter at some moment of the composition.
- `FoundInv`: the same of what was found in some of the role objects (`Collected`).
- `TextsInv`: each text selects what was allowed to one role on every permission and, in
  an instance left alone, means what the policy says of its role. It is made from
  `FoundInv` by `RoleTextMeans` when the last role object is read.

`ExamplesProofs` proves every property of `examples`, for all documents, any number of
runs, edits and cut writes, and any number of clients and refused calls:
`TypeCorrect`, `SavedReadsBackAlways`, `RunKeepsEverythingAlways`,
`MixedPairLoadsAlways` and `WrapperAgreesAlways`.

- `SavedReadsBack` rests on `SaveReadsBack`: what is written over a file is what the
  file starts with (`OverwriteStarts`), and the decoder stops at the first closing
  brace, so that what is left behind it does not count. The encoder writes each key
  once; the ids in its order are a sequence because a set of ids has one with their
  number of places (`FiniteSetTheorems`).
- `RunKeepsEverything`: the loops of `main` leave nothing out (`LoopsInv`), the instance
  holds what they have taken (`InstanceInv`), and the output documents what the
  instance holds (`OutputInv`).
- `MixedPairLoads` is not inductive: the links may be those of an earlier run. `MixInv`
  adds that, unless the user drops roles, `roles.json` and the run in progress know
  every role but `nobody` that saved links name, and every run saves `nobody`.
- `WrapperAgrees` speaks only of facts that no call in progress is about. `AgreeInv` extends
  it to those of a call that has not come to them, and `ClientInv` says of the others what the repository
  holds for the call, unless a call that overlapped it has the same fact
  (`shared`). When a call ends, what it leaves is agreed upon or in doubt.

The assumptions are those of the modules and say that constants are of the right
kinds: `IdOfAssumption`, `RequestsAssumption`, `OwnerAssumption`,
`HelpersAssumption`, `DataScopeAssumption` and `FilterTextAssumption` (a request is one of
the checks with sequences of roles and permissions; the parentheses of a filter match; an atom that begins or ends
with a parenthesis has it among its own), those of `RoleMaps`,
`PersistenceAssumption` (the encoder has an order for the ids, and the values that
stand for a file's end, a torn cell and no document differ from documents) and
`WrapperAssumption`. The hypotheses
named above stand in the theorems that need them.

Checked by TLC only: the seven properties of `FilterProgram`, and all liveness. The
parser, the renderer and the evaluator are RECURSIVE operators over trees, which the
prover does not support in any module that a theorem is about; liveness under fairness
and `ENABLED` are out of its reach.

## Not modelled

- Panics of user code (a nil role or permission, a panicking `Match`), and calls
  back into the instance from `Permit` or `Match`: both keep a lock for ever, and
  both are the caller's code.
- A link between the two views of a role's grants: for `Hierarchy`, `Assign` and `Revoke` are
  union and difference of sets, while the replacement of a permission by another with its id and the
  `Match` of layers are in `StdRole` alone. No refinement relates them, so `RemovalNarrows` says nothing
  of a permission that matches others.
- Time and memory: the search of `InherCircle` ends but may take exponential time.
- The Go memory model beyond what `NoDataRace` says: `role_zero` lets a racing
  read see the old or the new pointer, not a torn one.
- In the filter engine: CEL's own parser and type checker (a syntax tree is given,
  and an undeclared name is refused), struct types that contain themselves, table
  qualifiers and aliases, expressions that
  wrap a column, floats and timestamps other than as integers, quotes, backslashes, letter
  case and wildcards in strings. A predicate's template has no OR or AND outside
  parentheses (`ProgramAssumption`), and its Eval function agrees with it. A row
  with a NULL for which the evaluator returns an error is not compared.
- White space in filter expressions, which counts for nothing to either reader, and
  filters whose parentheses do not match (`Expression`): by themselves they do not
  compile. An operator without an operand is not refused by the model's reader.
- Files that lose data with the power, and bytes of a cut write that happen to
  spell another member: a garbled cell is unreadable. No property speaks of a
  file whose last write was cut, other than that the next save repairs it.
- A repository whose methods run at once: `Wrapper` takes them to be atomic, which
  `memoryRepo` is for one caller only.
- `examples/user-defined` and `examples/test-project`: straight-line programs that
  call the library once and print.

## Plan

1. Done: the contract, the locking, the role object, the permissions, the helpers
   and the closure, the data scope and its texts, the schema, the parser, the
   renderer and the evaluator, the examples.
2. Done: the invariants and action properties of the contract, both refinements,
   the locking with its depth, the role object, the helpers, the permission checks,
   the texts of the filters and the rows they select, the examples.
3. Left: `FilterIR` and `FilterSchema` without RECURSIVE operators, so that lemmas on
   single conditions can be proved; `NoDanglingParents` stated of the code itself,
   through the refinement.
