CONSTANTS
    MaxInt = 3
    Match <- MCMatch
    Punctuation <- MCPunctuation
    Predicates <- MCPredicates
    Models <- MCModels
    Sources <- MCSources
    Others <- MCOthers
    Dialects <- MCDialects
    Bindings <- MCBindings
    Times = {1, 3}
    Row <- MCRow
    MaxParts = 2
SPECIFICATION Spec
INVARIANTS
    SQLAgreesWithEvaluator
    SQLSelectsOnlyGranted
    PlaceholdersHaveArguments
    ConditionMeansExpression
    WalkVisitsWhatIsRendered
    ColumnsExist
    ForbiddenOpsOnlyTurned
