SPECIFICATION Spec
CONSTANTS
    Var <- MCVar
    Literal <- MCLiteral
INVARIANTS
    VersionsExact
    SubsetsMinimal
    AnswerExact
    ModelRight
CHECK_DEADLOCK FALSE
