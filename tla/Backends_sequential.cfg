SPECIFICATION Spec
CONSTANTS
    a = a
    b = b
    c = c
    Formula = {a, b, c}
    NumberOfBackends = 2
    Suits <- MCSuits
    Conflict = {{a, b}}
    Parallel = FALSE
INVARIANTS
    PassedIsPrefix
    BackendsToldPassed
    AnswerSound
    UnsatStaysRight
    ModelIsFresh
