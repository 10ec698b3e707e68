SPECIFICATION Spec
CONSTANTS
    a = a
    b = b
    c = c
    Formula = {a, b, c}
    NumberOfBackends = 2
    Suits <- MCSuitsSwapped
    Conflict = {{a, b}}
    Parallel = TRUE
INVARIANTS
    AnswerSound
