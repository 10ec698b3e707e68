SPECIFICATION Spec
CONSTANTS
    Atom = {a, b, c}
    Objective = {o, p}
    IntegerValued = {p}
    MaxConjuncts = 2
    MaxLevels = 3
    MaxVars = 2
INVARIANTS
    BacktrackPointsValid
    BackendInSync
    ObjectiveVarsDistinct
PROPERTIES
    ImplementsStack
