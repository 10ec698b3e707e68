SPECIFICATION FullSpec
CONSTANTS
    Atom = {a, b, c}
    Objective = {o, p}
    IntegerValued = {p}
    MaxConjuncts = 2
    MaxLevels = 2
    MaxVars = 2
INVARIANTS
    ToldOnlyListed
