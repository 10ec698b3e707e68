SPECIFICATION Spec
CONSTANTS
    TheoryVar <- LearningTheoryVar
    Scripts <- LearningScripts
    Conflicts <- LearningConflicts
    GivesUp <- LearningGivesUp
    MaxChecks = 1
    MaxRemovals = 0
    MaxPropagations = 2
    MaxLemmas = 1
    MaxAssumptions = 3
    RestartAfter = 2
INVARIANTS
    LearntImplied
    ExpPositions
