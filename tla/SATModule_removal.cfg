SPECIFICATION Spec
CONSTANTS
    TheoryVar <- RemovalTheoryVar
    Scripts <- RemovalScripts
    Conflicts <- RemovalConflicts
    GivesUp <- LearningGivesUp
    MaxChecks = 2
    MaxRemovals = 1
    MaxPropagations = 0
    MaxLemmas = 0
    MaxAssumptions = 3
    RestartAfter = 2
INVARIANT
    RemovalUndone
