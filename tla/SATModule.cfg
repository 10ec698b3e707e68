SPECIFICATION FairSpec
CONSTANTS
    TheoryVar <- MCTheoryVar
    Scripts <- MCScripts
    Conflicts <- MCConflicts
    GivesUp <- MCGivesUp
    MaxChecks = 2
    MaxRemovals = 2
    MaxPropagations = 1
    MaxLemmas = 1
    MaxAssumptions = 3
    RestartAfter = 1
INVARIANTS
    UnsatRight
    SatRight
    NoFalsified
    PassedFormulaCorrect
PROPERTY
    CheckEnds
