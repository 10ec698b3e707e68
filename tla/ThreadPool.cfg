SPECIFICATION FairSpec
CONSTANTS
    MaxTasks = 3
    MaxModules = 2
INVARIANTS
    SlotOwnership
    ModulesQuiescent
    VerdictFaithful
PROPERTIES
    CallReturns
    DestructorEnds
