SPECIFICATION FairSpec
CONSTANTS
    OriginalVar = {1, 2, 3}
    SlackRow <- MCSlackRow
    Constraint <- MCConstraint
    Families <- MCFamilies
    BlandStart = 2
    MaxAborts = 1
    Scale = 4
    Reach = 2
INVARIANTS
    ConflictsRight
    ModelRight
    SimplexInvariant
    BoundsRight
CHECK_DEADLOCK FALSE
PROPERTY
    CheckEnds
