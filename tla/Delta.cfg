SPECIFICATION FairSpec
CONSTANTS
    Doc = {1, 2, 3, 4, 5, 6}
    Original = 1
    Changes <- MCChanges
    Passing = {1, 2, 3, 5, 6}
    Slow = {4, 6}
    Aborting = {4}
    Concurrency = 3
    InitialSkip = 2
    MaxJobs = 6
INVARIANTS
    FilesDistinct
    FinishedIsMinimal
PROPERTIES
    StepIsOneChange
    Terminates
