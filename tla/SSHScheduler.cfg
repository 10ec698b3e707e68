SPECIFICATION FairSpec
CONSTANTS
    Networks <- MCNetworks
    JobLists <- MCJobLists
    BinaryName <- MCBinaryName
    MaxFailures = 1
INVARIANTS
    ChannelFree
    RunsOwnBinary
    AllStored
PROPERTIES
    Ends
