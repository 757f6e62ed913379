\* Overlapping ref changes: table completeness and handler termination.
CONSTANTS
    main = main
    v1 = v1
    Refs = {main, v1}
    Tags = {v1}
    InitialRef = main
    DefaultBranch = main
    LatestTag = v1
    LibraryNames <- MCLibraryNames
    Concurrency = 2
    MaxCalls = 2
SPECIFICATION Spec
INVARIANT TypeOK
INVARIANT QuiescentTableComplete
PROPERTY HandlersFinish
PROPERTY TableLoads
\* The page stays open: once the bounded calls have returned, nothing is left to do.
CHECK_DEADLOCK FALSE
