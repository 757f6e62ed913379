\* Overlapping ref and token changes: what the page shows once every handler returned.
CONSTANTS
    main = main
    v1 = v1
    Refs = {main, v1}
    Tags = {v1}
    InitialRef = main
    DefaultBranch = main
    LatestTag = v1
    LibraryNames <- MCLibraryNames
    Concurrency = 1
    MaxCalls = 2
SPECIFICATION Spec
INVARIANT QuiescentViewMatchesRef
\* The page stays open: once the bounded calls have returned, nothing is left to do.
CHECK_DEADLOCK FALSE
