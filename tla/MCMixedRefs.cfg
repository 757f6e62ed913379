\* Downloads racing a ref change.
CONSTANTS
    main = main
    v1 = v1
    Refs = {main, v1}
    Branches = {main}
    DefaultBranch = main
    LibraryNames <- MCLibraryNames
    MaxClicks = 3
    MaxMoves = 1
    MaxRenders = 1
SPECIFICATION Spec
INVARIANT DeliveredFromOneCommit
