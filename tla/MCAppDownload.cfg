\* Row downloads and Download All racing ref changes and cancels.
CONSTANTS
    main = main
    v1 = v1
    Refs = {main, v1}
    Branches = {main}
    DefaultBranch = main
    LibraryNames <- MCLibraryNames
    MaxClicks = 2
    MaxMoves = 1
    MaxRenders = 1
SPECIFICATION Spec
INVARIANT TypeOK
INVARIANT ZipHasEveryLibrary
INVARIANT RowButtonMatchesRuns
PROPERTY ButtonsReenabled
