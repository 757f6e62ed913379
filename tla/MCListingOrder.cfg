\* The CLI's listing order against the Git trees order.
CONSTANTS
    Dirs <- MCDirs
    Segments <- MCSegments
    MaxSegments = 5
    LineTexts <- MCLineTexts
    MaxLines = 4
    Argvs <- MCArgvs
    DepNames <- MCDepNames
    RepoRoot = "/r"
    Alphabet <- MCAlphabet
SPECIFICATION Spec
\* The enumeration of inputs ends at MaxSegments segments or MaxLines lines,
\* the listTree states have no steps, and main ends by exiting.
CHECK_DEADLOCK FALSE
INVARIANT ListTreeInGitOrder
