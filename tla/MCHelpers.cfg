\* joinPath, countLoc and listTree against their reference definitions, and the CLI's main.
CONSTANTS
    Dirs <- MCDirs
    Segments <- MCSegments
    MaxSegments = 5
    LineTexts <- MCLineTexts
    MaxLines = 4
    Argvs <- MCArgvs
    DepNames <- MCDepNames
    RepoRoot = "/r"
    Alphabet <- MCAlphabet
SPECIFICATION Spec
INVARIANT JoinPathNormalizes
INVARIANT CountLocMatchesSpec
INVARIANT ListTreeIsSortedWalk
INVARIANT CliTypeOK
PROPERTY MainImplementsContract
\* The enumeration of inputs ends at MaxSegments segments or MaxLines lines,
\* the listTree states have no steps, and main ends by exiting.
CHECK_DEADLOCK FALSE
