------------------------------ MODULE MCHelpers ------------------------------
(***************************************************************************)
(* The sequential parts, each checked in its own initial states (part):    *)
(* joinPath and countLoc against their reference definitions, with steps  *)
(* that extend the input (as in MCAmalgamationPaths and MCLineCounter);   *)
(* the CLI's listTree over every checkout of MCCli (no steps); and the    *)
(* CLI's main over every command line of up to three tokens.               *)
(***************************************************************************)
EXTENDS Naturals, Sequences

CONSTANTS Dirs, Segments, MaxSegments, LineTexts, MaxLines,
          Argvs, DepNames, RepoRoot, Alphabet

VARIABLES part, dir, rel, lines, eol,
          fs, argv, args, pc, libraries, i, written, exitCode

cliVars == <<fs, argv, args, pc, libraries, i, written, exitCode>>
vars == <<part, dir, rel, lines, eol, cliVars>>

Paths == INSTANCE MCAmalgamationPaths
Loc   == INSTANCE MCLineCounter
Cli   == INSTANCE MCCli

\* The directories of the model repository's target-library files.
MCDirs == { <<"Libraries", "Foo">>, <<"Libraries", "Foo", "Internal">> }

\* A name, a name that exists in the tree, and the special segments.
MCSegments == { "a", "Foo.h", ".", "..", "" }

\* Trimmed-to-code, comment, opener, closer, blank and whitespace lines.
MCLineTexts ==
    {"", "  ", "x;", " // c", "/* c", "/* c */", "c */", "x; /* c", "*/ x;"}

\* The characters of the names of MCCli's checkouts, in code-unit order.
MCAlphabet == << ".", "/", "B", "C", "E", "F", "I", "L", "P", "S", "a", "b", "c", "e",
                 "g", "h", "i", "j", "l", "n", "o", "p", "r", "s", "t", "u", "x" >>

\* Command lines of up to three tokens.
MCTokens == {"--all", "--library", "--out", "-h", "Foo", "--ref", "--repo-root"}
MCArgvs  == UNION {[1 .. n -> MCTokens] : n \in 0 .. 3}

MCDepNames == << "Foo", "Bar" >>

\* The checkout main runs in: every optional entry present and readable.
CliCheckout == Cli!Checkout([foo_h |-> "file", foo_cpp |-> "file", sub |-> "dir",
                             internal |-> "dir", extra |-> "dir", orderFile |-> "file"])

NoPath == /\ dir = << >> /\ rel = << >>
NoText == /\ lines = << >> /\ eol = "\n"
NoCli  == /\ fs = CliCheckout /\ Cli!CliInit /\ argv = << >>

Init ==
    \/ part = "joinPath" /\ Paths!Init /\ NoText /\ NoCli
    \/ part = "countLoc" /\ Loc!Init /\ NoPath /\ NoCli
    \/ part = "listTree" /\ NoPath /\ NoText /\ Cli!CliInit /\ argv = << >>
                       /\ fs \in Cli!MCCheckouts
    \/ part = "cli" /\ NoPath /\ NoText /\ fs = CliCheckout /\ Cli!CliInit

Next ==
    \/ part = "joinPath" /\ Paths!ExtendToken /\ UNCHANGED <<part, lines, eol, cliVars>>
    \/ part = "countLoc" /\ Loc!AppendLine /\ UNCHANGED <<part, dir, rel, cliVars>>
    \/ part = "cli" /\ Cli!CliNext /\ UNCHANGED <<part, dir, rel, lines, eol, fs>>

Spec == Init /\ [][Next]_vars

\* joinPath normalises every include token (see MCAmalgamationPaths).
JoinPathNormalizes == part = "joinPath" => Paths!JoinPathNormalizes

\* countLoc classifies every emitted text per section 4.4 (see MCLineCounter).
CountLocMatchesSpec == part = "countLoc" => Loc!CountLocMatchesSpec

\* listTree lists every readable file once, in sorted depth-first order (see MCCli).
ListTreeIsSortedWalk == part = "listTree" => Cli!ListTreeIsSortedWalk

\* The CLI lists the tree in the Git trees API's order (see MCCli).
ListTreeInGitOrder == part = "listTree" => Cli!ListTreeInGitOrder

\* The CLI's main states stay well formed.
CliTypeOK == Cli!CliTypeOK

\* main implements the CLI's contract with CI (see Cli and CliContract).
MainImplementsContract == Cli!MainImplementsContract
=============================================================================
