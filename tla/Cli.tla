-------------------------------- MODULE Cli --------------------------------
(***************************************************************************)
(* cli.js: parseArgs, the filesystem context's listTree (the roots walked *)
(* by listFilesRecursive, paths made relative to the repository root) and *)
(* main's sequence of steps, each of which may throw into                  *)
(* main().catch, which exits with status 1.                                *)
(*                                                                         *)
(* A checkout is a function from paths (segment sequences below the       *)
(* repository root) to what readdirSync/statSync see there: a readable    *)
(* directory, an unreadable one, a file, or an entry statSync fails on    *)
(* (a dangling link).  The build itself is AmalgamationCore's; here it     *)
(* succeeds or throws.                                                     *)
(***************************************************************************)
EXTENDS Integers, Sequences, SequencesExt

CONSTANTS
    Argvs,      \* command lines (process.argv after node and the script)
    DepNames,   \* Object.keys of Dependencies.json, in file order
    RepoRoot,   \* resolve(args.repoRoot), an absolute path without trailing "/"
    Alphabet    \* the characters of entry names, in UTF-16 code-unit order

\* argv[++i] past the end, and the null of the defaults.
Undef == "undefined"
Null  == "null"
\* No exit status yet.
NoExit == -1

-----------------------------------------------------------------------------
(* parseArgs: a value option takes the next token whatever it is; -h and  *)
(* --help exit 0 at once; neither --all nor a library exits 1.            *)
Arg(argv, i) == IF i <= Len(argv) THEN argv[i] ELSE Undef

ValueOption == [o \in {"--repo-root", "--ref", "--out", "--library"} |->
                  CASE o = "--repo-root" -> "repoRoot" [] o = "--ref" -> "ref"
                    [] o = "--out" -> "outDir" [] o = "--library" -> "library"]

RECURSIVE ParseFrom(_, _, _)
ParseFrom(argv, i, a) ==
    IF i > Len(argv) THEN a
    ELSE LET t == argv[i]
         IN  CASE t \in DOMAIN ValueOption ->
                    ParseFrom(argv, i + 2, [a EXCEPT ![ValueOption[t]] = Arg(argv, i + 1)])
               [] t = "--all" -> ParseFrom(argv, i + 1, [a EXCEPT !.all = TRUE])
               [] t \in {"-h", "--help"} -> [a EXCEPT !.exit = 0]
               [] OTHER -> ParseFrom(argv, i + 1, a)

ParseArgs(argv) ==
    LET a == ParseFrom(argv, 1, [repoRoot |-> ".", ref |-> "HEAD", outDir |-> "_Build",
                                 all |-> FALSE, library |-> Null, exit |-> NoExit])
    IN  IF a.exit = NoExit /\ ~a.all /\ a.library \in {Null, Undef}
        THEN [a EXCEPT !.exit = 1] ELSE a

-----------------------------------------------------------------------------
(* Array.prototype.sort() on names: code-unit order.                       *)
Ord(c) == SelectInSeq(Alphabet, LAMBDA x : x = c)

RECURSIVE StrLess(_, _)
StrLess(a, b) ==
    IF a = "" \/ b = "" THEN a = "" /\ b # ""
    ELSE IF SubSeq(a, 1, 1) # SubSeq(b, 1, 1) THEN Ord(SubSeq(a, 1, 1)) < Ord(SubSeq(b, 1, 1))
    ELSE StrLess(SubSeq(a, 2, Len(a)), SubSeq(b, 2, Len(b)))

Children(fs, dir) ==
    {p[Len(p)] : p \in {p \in DOMAIN fs : Len(p) = Len(dir) + 1 /\ SubSeq(p, 1, Len(dir)) = dir}}

(* walk(dir): readdirSync fails on anything but a readable directory and  *)
(* the walk returns; a name statSync fails on is skipped; a directory is   *)
(* walked, anything else pushed.                                           *)
RECURSIVE Walk(_, _), WalkNames(_, _, _)

\* Fault: return instead of continue when statSync fails.
WalkNamesStopAtBroken(fs, dir, names) ==
    IF names = << >> THEN << >>
    ELSE LET full == Append(dir, Head(names))
         IN  CASE fs[full] = "broken" -> << >>
               [] fs[full] \in {"dir", "unreadable"} -> Walk(fs, full) \o WalkNames(fs, dir, Tail(names))
               [] OTHER -> << full >> \o WalkNames(fs, dir, Tail(names))

WalkNames(fs, dir, names) ==
    IF names = << >> THEN << >>
    ELSE LET full == Append(dir, Head(names))
             this == CASE fs[full] = "broken" -> << >>
                       [] fs[full] \in {"dir", "unreadable"} -> Walk(fs, full)
                       [] OTHER -> << full >>
         IN  this \o WalkNames(fs, dir, Tail(names))

Walk(fs, dir) ==
    IF fs[dir] # "dir" THEN << >>
    ELSE WalkNames(fs, dir, SetToSortSeq(Children(fs, dir), StrLess))

Roots == << <<"Libraries">>, <<"LibrariesExtra">>, <<"Support", "SingleFileLibs">> >>

\* existsSync(r): false for a missing root and for a dangling link.
Exists(fs, r) == r \in DOMAIN fs /\ fs[r] # "broken"

RECURSIVE Concat(_)
Concat(s) == IF s = << >> THEN << >> ELSE Head(s) \o Concat(Tail(s))

RECURSIVE JoinSegs(_)
JoinSegs(p) == IF Len(p) = 1 THEN p[1] ELSE p[1] \o "/" \o JoinSegs(Tail(p))

(* join(repoRoot, ...) and f.substring(repoRoot.length + 1).               *)
FullPath(p) == IF RepoRoot = "/" THEN "/" \o JoinSegs(p) ELSE RepoRoot \o "/" \o JoinSegs(p)
RelPath(p)  == SubSeq(FullPath(p), Len(RepoRoot) + 2, Len(FullPath(p)))

\* ctx.listTree(): the blob paths, relative to the repository root.
WalkRoots(fs) == Concat([k \in DOMAIN Roots |-> IF Exists(fs, Roots[k]) THEN Walk(fs, Roots[k]) ELSE << >>])
ListTree(fs)  == LET w == WalkRoots(fs) IN [k \in DOMAIN w |-> RelPath(w[k])]

-----------------------------------------------------------------------------
VARIABLES
    argv,       \* process.argv of this run
    args,       \* parseArgs' result
    pc,         \* the step main is at
    libraries,  \* the libraries to build
    i,          \* the loop index
    written,    \* outputs written by this run
    exitCode    \* the process' exit status once it ended

cliVars == <<argv, args, pc, libraries, i, written, exitCode>>

Exit(code) == pc' = "exited" /\ exitCode' = code

\* parseArgs(process.argv); process.exit for help or a missing target.
Parse ==
    /\ pc = "parse"
    /\ args' = ParseArgs(argv)
    /\ IF args'.exit # NoExit THEN Exit(args'.exit) ELSE pc' = "main" /\ UNCHANGED exitCode
    /\ UNCHANGED <<argv, libraries, i, written>>

\* main up to its first await: resolve() throws on an undefined path;
\* mkdirSync may throw.
MainStart ==
    /\ pc = "main"
    /\ \E ok \in BOOLEAN :
          IF ok /\ args.repoRoot # Undef /\ args.outDir # Undef
          THEN pc' = "deps" /\ UNCHANGED exitCode
          ELSE Exit(1)
    /\ UNCHANGED <<argv, args, libraries, i, written>>

\* Dependencies.json loaded and the core imported; the libraries chosen.
LoadDeps ==
    /\ pc = "deps"
    /\ \E ok \in BOOLEAN :
          IF ok
          THEN LET libs == IF args.all THEN DepNames ELSE << args.library >>
               IN  /\ libraries' = libs
                   /\ i' = 1
                   /\ pc' = IF libs = << >> THEN "return" ELSE "build"
                   /\ UNCHANGED exitCode
          ELSE Exit(1) /\ UNCHANGED <<libraries, i>>
    /\ UNCHANGED <<argv, args, written>>

\* await buildSingleLibraryHeaderUsingContext(lib, ctx).
Build ==
    /\ pc = "build"
    /\ \E ok \in BOOLEAN : IF ok THEN pc' = "write" /\ UNCHANGED exitCode ELSE Exit(1)
    /\ UNCHANGED <<argv, args, libraries, i, written>>

\* Fault: a failed write reported and the loop continued.
WriteIgnoringError ==
    /\ pc = "write"
    /\ \E ok \in BOOLEAN :
          /\ written' = IF ok THEN written \cup {libraries[i]} ELSE written
          /\ IF i = Len(libraries) THEN pc' = "return" /\ UNCHANGED <<i, exitCode>>
             ELSE pc' = "build" /\ i' = i + 1 /\ UNCHANGED exitCode
    /\ UNCHANGED <<argv, args, libraries>>

\* Fault: the loop's end tested with > instead of =.
WritePastEnd ==
    /\ pc = "write"
    /\ \E ok \in BOOLEAN :
          IF ~ok THEN Exit(1) /\ UNCHANGED <<written, i>>
          ELSE /\ written' = written \cup {libraries[i]}
               /\ IF i > Len(libraries) THEN pc' = "return" /\ UNCHANGED <<i, exitCode>>
                  ELSE pc' = "build" /\ i' = i + 1 /\ UNCHANGED exitCode
    /\ UNCHANGED <<argv, args, libraries>>

\* await writeText(outPath, content); the loop moves on or main returns.
Write ==
    /\ pc = "write"
    /\ \E ok \in BOOLEAN :
          IF ~ok THEN Exit(1) /\ UNCHANGED <<written, i>>
          ELSE /\ written' = written \cup {libraries[i]}
               /\ IF i = Len(libraries) THEN pc' = "return" /\ UNCHANGED <<i, exitCode>>
                  ELSE pc' = "build" /\ i' = i + 1 /\ UNCHANGED exitCode
    /\ UNCHANGED <<argv, args, libraries>>

\* main's promise resolves; with nothing pending the process exits 0.
MainReturned ==
    /\ pc = "return"
    /\ Exit(0)
    /\ UNCHANGED <<argv, args, libraries, i, written>>

CliInit ==
    /\ argv \in Argvs
    /\ args = ParseArgs(<< >>)
    /\ pc = "parse"
    /\ libraries = << >>
    /\ i = 0
    /\ written = {}
    /\ exitCode = NoExit

CliNext == Parse \/ MainStart \/ LoadDeps \/ Build \/ Write \/ MainReturned

CliSpec == CliInit /\ [][CliNext]_cliVars

-----------------------------------------------------------------------------
CliTypeOK ==
    /\ pc \in {"parse", "main", "deps", "build", "write", "return", "exited"}
    /\ exitCode \in {NoExit, 0, 1}
    /\ (pc = "exited") <=> (exitCode # NoExit)
    /\ pc \in {"build", "write"} => i \in 1 .. Len(libraries)

\* The run's status as the CI job sees it.
RunStatus == CASE pc # "exited" -> "running" [] exitCode = 0 -> "ok" [] OTHER -> "failed"

Contract == INSTANCE CliContract WITH outputs <- written, status <- RunStatus, Request <- ParseArgs

(***************************************************************************)
(* main implements CliContract: headers of requested libraries only, none *)
(* after the exit, and exit status 0 (other than for -h) only once every  *)
(* requested header was written, so CI can trust the status after a      *)
(* build or a write failed part-way through --all.                        *)
(***************************************************************************)
MainImplementsContract == Contract!Spec
=============================================================================
