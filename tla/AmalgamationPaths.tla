------------------------- MODULE AmalgamationPaths -------------------------
(***************************************************************************)
(* Path helpers of amalgamationCore.js.                                    *)
(*                                                                         *)
(* A path string is represented by the sequence of its '/'-separated       *)
(* segments (the result of path.split('/')), so "Libraries/Foo/Foo.h" is   *)
(* <<"Libraries", "Foo", "Foo.h">> and "/x" is <<"", "x">>.  split is      *)
(* injective, so string equality is sequence equality.  Segments stay      *)
(* strings, and TLC's Len, SubSeq and \o on strings give the code's        *)
(* endsWith/startsWith at character level.                                 *)
(***************************************************************************)
EXTENDS Naturals, Sequences, SequencesExt

LibraryRoots == {"Libraries", "LibrariesExtra"}

\* The value libraryNameFromPath returns for a path outside the roots.
NoLibrary == ""

\* path.join('/') as a string.
RECURSIVE PathString(_)
PathString(p) ==
    IF Len(p) = 1 THEN p[1] ELSE PathString(Front(p)) \o "/" \o Last(p)

\* String.prototype.endsWith on strings.
StrEndsWith(s, suffix) ==
    /\ Len(suffix) <= Len(s)
    /\ SubSeq(s, Len(s) - Len(suffix) + 1, Len(s)) = suffix

(***************************************************************************)
(* Plausible fault (used to validate the properties): popping only when   *)
(* the stack is non-empty and otherwise keeping the "..".                  *)
(***************************************************************************)
JoinStepKeepsLeadingUp(stack, part) ==
    CASE part \in {"", "."}             -> stack
      [] part = ".." /\ stack # <<>>    -> Front(stack)
      [] OTHER                          -> Append(stack, part)

\* One iteration of joinPath's loop over the parts.
JoinStep(stack, part) ==
    CASE part \in {"", "."} -> stack
      [] part = ".."        -> Front(stack)
      [] OTHER              -> Append(stack, part)

(***************************************************************************)
(* joinPath(dir, rel): an absolute rel loses its '/' and is returned as    *)
(* is; otherwise (dir + '/' + rel).split('/') is folded over a stack that  *)
(* drops "" and ".", pops on "..", and the stack is joined with '/'.  An   *)
(* empty stack joins to "", whose split is <<"">>.                         *)
(***************************************************************************)
RECURSIVE FoldParts(_, _)
FoldParts(stack, parts) ==
    IF parts = <<>> THEN stack ELSE FoldParts(JoinStep(stack, Head(parts)), Tail(parts))

JoinPath(dir, rel) ==
    IF Len(rel) > 1 /\ rel[1] = ""
    THEN Tail(rel)
    ELSE LET stack == FoldParts(<<>>, dir \o rel)
         IN  IF stack = <<>> THEN <<"">> ELSE stack

\* The directory part of a path: substring(0, lastIndexOf('/')).
DirOf(p) == Front(p)

\* The file name: substring(lastIndexOf('/') + 1).
Basename(p) == Last(p)

\* libraryNameFromPath: the segment after Libraries/ or LibrariesExtra/.
LibraryNameFromPath(p) ==
    IF p[1] \in LibraryRoots /\ Len(p) > 1 THEN p[2] ELSE NoLibrary

\* path.startsWith(`Libraries/${lib}/`).
UnderLibrary(p, lib) == Len(p) > 2 /\ p[1] = "Libraries" /\ p[2] = lib

\* Fault: only includedPath.startsWith('Libraries/') tested.
InLibraryRootLibrariesOnly(p) == Len(p) > 1 /\ p[1] = "Libraries"

\* includedPath.startsWith('Libraries/') || ...startsWith('LibrariesExtra/')
InLibraryRoot(p) == Len(p) > 1 /\ p[1] \in LibraryRoots

\* isPublicHeader: a .h under Libraries/lib/ with no "/Internal/" inside.
IsPublicHeader(p, lib) ==
    /\ StrEndsWith(PathString(p), ".h")
    /\ UnderLibrary(p, lib)
    /\ \A i \in 2 .. Len(p) - 1 : p[i] # "Internal"

(***************************************************************************)
(* resolveToPath in amalgamateFilesRecursively: the first path of the      *)
(* listing under Libraries/target/ whose string ends with the entry (or    *)
(* equals it).  Returns <<>> when no path matches.                         *)
(***************************************************************************)
ResolveToPath(tree, target, filename) ==
    LET ok(p) == /\ UnderLibrary(p, target)
                 /\ \/ StrEndsWith(PathString(p), filename)
                    \/ PathString(p) = filename
        i == SelectInSeq(tree, ok)
    IN  IF i = 0 THEN <<>> ELSE tree[i]
=============================================================================
