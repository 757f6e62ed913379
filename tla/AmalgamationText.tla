-------------------------- MODULE AmalgamationText --------------------------
(***************************************************************************)
(* What amalgamationCore.js does with the text of one file and with the   *)
(* order file, as pure operators shared by the detailed build             *)
(* (AmalgamationCore) and the abstract one (AmalgamationSpec).            *)
(*                                                                         *)
(* A file's text is the sequence of its lines after split(/\r?\n/) and    *)
(* trim(), abstracted to what the scan distinguishes: code, blank (only   *)
(* whitespace), "#pragma once", a quoted #include with its token, and the *)
(* copyright and SPDX comments with their trimmed payload.  An emitted    *)
(* line of output is identified by its file and line number, so two      *)
(* copies of one source line are two equal records.                       *)
(***************************************************************************)
EXTENDS AmalgamationPaths

Line(kind, arg) == [kind |-> kind, arg |-> arg]
CodeLine        == Line("code", <<>>)
BlankLine       == Line("blank", <<>>)
PragmaOnce      == Line("pragma", <<>>)
IncludeLine(t)  == Line("include", t)     \* t: the token's segments
CopyrightLine(a) == Line("copyright", <<a>>)
SpdxLine(s)     == Line("spdx", <<s>>)

\* One line of output: line i of file f, or a banner line (i <= 0).
Out(f, i, l) == [f |-> f, i |-> i, line |-> l]

\* The blank line a section separator ends with ("" + eol).
Sep == Out(<<>>, 0, BlankLine)

IsWhite(o) == o.line.kind = "blank"

(***************************************************************************)
(* processFileRecursively, before reading: a file more than two segments  *)
(* deep below Libraries/ or LibrariesExtra/ gets divider, "// <path>",    *)
(* divider.                                                                *)
(***************************************************************************)
BannerFor(p) ==
    IF p[1] \in LibraryRoots /\ Len(p) > 2
    THEN << Out(p, -2, Line("divider", <<>>)),
            Out(p, -1, Line("title", Tail(p))),
            Out(p,  0, Line("divider", <<>>)) >>
    ELSE << >>

(***************************************************************************)
(* content.replace(/\s+$/, '') + eol + eol: trailing white lines go, the  *)
(* last kept line gets its eol back and one empty line follows; an all-   *)
(* white content becomes two empty lines.                                 *)
(***************************************************************************)
Finish(c) ==
    LET kept == SubSeq(c, 1, SelectLastInSeq(c, LAMBDA o : ~IsWhite(o)))
    IN  IF kept = <<>> THEN <<Sep, Sep>> ELSE kept \o <<Sep>>

\* sources.trim().length > 0
HasText(c) == \E i \in 1 .. Len(c) : ~IsWhite(c[i])

(***************************************************************************)
(* The include branch of the scan: the token resolved against the         *)
(* including file's directory, and whether the code treats it as a local  *)
(* include (present in the tree and under a library root).  Only those    *)
(* are dropped; any other #include line is emitted like code.             *)
(***************************************************************************)
IncludedPath(p, l) == JoinPath(DirOf(p), l.arg)

IsLocalInclude(tree, p, l) ==
    /\ l.kind = "include"
    /\ LET ip == IncludedPath(p, l)
       IN  \E k \in 1 .. Len(tree) : tree[k] = ip /\ InLibraryRoot(ip)

\* Fault: the includedLib === targetLibrary test forgotten.
InlinesFileAnyLibrary(tree, target, p, l) == IsLocalInclude(tree, p, l)

\* A local include of the target library: expanded in place.
InlinesFile(tree, target, p, l) ==
    IsLocalInclude(tree, p, l) /\ LibraryNameFromPath(IncludedPath(p, l)) = target

\* Lines the scan drops without emitting: pragma once and local includes.
Dropped(tree, p, l) == l.kind = "pragma" \/ IsLocalInclude(tree, p, l)

\* Fault: authorsInfo.set(author, 1), the count not incremented.
RecordAuthorOverwrite(authors, l) ==
    IF l.kind # "copyright" THEN authors
    ELSE LET i == SelectInSeq(authors, LAMBDA e : e[1] = l.arg[1])
         IN  IF i = 0 THEN Append(authors, <<l.arg[1], 1>>) ELSE authors

(***************************************************************************)
(* authorsInfo is a Map in insertion order: a sequence of <<author,count>>.*)
(***************************************************************************)
RecordAuthor(authors, l) ==
    IF l.kind # "copyright" THEN authors
    ELSE LET a == l.arg[1]
             i == SelectInSeq(authors, LAMBDA e : e[1] = a)
         IN  IF i = 0 THEN Append(authors, <<a, 1>>)
             ELSE [authors EXCEPT ![i][2] = @ + 1]

RecordSpdx(spdx, l) == IF l.kind = "spdx" THEN spdx \cup {l.arg[1]} ELSE spdx

(***************************************************************************)
(* Array.from(authorsInfo.entries()).sort((a, b) => b[1] - a[1]): the     *)
(* sort is stable, so equal counts keep insertion order.                  *)
(***************************************************************************)
SortedAuthors(authors) ==
    LET before(i, j) == \/ authors[i][2] > authors[j][2]
                        \/ authors[i][2] = authors[j][2] /\ i < j
        idx == SetToSortSeq(DOMAIN authors, before)
    IN  [k \in DOMAIN idx |-> authors[idx[k]][1]]

(***************************************************************************)
(* Array.from(spdxSet).sort(): code-unit order of the identifiers, given  *)
(* by the sequence order that lists them in that order.                   *)
(***************************************************************************)
SortedSpdx(spdx, order) ==
    SetToSortSeq(spdx, LAMBDA x, y : SelectInSeq(order, LAMBDA z : z = x)
                                      < SelectInSeq(order, LAMBDA z : z = y))

(***************************************************************************)
(* The order file as the code sees it.  Absent, unreadable and malformed  *)
(* files all leave includeOrder/implementationOrder null.  A parsed file  *)
(* whose field is missing or not an array yields [], so the parsed value  *)
(* of each field is a sequence of entry names.                            *)
(***************************************************************************)
NoOrderFile == [parsed |-> FALSE, includeOrder |-> <<>>, implementationOrder |-> <<>>]
OrderFile(inc, impl) == [parsed |-> TRUE, includeOrder |-> inc, implementationOrder |-> impl]

\* libFiles: .h, .cpp and .inl files under Libraries/<lib>/, in listing order.
LibFiles(tree, lib) ==
    SelectSeq(tree, LAMBDA p : /\ UnderLibrary(p, lib)
                               /\ \/ StrEndsWith(Last(p), ".h")
                                  \/ StrEndsWith(Last(p), ".cpp")
                                  \/ StrEndsWith(Last(p), ".inl"))

BasenamesOf(s) == [k \in DOMAIN s |-> Basename(s[k])]

HeaderFiles(tree, lib, order) ==
    IF order.parsed THEN order.includeOrder
    ELSE BasenamesOf(SelectSeq(LibFiles(tree, lib), LAMBDA p : IsPublicHeader(p, lib)))

SourceFiles(tree, lib, order) ==
    IF order.parsed THEN order.implementationOrder
    ELSE BasenamesOf(SelectSeq(LibFiles(tree, lib), LAMBDA p : StrEndsWith(Last(p), ".cpp")))

\* Files processFileRecursively may inline for a target library.
TargetFiles(tree, lib) ==
    {tree[k] : k \in {k \in DOMAIN tree : LibraryNameFromPath(tree[k]) = lib}}

(***************************************************************************)
(* The artifact, abstracted to what varies: the banner's copyright holders *)
(* and SPDX identifiers, the header body, and the implementation body     *)
(* (empty when the section is omitted).  Fixed text is left out.          *)
(***************************************************************************)
NoArtifact ==
    [assembled |-> FALSE, authors |-> <<>>, spdx |-> <<>>, header |-> <<>>, impl |-> <<>>]
=============================================================================
