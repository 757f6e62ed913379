-------------------------- MODULE AmalgamationSpec --------------------------
(***************************************************************************)
(* What one call of buildSingleLibraryHeaderUsingContext promises: in one *)
(* step the artifact becomes the depth-first expansion of the header      *)
(* order and then of the implementation order, sharing one processed set, *)
(* for some set of files whose read fails; its banner lists the copyright *)
(* holders found in the body by descending count, ties by first           *)
(* appearance, and the body's SPDX identifiers in order.                  *)
(***************************************************************************)
EXTENDS AmalgamationText

CONSTANTS
    Tree,        \* listTree: the blob paths in listing order
    Target,      \* the library being built
    Texts,       \* possible contents: [path -> sequence of lines]
    OrderFiles,  \* possible order files of the target (see NoOrderFile)
    SpdxOrder    \* the SPDX identifiers in code-unit order

VARIABLES text, order, artifact

RECURSIVE ExpandFile(_, _, _, _), ExpandLines(_, _, _, _, _, _)

(***************************************************************************)
(* processFileRecursively as a function: the contribution of path p given *)
(* the processed set, and the processed set afterwards.                   *)
(***************************************************************************)
ExpandFile(txt, p, done, bad) ==
    CASE p \in done -> << <<>>, done >>
      [] p \in bad  -> << <<>>, done \cup {p} >>
      [] OTHER      -> LET r == ExpandLines(txt, p, 1, BannerFor(p), done \cup {p}, bad)
                       IN  << Finish(r[1]), r[2] >>

ExpandLines(txt, p, i, acc, done, bad) ==
    IF i > Len(txt[p]) THEN << acc, done >>
    ELSE LET l == txt[p][i]
         IN  IF InlinesFile(Tree, Target, p, l)
             THEN LET r == ExpandFile(txt, IncludedPath(p, l), done, bad)
                  IN  ExpandLines(txt, p, i + 1, acc \o r[1], r[2], bad)
             ELSE ExpandLines(txt, p, i + 1,
                              IF Dropped(Tree, p, l) THEN acc ELSE Append(acc, Out(p, i, l)),
                              done, bad)

\* amalgamateFilesRecursively: each resolvable entry in order.
RECURSIVE ExpandList(_, _, _, _, _)
ExpandList(txt, list, acc, done, bad) ==
    IF list = <<>> THEN << acc, done >>
    ELSE LET p == ResolveToPath(Tree, Target, Head(list))
             r == IF p = <<>> THEN << <<>>, done >> ELSE ExpandFile(txt, p, done, bad)
         IN  ExpandList(txt, Tail(list), acc \o r[1], r[2], bad)

\* Copyright holders of a body: by count, ties by first appearance.
BannerAuthors(body) ==
    LET at(a)    == {k \in DOMAIN body : body[k].line = CopyrightLine(a)}
        holders  == {body[k].line.arg[1] : k \in {k \in DOMAIN body : body[k].line.kind = "copyright"}}
        first(a) == SelectInSeq(body, LAMBDA o : o.line = CopyrightLine(a))
    IN  SetToSortSeq(holders, LAMBDA a, b : \/ Cardinality(at(a)) > Cardinality(at(b))
                                            \/ /\ Cardinality(at(a)) = Cardinality(at(b))
                                               /\ first(a) < first(b))

BannerSpdx(body) ==
    SortedSpdx({body[k].line.arg[1] : k \in {k \in DOMAIN body : body[k].line.kind = "spdx"}},
               SpdxOrder)

Amalgamate(txt, ord, bad) ==
    LET h == ExpandList(txt, HeaderFiles(Tree, Target, ord), <<>>, {}, bad)
        s == ExpandList(txt, SourceFiles(Tree, Target, ord), <<>>, h[2], bad)
        impl == IF HasText(s[1]) THEN s[1] ELSE <<>>
    IN  [assembled |-> TRUE,
         authors   |-> BannerAuthors(h[1] \o impl),
         spdx      |-> BannerSpdx(h[1] \o impl),
         header    |-> h[1],
         impl      |-> impl]

Init ==
    /\ text \in Texts
    /\ order \in OrderFiles
    /\ artifact = NoArtifact

Build ==
    /\ artifact = NoArtifact
    /\ artifact'.assembled
    /\ \E bad \in SUBSET TargetFiles(Tree, Target) :
           artifact' = Amalgamate(text, order, bad)
    /\ UNCHANGED <<text, order>>

Spec == Init /\ [][Build]_<<text, order, artifact>>
=============================================================================
