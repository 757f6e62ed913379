-------------------------- MODULE AmalgamationCore --------------------------
(***************************************************************************)
(* One call of buildSingleLibraryHeaderUsingContext(Target, ctx)           *)
(* (amalgamationCore.js), step by step.                                    *)
(*                                                                         *)
(* The recursion of processFileRecursively is an explicit stack of frames *)
(* [path, idx, content]: idx = 0 while the file's read is awaited, then   *)
(* the next line to scan, Len + 1 when the scan is over.  content is the  *)
(* text the frame has accumulated (banner and emitted lines).  A build is *)
(* sequential: every await is on the context, and nothing else touches    *)
(* the build's processed set, authorsInfo, spdxSet or buffers, so one     *)
(* step per line and per await loses no interleaving.  A read may reject; *)
(* the code then returns '' for that file.                                *)
(***************************************************************************)
EXTENDS AmalgamationText

CONSTANTS
    Tree,        \* listTree: the blob paths in listing order
    Target,      \* the library being built
    Texts,       \* possible contents: [path -> sequence of lines]
    OrderFiles,  \* possible order files of the target (see NoOrderFile)
    SpdxOrder,   \* the SPDX identifiers in code-unit order
    MaxDepth     \* bound on the stack; never reached unless a path reenters

ASSUME MaxDepth >= Cardinality(TargetFiles(Tree, Target))
ASSUME \A t \in Texts : \A p \in DOMAIN t : Len(t[p]) >= 1  \* split gives >= 1 line

VARIABLES
    text,         \* the repository's file contents (fixed during a build)
    order,        \* the order file as parsed
    phase,        \* "order", "headers", "sources", "done"
    headerFiles,  \* includeOrder or the derived header order
    sourceFiles,  \* implementationOrder or the derived source order
    entry,        \* next index into the current phase's list
    stack,        \* frames of processFileRecursively calls in progress
    processed,    \* processedSet, shared by both phases
    authors,      \* authorsInfo: <<holder, count>> in insertion order
    spdx,         \* spdxSet
    headers,      \* result of the header phase so far
    sources,      \* result of the implementation phase so far
    unreadable,   \* history: files whose read rejected
    artifact      \* the returned artifact, NoArtifact until assembled

vars == <<text, order, phase, headerFiles, sourceFiles, entry, stack,
          processed, authors, spdx, headers, sources, unreadable, artifact>>

Top == stack[Len(stack)]

CurrentList == IF phase = "headers" THEN headerFiles ELSE sourceFiles

NewFrame(p) == [path |-> p, idx |-> 0, content |-> BannerFor(p)]

(***************************************************************************)
(* Plausible faults, each the body some definition below would have with  *)
(* one bug; they validate the properties (see PROJECT.json "mutants").    *)
(***************************************************************************)
\* processedSet.add(...) forgotten.
EnterWithoutMark(stk, p) ==
    /\ stack' = IF p \in processed THEN stk ELSE Append(stk, NewFrame(p))
    /\ UNCHANGED processed

\* The processedSet.has(...) early return forgotten.
EnterWithoutCheck(stk, p) ==
    /\ stack' = Append(stk, NewFrame(p))
    /\ processed' = processed \cup {p}

\* The included path marked processed by the caller before the call.
EnterMarkedByCaller(stk, p) ==
    /\ stack' = stk
    /\ processed' = processed \cup {p}

(***************************************************************************)
(* Entry of processFileRecursively: a processed path contributes ''.       *)
(* Otherwise the path is added to processedSet before anything else, and  *)
(* the new frame starts with the banner.                                  *)
(***************************************************************************)
Enter(stk, p) ==
    /\ stack' = IF p \in processed THEN stk ELSE Append(stk, NewFrame(p))
    /\ processed' = processed \cup {p}

(***************************************************************************)
(* Lines 160-180: listTree, the optional order file, the two orders.      *)
(***************************************************************************)
ResolveOrder ==
    /\ phase = "order"
    /\ headerFiles' = HeaderFiles(Tree, Target, order)
    /\ sourceFiles' = SourceFiles(Tree, Target, order)
    /\ phase' = "headers"
    /\ entry' = 1
    /\ UNCHANGED <<text, order, stack, processed, authors, spdx, headers,
                   sources, unreadable, artifact>>

(***************************************************************************)
(* The loop of amalgamateFilesRecursively: resolve the next entry and     *)
(* call processFileRecursively on it; an unresolved entry is skipped.     *)
(***************************************************************************)
NextEntry ==
    /\ phase \in {"headers", "sources"}
    /\ stack = <<>>
    /\ entry <= Len(CurrentList)
    /\ entry' = entry + 1
    /\ LET p == ResolveToPath(Tree, Target, CurrentList[entry])
       IN  IF p = <<>> THEN UNCHANGED <<stack, processed>> ELSE Enter(<<>>, p)
    /\ UNCHANGED <<text, order, phase, headerFiles, sourceFiles, authors, spdx,
                   headers, sources, unreadable, artifact>>

\* await ctx.readFile resolves: the scan starts at line 1.
ReadOk ==
    /\ stack # <<>>
    /\ Top.idx = 0
    /\ stack' = [stack EXCEPT ![Len(stack)].idx = 1]
    /\ UNCHANGED <<text, order, phase, headerFiles, sourceFiles, entry,
                   processed, authors, spdx, headers, sources, unreadable, artifact>>

\* await ctx.readFile rejects: the call returns '' (its banner is lost).
ReadFails ==
    /\ stack # <<>>
    /\ Top.idx = 0
    /\ stack' = Front(stack)
    /\ unreadable' = unreadable \cup {Top.path}
    /\ UNCHANGED <<text, order, phase, headerFiles, sourceFiles, entry,
                   processed, authors, spdx, headers, sources, artifact>>

(***************************************************************************)
(* One iteration of the scan loop: record a copyright holder or SPDX id,  *)
(* then drop "#pragma once", expand a local include of the target         *)
(* library in place, drop a local include of another library, or emit    *)
(* the line.                                                               *)
(***************************************************************************)
ScanLine ==
    /\ stack # <<>>
    /\ Top.idx \in 1 .. Len(text[Top.path])
    /\ LET p   == Top.path
           i   == Top.idx
           l   == text[p][i]
           adv == [stack EXCEPT ![Len(stack)].idx = i + 1]
       IN  /\ authors' = RecordAuthor(authors, l)
           /\ spdx' = RecordSpdx(spdx, l)
           /\ IF InlinesFile(Tree, Target, p, l)
              THEN Enter(adv, IncludedPath(p, l))
              ELSE /\ stack' = IF Dropped(Tree, p, l) THEN adv
                               ELSE [adv EXCEPT ![Len(stack)].content = Append(@, Out(p, i, l))]
                   /\ UNCHANGED processed
    /\ Len(stack') <= MaxDepth
    /\ UNCHANGED <<text, order, phase, headerFiles, sourceFiles, entry,
                   headers, sources, unreadable, artifact>>

\* Appends a finished call's text to the current phase's result.
AppendResult(c) ==
    IF phase = "headers"
    THEN headers' = headers \o c /\ UNCHANGED sources
    ELSE sources' = sources \o c /\ UNCHANGED headers

\* The flattening fault: every finished call appended to the phase result.
ReturnFileToResult ==
    /\ stack # <<>>
    /\ Top.idx = Len(text[Top.path]) + 1
    /\ stack' = Front(stack)
    /\ AppendResult(Finish(Top.content))
    /\ UNCHANGED <<text, order, phase, headerFiles, sourceFiles, entry,
                   processed, authors, spdx, unreadable, artifact>>

(***************************************************************************)
(* End of processFileRecursively: trim, two eols, and the text goes to    *)
(* the caller at the include site, or to the phase's result.              *)
(***************************************************************************)
ReturnFile ==
    /\ stack # <<>>
    /\ Top.idx = Len(text[Top.path]) + 1
    /\ LET done == Finish(Top.content)
           n    == Len(stack)
       IN  IF n = 1
           THEN stack' = <<>> /\ AppendResult(done)
           ELSE /\ stack' = [Front(stack) EXCEPT ![n - 1].content = @ \o done]
                /\ UNCHANGED <<headers, sources>>
    /\ UNCHANGED <<text, order, phase, headerFiles, sourceFiles, entry,
                   processed, authors, spdx, unreadable, artifact>>

\* The implementation phase given a fresh set (processedSet || new Set()).
EndHeadersFreshSet ==
    /\ phase = "headers"
    /\ stack = <<>>
    /\ entry > Len(headerFiles)
    /\ phase' = "sources"
    /\ entry' = 1
    /\ processed' = {}
    /\ UNCHANGED <<text, order, headerFiles, sourceFiles, stack, authors, spdx,
                   headers, sources, unreadable, artifact>>

\* Fault: the header loop's end tested one entry too late.
EndHeadersLate ==
    /\ phase = "headers"
    /\ stack = <<>>
    /\ entry > Len(headerFiles) + 1
    /\ phase' = "sources"
    /\ entry' = 1
    /\ UNCHANGED <<text, order, headerFiles, sourceFiles, stack, processed,
                   authors, spdx, headers, sources, unreadable, artifact>>

\* Line 186: the implementation phase starts with the same processed set.
EndHeaders ==
    /\ phase = "headers"
    /\ stack = <<>>
    /\ entry > Len(headerFiles)
    /\ phase' = "sources"
    /\ entry' = 1
    /\ UNCHANGED <<text, order, headerFiles, sourceFiles, stack, processed,
                   authors, spdx, headers, sources, unreadable, artifact>>

(***************************************************************************)
(* Lines 188-229: the banner's holders (stable sort by count), SPDX ids   *)
(* (sorted), the header body, and the implementation section only when    *)
(* sources.trim() is not empty.                                           *)
(***************************************************************************)
Assemble ==
    /\ phase = "sources"
    /\ stack = <<>>
    /\ entry > Len(sourceFiles)
    /\ phase' = "done"
    /\ artifact' = [assembled |-> TRUE,
                    authors   |-> SortedAuthors(authors),
                    spdx      |-> SortedSpdx(spdx, SpdxOrder),
                    header    |-> headers,
                    impl      |-> IF HasText(sources) THEN sources ELSE <<>>]
    /\ UNCHANGED <<text, order, headerFiles, sourceFiles, entry, stack,
                   processed, authors, spdx, headers, sources, unreadable>>

Init ==
    /\ text \in Texts
    /\ order \in OrderFiles
    /\ phase = "order"
    /\ headerFiles = <<>>
    /\ sourceFiles = <<>>
    /\ entry = 1
    /\ stack = <<>>
    /\ processed = {}
    /\ authors = <<>>
    /\ spdx = {}
    /\ headers = <<>>
    /\ sources = <<>>
    /\ unreadable = {}
    /\ artifact = NoArtifact

Next ==
    \/ ResolveOrder
    \/ NextEntry
    \/ ReadOk
    \/ ReadFails
    \/ ScanLine
    \/ ReturnFile
    \/ EndHeaders
    \/ Assemble

(***************************************************************************)
(* A build is one chain of awaits on the context; assuming the context's  *)
(* promises settle, the next step is always taken.                        *)
(***************************************************************************)
Spec == Init /\ [][Next]_vars /\ WF_vars(Next)

-----------------------------------------------------------------------------
Abstract == INSTANCE AmalgamationSpec

\* Everything emitted so far: both results and the frames' pending text.
Emitted == headers \o sources \o FlattenSeq([k \in DOMAIN stack |-> stack[k].content])

\* The artifact's two bodies.
Body == artifact.header \o artifact.impl

TypeOK ==
    /\ phase \in {"order", "headers", "sources", "done"}
    /\ entry \in 1 .. Len(CurrentList) + 1
    /\ processed \subseteq TargetFiles(Tree, Target)
    /\ unreadable \subseteq TargetFiles(Tree, Target)
    /\ \A k \in DOMAIN stack :
           /\ stack[k].path \in TargetFiles(Tree, Target)
           /\ stack[k].idx \in 0 .. Len(text[stack[k].path]) + 1
    /\ artifact.assembled <=> phase = "done"

(***************************************************************************)
(* Cycle safety: a path is never expanded while an expansion of it is     *)
(* still on the stack, so a self include or an include cycle (Foo.h ->    *)
(* Internal/FooInternal.h -> ../Foo.h) stops at the processed check.      *)
(***************************************************************************)
NoReentry ==
    \A i, j \in DOMAIN stack : i < j => stack[i].path # stack[j].path

(***************************************************************************)
(* Dedup: no line of any file, and no file's banner, is emitted twice,    *)
(* across the header and the implementation phase together: a header     *)
(* reached again from a .cpp contributes nothing the second time.        *)
(***************************************************************************)
EmittedOnce ==
    LET lines == SelectSeq(Emitted, LAMBDA o : o.f # <<>>)
    IN  Cardinality(Range(lines)) = Len(lines)

(***************************************************************************)
(* The file an order entry names, as the spec describes the resolution:   *)
(* the first path under Libraries/<Target>/ whose file name is the entry, *)
(* or which ends with "/" and the entry.                                  *)
(***************************************************************************)
NamedFile(e) ==
    LET k == SelectInSeq(Tree, LAMBDA p : /\ UnderLibrary(p, Target)
                                          /\ \/ Basename(p) = e
                                             \/ StrEndsWith(PathString(p), "/" \o e))
    IN  IF k = 0 THEN <<>> ELSE Tree[k]

(***************************************************************************)
(* Spec 4.2: an include is expanded when the path it resolves to exists   *)
(* and belongs to a recognized library root (Libraries/ or               *)
(* LibrariesExtra/) and its owning library is the target.                *)
(***************************************************************************)
SpecIncluded(p, l) ==
    LET q == JoinPath(DirOf(p), l.arg)
    IN  IF /\ l.kind = "include" /\ q \in Range(Tree)
           /\ Len(q) > 1 /\ q[1] \in {"Libraries", "LibrariesExtra"} /\ q[2] = Target
        THEN {q} ELSE {}

IncludesOf(p) == UNION {SpecIncluded(p, l) : l \in Range(text[p])}

RECURSIVE ReachFrom(_)
ReachFrom(S) ==
    LET nxt == S \cup UNION {IncludesOf(p) : p \in S \ unreadable}
    IN  IF nxt = S THEN S ELSE ReachFrom(nxt)

(***************************************************************************)
(* Completeness and isolation: the files whose text is in the artifact    *)
(* are exactly the readable files reachable from the files the two orders *)
(* name, through includes of the target library.  Nothing named or        *)
(* reached is lost; nothing of another library is inlined.                *)
(***************************************************************************)
ReachableInlined ==
    phase = "done" =>
        LET named == {NamedFile(e) : e \in Range(headerFiles) \cup Range(sourceFiles)} \ {<<>>}
        IN  {Body[k].f : k \in DOMAIN Body} \ {<<>>} = ReachFrom(named) \ unreadable

(***************************************************************************)
(* The banner's license block agrees with the body: the holders are those *)
(* of the body's copyright lines, most frequent first, ties in order of   *)
(* first appearance, and the SPDX line lists the body's identifiers in    *)
(* order.  The code counts while scanning, across both phases.            *)
(***************************************************************************)
LicenseBlockMatchesBody ==
    phase = "done" =>
        /\ artifact.authors = Abstract!BannerAuthors(Body)
        /\ artifact.spdx = Abstract!BannerSpdx(Body)

(***************************************************************************)
(* Termination: every build returns an artifact, whatever cycles the     *)
(* include graph has and whichever reads fail.                            *)
(***************************************************************************)
Termination == <>(phase = "done")

(***************************************************************************)
(* The step-by-step build implements AmalgamationSpec: the artifact is    *)
(* the depth-first expansion in order, each include expanded at its site. *)
(***************************************************************************)
AbstractSpec == Abstract!Spec

(***************************************************************************)
(* Spec 4.2 step 2: the provenance banner is prepended only to a file     *)
(* nested below its library's folder, not to a direct child.              *)
(***************************************************************************)
BannerOnlyForNested ==
    \A k \in DOMAIN Emitted :
        Emitted[k].i <= 0 /\ Emitted[k].f # <<>> => Len(Emitted[k].f) > 3

(***************************************************************************)
(* Spec 7: an include whose target does not resolve is dropped silently,  *)
(* so no #include line reaches the artifact.                              *)
(***************************************************************************)
UnresolvedIncludeDropped ==
    \A k \in DOMAIN Emitted : Emitted[k].line.kind # "include"
=============================================================================
