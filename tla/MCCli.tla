------------------------------- MODULE MCCli -------------------------------
(***************************************************************************)
(* Checkouts for the CLI's listTree: the library Foo with a public header *)
(* that may be a dangling link, an optional source, an Internal directory *)
(* and an optional subdirectory Foo/ (readable or not), LibrariesExtra     *)
(* absent, readable or unreadable, and the order file present or not.     *)
(* The steps are main's (Cli); the checkout is fixed for the run.          *)
(***************************************************************************)
EXTENDS Cli

VARIABLE fs

Lib(n) == <<"Libraries", "Foo">> \o n

\* Every optional entry with the kinds it can take ("absent": not there).
EntryKinds ==
    [ foo_h     : {"file", "broken"},
      foo_cpp   : {"file", "absent"},
      sub       : {"dir", "unreadable", "absent"},
      internal  : {"dir", "unreadable"},
      extra     : {"dir", "unreadable", "absent"},
      orderFile : {"file", "absent"} ]

Checkout(c) ==
    LET entries ==
          {<< <<"Libraries">>, "dir" >>, << Lib(<< >>), "dir" >>,
           << Lib(<<"Foo.h">>), c.foo_h >>, << Lib(<<"Foo.cpp">>), c.foo_cpp >>,
           << Lib(<<"Foo">>), c.sub >>, << Lib(<<"Internal">>), c.internal >>,
           << Lib(<<"Internal", "FooInternal.h">>), "file" >>,
           << <<"LibrariesExtra">>, c.extra >>, << <<"Support">>, "dir" >>,
           << <<"Support", "SingleFileLibs">>, "dir" >>,
           << <<"Support", "SingleFileLibs", "SaneCppFoo.json">>, c.orderFile >>}
          \cup (IF c.sub = "absent" THEN {} ELSE {<< Lib(<<"Foo", "Posix.cpp">>), "file" >>})
          \cup (IF c.extra = "absent" THEN {}
                ELSE {<< <<"LibrariesExtra", "Bar">>, "dir" >>,
                      << <<"LibrariesExtra", "Bar", "Bar.h">>, "file" >>})
        present == {e \in entries : e[2] # "absent"}
    IN  [p \in {e[1] : e \in present} |-> CHOOSE k \in {e[2] : e \in {x \in present : x[1] = p}} : TRUE]

MCCheckouts == {Checkout(c) : c \in EntryKinds}

-----------------------------------------------------------------------------
(* Reference: a file is listed when it lies below an existing root and    *)
(* every directory between is readable; files under one root come in      *)
(* lexicographic order of their segment sequences, roots in their order.  *)
RECURSIVE SegLess(_, _)
SegLess(p, q) ==
    IF p = << >> \/ q = << >> THEN p = << >> /\ q # << >>
    ELSE IF Head(p) # Head(q) THEN StrLess(Head(p), Head(q)) ELSE SegLess(Tail(p), Tail(q))

ListedUnder(r, p) ==
    /\ Exists(fs, r) /\ Len(p) > Len(r) /\ SubSeq(p, 1, Len(r)) = r
    /\ fs[p] = "file"
    /\ \A n \in Len(r) .. Len(p) - 1 : fs[SubSeq(p, 1, n)] = "dir"

RefWalk ==
    Concat([k \in DOMAIN Roots |-> SetToSortSeq({p \in DOMAIN fs : ListedUnder(Roots[k], p)}, SegLess)])

(***************************************************************************)
(* listTree lists every readable file below the three roots exactly once, *)
(* relative to the repository root, in sorted depth-first order, however  *)
(* directories fail to open and entries fail to stat on the way.          *)
(***************************************************************************)
ListTreeIsSortedWalk ==
    ListTree(fs) = [k \in DOMAIN RefWalk |-> JoinSegs(RefWalk[k])]

(***************************************************************************)
(* The CLI lists the tree in the order the browser's backend gets it: the *)
(* Git trees API lists paths in code-unit order of the whole path (a      *)
(* directory sorts as its name followed by "/").  The derived header and   *)
(* source orders, and resolveToPath's first match, come from this order,  *)
(* and spec 4.1 and section 1 require one order across implementations.  *)
(***************************************************************************)
ListTreeInGitOrder ==
    LET t == ListTree(fs) IN \A j, k \in DOMAIN t : j < k => StrLess(t[j], t[k])
=============================================================================
