------------------------- MODULE MCAmalgamationCore -------------------------
(***************************************************************************)
(* A model repository for AmalgamationCore: library Foo with a public      *)
(* header, an internal header and a source file, a header of a library     *)
(* of the same name under LibrariesExtra/, and library Bar.  The           *)
(* listing order is that of cli.js's listFilesRecursive (names sorted,     *)
(* directories walked in place).  Every file's text ranges over short      *)
(* line sequences whose includes make self includes, include cycles,       *)
(* cross-library includes, unresolved includes, an include across the      *)
(* two library roots, and headers reached again from the .cpp.             *)
(***************************************************************************)
EXTENDS AmalgamationCore

BarH     == <<"Libraries", "Bar", "Bar.h">>
FooCpp   == <<"Libraries", "Foo", "Foo.cpp">>
FooH     == <<"Libraries", "Foo", "Foo.h">>
FooIntH  == <<"Libraries", "Foo", "Internal", "FooInternal.h">>
\* A header of the same-named library under the second root.
ExtraH   == <<"LibrariesExtra", "Foo", "FooExtra.h">>

MCTree == <<BarH, FooCpp, FooH, FooIntH, ExtraH>>

\* Include tokens; each resolves differently from Libraries/Foo and from Internal/.
IncInternal == IncludeLine(<<"Internal", "FooInternal.h">>)
IncUp       == IncludeLine(<<"..", "Foo.h">>)
IncBar      == IncludeLine(<<"..", "Bar", "Bar.h">>)
IncFoo      == IncludeLine(<<"Foo.h">>)
IncExtra    == IncludeLine(<<"..", "..", "LibrariesExtra", "Foo", "FooExtra.h">>)

\* Texts of one or two lines over an alphabet.
TextsOver(A) == {s \in BoundedSeq(A, 2) : Len(s) >= 1}

\* Copyright and SPDX comments are emitted like code, and also counted.
Jane == CopyrightLine("Jane Doe")
John == CopyrightLine("John Roe")

MCTexts ==
    { (BarH :> <<CodeLine>>) @@ (ExtraH :> <<CodeLine>>) @@ (FooH :> h) @@ (FooIntH :> i) @@ (FooCpp :> c) :
        h \in TextsOver({CodeLine, BlankLine, PragmaOnce, IncInternal, IncBar, IncFoo, IncExtra}),
        i \in TextsOver({Jane, IncUp, IncFoo}),
        c \in TextsOver({John, SpdxLine("MIT"), IncFoo, IncInternal}) }

\* A smaller space for the liveness and refinement checks: self include,
\* the Foo.h <-> FooInternal.h cycle, and the .cpp reaching Foo.h.
MCTextsSmall ==
    { (BarH :> <<CodeLine>>) @@ (ExtraH :> <<CodeLine>>) @@ (FooH :> h) @@ (FooIntH :> i) @@ (FooCpp :> c) :
        h \in TextsOver({CodeLine, IncInternal, IncFoo}),
        i \in TextsOver({CodeLine, IncUp}),
        c \in TextsOver({CodeLine, IncFoo}) }

\* For the refinement check: trailing blanks (trimmed by Finish), the
\* cross-library include, the cycle and the .cpp reaching Foo.h.
MCTextsRefine ==
    { (BarH :> <<CodeLine>>) @@ (ExtraH :> <<CodeLine>>) @@ (FooH :> h) @@ (FooIntH :> i) @@ (FooCpp :> c) :
        h \in TextsOver({CodeLine, BlankLine, IncInternal, IncBar}),
        i \in TextsOver({CodeLine, IncUp}),
        c \in TextsOver({CodeLine, IncFoo}) }

\* No order file; one naming the internal header first with no
\* implementation entries; one naming a header as an implementation entry.
MCOrderFiles ==
    { NoOrderFile,
      OrderFile(<<"FooInternal.h", "Foo.h">>, <<>>),
      OrderFile(<<"Foo.h">>, <<"Foo.cpp", "Foo.h">>) }
\* No SPDX comments in the smaller text spaces.
MCSpdxOrder == <<>>

\* "MIT" is the only SPDX id of the model texts.
MCSpdxOrderLicense == <<"MIT">>
=============================================================================
