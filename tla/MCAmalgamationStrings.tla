------------------------ MODULE MCAmalgamationStrings ------------------------
(***************************************************************************)
(* A model repository for the entry-name resolution of                     *)
(* amalgamateFilesRecursively: library Strings with SmallString.h listed  *)
(* before String.h (sorted order), and an order file naming "String.h".   *)
(* The entry is a suffix of both paths.                                   *)
(***************************************************************************)
EXTENDS AmalgamationCore

SmallStringH == <<"Libraries", "Strings", "SmallString.h">>
StringH      == <<"Libraries", "Strings", "String.h">>

MCStringsTree == <<SmallStringH, StringH>>

\* SmallString.h either includes String.h or stands alone.
MCStringsTexts ==
    { (SmallStringH :> s) @@ (StringH :> <<CodeLine>>) :
        s \in {<<CodeLine>>, <<IncludeLine(<<"String.h">>)>>} }

MCStringsOrderFiles ==
    { OrderFile(<<"String.h">>, <<>>), OrderFile(<<"SmallString.h", "String.h">>, <<>>) }

MCStringsSpdxOrder == <<>>
=============================================================================
