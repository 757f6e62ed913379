---------------------------- MODULE MCAppDownload ----------------------------
(***************************************************************************)
(* Two refs (the branch main and the tag v1), two libraries (so Download   *)
(* All loops); the cfgs bound clicks, pushes to main and re-renders.      *)
(***************************************************************************)
EXTENDS AppDownload

CONSTANTS main, v1

MCLibraryNames == <<"Async", "Strings">>
=============================================================================
