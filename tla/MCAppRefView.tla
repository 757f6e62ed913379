---------------------------- MODULE MCAppRefView ----------------------------
(***************************************************************************)
(* Two refs (the default branch and a release tag), three libraries, two  *)
(* brief workers sharing the index (fewer than the libraries, so one      *)
(* loops while the other may still be fetching), and up to                *)
(* three handler calls: the boot's onRefChanged and two user changes.     *)
(***************************************************************************)
EXTENDS AppRefView

CONSTANTS main, v1

MCLibraryNames == <<"Async", "Strings", "Sort">>
=============================================================================
