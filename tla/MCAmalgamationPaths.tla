------------------------ MODULE MCAmalgamationPaths ------------------------
(***************************************************************************)
(* Checks joinPath against a reference normalisation over every relative   *)
(* include token of up to MaxSegments segments, from every directory a     *)
(* file of the model repository can live in.  The state machine only      *)
(* enumerates inputs: it starts with a one-segment token and appends one   *)
(* segment per step.                                                       *)
(***************************************************************************)
EXTENDS AmalgamationPaths

CONSTANTS
    Dirs,         \* directories of including files (segment sequences)
    Segments,     \* segment alphabet of include tokens
    MaxSegments   \* bound on the number of segments of a token

VARIABLES dir, rel

vars == <<dir, rel>>

Init ==
    /\ dir \in Dirs
    /\ rel \in {<<s>> : s \in Segments \ {""}}

ExtendToken ==
    /\ Len(rel) < MaxSegments
    /\ \E s \in Segments : rel' = Append(rel, s)
    /\ UNCHANGED dir

Spec == Init /\ [][ExtendToken]_vars

(***************************************************************************)
(* Reference: drop "" and "." segments, then let the leftmost ".." cancel  *)
(* the name before it (or vanish when it leads), until no ".." is left.   *)
(***************************************************************************)
RECURSIVE CancelUp(_)
CancelUp(c) ==
    LET i == SelectInSeq(c, LAMBDA x : x = "..")
    IN  CASE i = 0 -> c
          [] i = 1 -> CancelUp(Tail(c))
          [] OTHER -> CancelUp(SubSeq(c, 1, i - 2) \o SubSeq(c, i + 1, Len(c)))

RefNormalize(parts) ==
    LET n == CancelUp(SelectSeq(parts, LAMBDA x : x \notin {"", "."}))
    IN  IF n = <<>> THEN <<"">> ELSE n

(***************************************************************************)
(* joinPath resolves a relative #include token against the including      *)
(* file's directory to the normalised path: no ".", ".." or empty segment  *)
(* survives, and a ".." above the repository root is dropped.  This is    *)
(* what makes includes such as "../Foo.h" from Internal/ find Foo.h in     *)
(* the tree set.                                                           *)
(***************************************************************************)
JoinPathNormalizes ==
    rel[1] # "" => JoinPath(dir, rel) = RefNormalize(dir \o rel)
=============================================================================
