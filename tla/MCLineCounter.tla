---------------------------- MODULE MCLineCounter ----------------------------
(***************************************************************************)
(* countLoc against the classification of spec section 4.4, over texts of *)
(* up to MaxLines lines, each ended by "\n" or "\r\n" as the amalgamation *)
(* emits them (line + eol), so the text ends with a line terminator.      *)
(***************************************************************************)
EXTENDS LineCounter, FiniteSets

CONSTANTS LineTexts, MaxLines

VARIABLES lines, eol

vars == <<lines, eol>>

Init == lines \in {<<t>> : t \in LineTexts} /\ eol \in {"\n", "\r\n"}

AppendLine ==
    /\ Len(lines) < MaxLines
    /\ \E t \in LineTexts : lines' = Append(lines, t)
    /\ UNCHANGED eol

Spec == Init /\ [][AppendLine]_vars

RECURSIVE Joined(_)
Joined(ls) == IF ls = <<>> THEN "" ELSE Head(ls) \o eol \o Joined(Tail(ls))

(***************************************************************************)
(* Section 4.4 stated over positions: line k is inside a block comment    *)
(* when some earlier line j opened one at top level (starts with "/*"     *)
(* and has no "*/") and no non-blank line between them contains "*/".     *)
(***************************************************************************)
T(k) == Trim(lines[k])

RECURSIVE RefInBlock(_)
RefInBlock(k) ==
    \E j \in 1 .. k - 1 :
        /\ ~RefInBlock(j)
        /\ T(j) # "" /\ StartsWith(T(j), "/*") /\ ~Includes(T(j), "*/")
        /\ \A m \in j + 1 .. k - 1 : ~(T(m) # "" /\ Includes(T(m), "*/"))

RefIsCode(k) ==
    /\ T(k) # ""
    /\ ~RefInBlock(k)
    /\ ~StartsWith(T(k), "//")
    /\ ~StartsWith(T(k), "/*")

RefCode == Cardinality({k \in 1 .. Len(lines) : RefIsCode(k)})

(***************************************************************************)
(* countLoc of an emitted text counts each line once, as code or comment  *)
(* per section 4.4, and its comments-- cancels exactly the empty piece    *)
(* the split leaves after the final line terminator, whichever eol.       *)
(***************************************************************************)
CountLocMatchesSpec ==
    CountLoc(Joined(lines)) = [code |-> RefCode, comments |-> Len(lines) - RefCode]
=============================================================================
