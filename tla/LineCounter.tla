---------------------------- MODULE LineCounter ----------------------------
(***************************************************************************)
(* countLoc (amalgamationCore.js) on the text itself: the split on        *)
(* /\r?\n/, trim(), startsWith and includes are the string operations, so  *)
(* line endings, whitespace-only lines and comment markers inside a line  *)
(* are handled as the code handles them.                                  *)
(***************************************************************************)
EXTENDS Naturals, Sequences

Whitespace == {" ", "\t", "\r"}

Char(s, i) == SubSeq(s, i, i)

StartsWith(s, p) == Len(p) <= Len(s) /\ SubSeq(s, 1, Len(p)) = p

Includes(s, p) == \E i \in 1 .. Len(s) - Len(p) + 1 : SubSeq(s, i, i + Len(p) - 1) = p

\* String.prototype.trim, for the whitespace the model's texts contain.
RECURSIVE TrimEnd(_)
TrimEnd(s) == IF s # "" /\ Char(s, Len(s)) \in Whitespace THEN TrimEnd(SubSeq(s, 1, Len(s) - 1)) ELSE s

RECURSIVE TrimStart(_)
TrimStart(s) == IF s # "" /\ Char(s, 1) \in Whitespace THEN TrimStart(SubSeq(s, 2, Len(s))) ELSE s

Trim(s) == TrimStart(TrimEnd(s))

(***************************************************************************)
(* content.split(/\r?\n/): cut at each "\n", dropping one "\r" before it;  *)
(* the piece after the last "\n" (empty when the text ends with one) is   *)
(* the last line.                                                          *)
(***************************************************************************)
RECURSIVE SplitLines(_)
SplitLines(s) ==
    LET nl == {i \in 1 .. Len(s) : Char(s, i) = "\n"}
    IN  IF nl = {} THEN <<s>>
        ELSE LET i    == CHOOSE i \in nl : \A j \in nl : i <= j
                 cut  == IF i > 1 /\ Char(s, i - 1) = "\r" THEN i - 2 ELSE i - 1
             IN  <<SubSeq(s, 1, cut)>> \o SplitLines(SubSeq(s, i + 1, Len(s)))

\* The duplicate countLoc of app.js (lines 265-281): blank lines skipped.
LocStepSkipsBlank(acc, line) ==
    LET s == Trim(line)
    IN  CASE s = ""                -> acc
          [] acc.inBlock           -> [acc EXCEPT !.comments = @ + 1, !.inBlock = ~Includes(s, "*/")]
          [] StartsWith(s, "//")   -> [acc EXCEPT !.comments = @ + 1]
          [] StartsWith(s, "/*")   -> [acc EXCEPT !.comments = @ + 1, !.inBlock = ~Includes(s, "*/")]
          [] OTHER                 -> [acc EXCEPT !.code = @ + 1]

\* One iteration of the loop over the lines.
LocStep(acc, line) ==
    LET s == Trim(line)
    IN  CASE s = ""                -> [acc EXCEPT !.comments = @ + 1]
          [] acc.inBlock           -> [acc EXCEPT !.comments = @ + 1, !.inBlock = ~Includes(s, "*/")]
          [] StartsWith(s, "//")   -> [acc EXCEPT !.comments = @ + 1]
          [] StartsWith(s, "/*")   -> [acc EXCEPT !.comments = @ + 1, !.inBlock = ~Includes(s, "*/")]
          [] OTHER                 -> [acc EXCEPT !.code = @ + 1]

RECURSIVE LocFold(_, _)
LocFold(acc, lines) ==
    IF lines = <<>> THEN acc ELSE LocFold(LocStep(acc, Head(lines)), Tail(lines))

\* countLoc(content): the counts, with comments-- for the final newline.
CountLoc(content) ==
    LET r == LocFold([code |-> 0, comments |-> 0, inBlock |-> FALSE], SplitLines(content))
    IN  [code |-> r.code, comments |-> r.comments - 1]
=============================================================================
