-------------------------------- MODULE Grep --------------------------------
(***************************************************************************)
(* grep (grep.c): the matcher, and the loop of grep() that cuts what       *)
(* read() delivers into lines.  Characters are members of a set, a string  *)
(* is a sequence of them without its NUL; a read() is a step.              *)
(* A read() delivers all that fits in the buffer, or all there is, or      *)
(* stops after a character that completes a line (a console, or a file).   *)
(***************************************************************************)
EXTENDS Integers, Sequences, FiniteSetsExt, SequencesExt

CONSTANTS
    BUFSIZE,       \* sizeof(buf)
    Patterns,      \* regular expressions
    Inputs         \* contents of the file

VARIABLES
    re, input,     \* the pattern and the whole input
    rest,          \* what is not read yet
    buf,           \* buf[0..m-1]: the start of a line
    out,           \* what was written
    done           \* read() returned 0

vars == <<re, input, rest, buf, out, done>>

NL == "n"

-----------------------------------------------------------------------------
(* The matcher.                                                            *)

From(s, i) == SubSeq(s, i, Len(s))

\* A * matches zero or more: the loop tries re before it looks at the text.
Least == 0

RECURSIVE matchhere(_, _)

\* c*re at the start of text: after some characters that all match c.
matchstar(c, r, text) ==
    \E k \in Least .. Len(text) : (\A i \in 1 .. k : c \in {".", text[i]}) /\ matchhere(r, From(text, k + 1))

matchhere(r, text) ==
    CASE r = <<>> -> TRUE
      [] Len(r) > 1 /\ r[2] = "*" -> matchstar(r[1], From(r, 3), text)
      [] r = <<"$">> -> text = <<>>
      [] OTHER -> text # <<>> /\ r[1] \in {".", text[1]} /\ matchhere(Tail(r), Tail(text))

match(r, text) ==
    IF r # <<>> /\ r[1] = "^" THEN matchhere(Tail(r), text)
    ELSE \E i \in 1 .. Len(text) + 1 : matchhere(r, From(text, i))

-----------------------------------------------------------------------------
(* grep()                                                                  *)

Init ==
    /\ re \in Patterns /\ input \in Inputs
    /\ rest = input
    /\ buf = <<>> /\ out = <<>> /\ done = FALSE

\* The lines of s, each with its newline.
LinesOf(s) ==
    LET ends == SelectSeq([i \in 1 .. Len(s) |-> i], LAMBDA i : s[i] = NL)
    IN  [k \in 1 .. Len(ends) |-> SubSeq(s, IF k = 1 THEN 1 ELSE ends[k - 1] + 1, ends[k])]

\* What is left of s after its last newline.
Remainder(s) == From(s, Max({i \in 1 .. Len(s) : s[i] = NL} \cup {0}) + 1)

Written(s) == FlattenSeq(SelectSeq(LinesOf(s), LAMBDA l : match(re, Front(l))))

\* Mutated grep(): the start of a line is not kept.
Kept_none(s) == <<>>

\* m and memmove(): the start of a line is kept, unless the buffer has no newline.
Kept(s) == IF NL \in Range(s) THEN Remainder(s) ELSE <<>>

\* A turn of the loop, read() having returned n.
Turn(n) ==
    /\ ~done
    /\ n = Min({BUFSIZE - Len(buf) - 1, Len(rest)}) \/ (n \in 1 .. BUFSIZE - Len(buf) - 1 /\ rest[n] = NL)
    /\ LET s == buf \o SubSeq(rest, 1, n)
       IN  /\ out' = IF n = 0 THEN out ELSE out \o Written(s)
           /\ buf' = IF n = 0 THEN buf ELSE Kept(s)
    /\ rest' = From(rest, n + 1)
    /\ done' = (n = 0)
    /\ UNCHANGED <<re, input>>

Next == \E n \in 0 .. Len(rest) : Turn(n)

Spec == Init /\ [][Next]_vars

-----------------------------------------------------------------------------
(* What grep should print.                                                 *)

\* A regular expression as the sequence of its items, a character and whether a
\* star follows it; "end" is the final $.
RECURSIVE Items(_)
Items(r) ==
    CASE r = <<>> -> <<>>
      [] r = <<"$">> -> <<[c |-> "end", star |-> FALSE]>>
      [] Len(r) > 1 /\ r[2] = "*" -> <<[c |-> r[1], star |-> TRUE]>> \o Items(From(r, 3))
      [] OTHER -> <<[c |-> r[1], star |-> FALSE]>> \o Items(Tail(r))

\* text contains a match: it can be cut so that the i-th item of the expression
\* covers the characters after cut i up to cut i + 1.
Denotes(r, text) ==
    LET items == Items(IF r # <<>> /\ r[1] = "^" THEN Tail(r) ELSE r)
        n == Len(items)
        covers(x, a, b) ==
            /\ a <= b
            /\ IF x.c = "end" THEN a = Len(text) /\ b = a
               ELSE /\ \A i \in a + 1 .. b : x.c \in {".", text[i]}
                    /\ x.star \/ b = a + 1
    IN  \E cut \in [1 .. n + 1 -> 0 .. Len(text)] :
            /\ r # <<>> /\ r[1] = "^" => cut[1] = 0
            /\ \A i \in 1 .. n : covers(items[i], cut[i], cut[i + 1])

\* When grep() has read everything it has written the lines in which the pattern
\* occurs, in order, each once and whole, however read() cut them; a last line
\* without newline is not looked at.  Lines fit in the buffer.
GrepPrints ==
    done => out = FlattenSeq(SelectSeq(LinesOf(input), LAMBDA l : Denotes(re, Front(l))))
=============================================================================
