------------------------------ MODULE ShGrammar -----------------------------
(***************************************************************************)
(* What the parser of sh.c should return: the grammar of command lines     *)
(*     line ::= pipe {"&"} [";" line]        pipe ::= exec ["|" pipe]      *)
(*     exec ::= {redir | word}  |  "(" line ")" {redir}                    *)
(*     redir ::= ("<" | ">" | ">>") word                                   *)
(* read from outside in: the line is cut into tokens once, and a range of  *)
(* tokens is split at the first operator outside of all brackets.  Nothing *)
(* is shared with the functions of sh.c but the constructors of the tree.  *)
(***************************************************************************)
EXTENDS ShParse

Blank(c) == c \in White
Plain(c) == c \notin White \cup Symbols

\* The tokens of a line, as ranges of its indices: every maximal run of plain
\* characters, every symbol; of a run of n signs > every second starts one.
Tokens(line) ==
    LET Run(i, P(_)) == Max({j \in 0 .. i : \A k \in i - j + 1 .. i : P(line[k])})
        IsGt(c) == c = ">"
        Starts(i) ==
            CASE Blank(line[i]) -> FALSE
              [] Plain(line[i]) -> i = 1 \/ ~Plain(line[i - 1])
              [] IsGt(line[i]) -> Run(i, IsGt) % 2 = 1
              [] OTHER -> TRUE
        End(i) ==
            Max({j \in i .. Len(line) :
                    \/ j = i
                    \/ \A k \in i .. j : Plain(line[k])
                    \/ j = i + 1 /\ line[i] = ">" /\ line[j] = ">"}) + 1
        Kind(i) == IF Plain(line[i]) THEN "word" ELSE IF line[i] = ">" THEN "out" ELSE line[i]
        starts == SelectSeq([i \in 1 .. Len(line) |-> i], Starts)
    IN  [k \in 1 .. Len(starts) |-> <<starts[k], End(starts[k]), Kind(starts[k])>>]

\* The depth of brackets before token i.
Depth(ts, i) ==
    Cardinality({j \in 1 .. i - 1 : ts[j][3] = "("}) - Cardinality({j \in 1 .. i - 1 : ts[j][3] = ")"})

\* The tokens of the kinds K outside of brackets.
Outside(ts, K) == {i \in 1 .. Len(ts) : Depth(ts, i) = 0 /\ ts[i][3] \in K}

Bad == Panic.cmd
NoCmd == [type |-> "none"]

Word(t) == <<t[1], t[2]>>

\* A sequence of words and redirections, the latter put on cmd (or on the EXEC of
\* the words when cmd is NoCmd).
SimpleRef(ts, cmd) ==
    LET isFile(i) == i > 1 /\ ts[i - 1][3] \in {"<", "out"}
        args == SelectSeq([i \in 1 .. Len(ts) |-> <<i, ts[i]>>],
                          LAMBDA x : x[2][3] = "word" /\ ~isFile(x[1]))
        argv == [i \in 1 .. Len(args) |-> Word(args[i][2])]
        files == SelectSeq([i \in 1 .. Len(ts) |-> <<i, ts[i]>>], LAMBDA x : isFile(x[1]))
        redirs == [i \in 1 .. Len(files) |->
                      [file |-> Word(files[i][2]), fd |-> IF ts[files[i][1] - 1][3] = "<" THEN 0 ELSE 1]]
        wellFormed == \A i \in 1 .. Len(ts) :
                          /\ ts[i][3] \in {"word", "<", "out"}
                          /\ isFile(i) => ts[i][3] = "word"
                          /\ ts[i][3] # "word" => i < Len(ts)
    IN  CASE ~wellFormed -> Bad
          [] cmd = NoCmd -> IF Len(argv) >= MAXARGS THEN Bad ELSE Wrap(Execcmd(argv), redirs)
          [] OTHER -> IF argv # <<>> \/ cmd = Bad THEN Bad ELSE Wrap(cmd, redirs)

RECURSIVE LineRef(_)

ExecRef(ts) ==
    LET close == {i \in 1 .. Len(ts) : ts[i][3] = ")" /\ Depth(ts, i) = 1}
    IN  CASE ts = <<>> \/ ts[1][3] # "(" -> SimpleRef(ts, NoCmd)
          [] close = {} -> Bad
          [] OTHER -> LET c == Min(close)
                      IN  SimpleRef(SubSeq(ts, c + 1, Len(ts)), LineRef(SubSeq(ts, 2, c - 1)))

RECURSIVE PipeRef(_)
PipeRef(ts) ==
    LET bars == Outside(ts, {"|"})
    IN  IF bars = {} THEN ExecRef(ts)
        ELSE LET l == ExecRef(SubSeq(ts, 1, Min(bars) - 1))
                 r == PipeRef(SubSeq(ts, Min(bars) + 1, Len(ts)))
             IN  IF Bad \in {l, r} THEN Bad ELSE Pipecmd(l, r)

LineRef(ts) ==
    LET ends == Outside(ts, {"&", ";"})
        first == IF ends = {} THEN Len(ts) + 1 ELSE Min(ends)
        rest == {i \in first .. Len(ts) : ts[i][3] # "&"}
        after == IF rest = {} THEN Len(ts) + 1 ELSE Min(rest)
        l == PipeRef(SubSeq(ts, 1, first - 1))
        back == FoldLeft(LAMBDA c, t : Backcmd(c), l, SubSeq(ts, first, after - 1))
        r == LineRef(SubSeq(ts, after + 1, Len(ts)))
    IN  CASE l = Bad -> Bad
          [] after > Len(ts) -> back
          [] ts[after][3] # ";" -> Bad
          [] OTHER -> IF r = Bad THEN Bad ELSE Listcmd(back, r)

CommandRef(line) == LineRef(Tokens(line))

\* What exec() and open() see of a word: the characters from its start to the
\* first NUL of the line that nulterminate() has changed.
Seen(text, w) ==
    SubSeq(text, w[1], Min({i \in w[1] .. Len(text) : text[i] = NUL}) - 1)
=============================================================================
