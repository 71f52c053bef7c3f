------------------------------- MODULE ShParse ------------------------------
(***************************************************************************)
(* The command line parser of the shell (sh.c).  A line is a sequence of   *)
(* characters; a pointer into it is an index, and es, one past the last    *)
(* character, holds the NUL.  Words are kept as the parser keeps them, as  *)
(* the pair <<q, eq>> of their first index and the one after their last.   *)
(* A parsing function returns the tree and the index where it stopped; a   *)
(* panic(), which ends the child that parses, gives Panic.                 *)
(***************************************************************************)
EXTENDS Integers, Sequences, FiniteSetsExt, SequencesExt

CONSTANT MAXARGS       \* slots of argv[], one of them for the final null

NUL == "0"
White == {" "}
Symbols == {"<", "|", ">", "&", ";", "(", ")"}

Es(line) == Len(line) + 1

Char(line, s) == IF s = Es(line) THEN NUL ELSE line[s]

\* The first index from s on that is es or whose character is not in C.
SkipAll(line, s, C) ==
    Min({i \in s .. Es(line) : i = Es(line) \/ line[i] \notin C} \cup {Es(line)})

\* The first index from s on that is es or whose character is in C.
SkipTo(line, s, C) ==
    Min({i \in s .. Es(line) : i = Es(line) \/ line[i] \in C} \cup {Es(line)})

\* The token that starts at q: its kind, where it ends, where the next one starts.
TokenAt(line, q) ==
    LET c == Char(line, q)
        append == c = ">" /\ Char(line, q + 1) = ">"
        eq == CASE c = NUL -> q
                [] c \in Symbols -> IF append THEN q + 2 ELSE q + 1
                [] OTHER -> SkipTo(line, q, White \cup Symbols)
    IN  [tok |-> CASE c \in Symbols \cup {NUL} -> IF append THEN "+" ELSE c
                   [] OTHER -> "a",
         q |-> q, eq |-> eq, s |-> SkipAll(line, eq, White)]

gettoken(line, ps) == TokenAt(line, SkipAll(line, ps, White))

peek(line, ps, toks) == Char(line, SkipAll(line, ps, White)) \in toks

\* The index after the next token.
Past(line, ps) == gettoken(line, ps).s

Execcmd(argv) == [type |-> "EXEC", argv |-> argv]
Redircmd(cmd, file, fd) == [type |-> "REDIR", cmd |-> cmd, file |-> file, fd |-> fd]
Pipecmd(left, right) == [type |-> "PIPE", left |-> left, right |-> right]
Listcmd(left, right) == [type |-> "LIST", left |-> left, right |-> right]
Backcmd(cmd) == [type |-> "BACK", cmd |-> cmd]

Panic == [cmd |-> [type |-> "panic"], s |-> 0]

At(cmd, s) == [cmd |-> cmd, s |-> s]

\* parseexec() adds words to argv while the tree already has redirections on top
\* of the EXEC node: Wrap puts the redirections (innermost first) on a command.
Wrap(cmd, redirs) == FoldLeft(LAMBDA c, r : Redircmd(c, r.file, r.fd), cmd, redirs)

\* The loop of parseredirs(): the redirections from ps on, after those of acc.
RECURSIVE Redirs(_, _, _)

\* After the operator op: the token w has to be a word, the name of the file.
RedirTo(line, op, w, acc) ==
    IF w.tok # "a" THEN [redirs |-> acc, s |-> 0]
    ELSE Redirs(line, w.s, Append(acc, [file |-> <<w.q, w.eq>>, fd |-> IF op = "<" THEN 0 ELSE 1]))

Redirs(line, ps, acc) ==
    IF ~peek(line, ps, {"<", ">"}) THEN [redirs |-> acc, s |-> ps]
    ELSE RedirTo(line, gettoken(line, ps).tok, gettoken(line, Past(line, ps)), acc)

parseredirs(cmd, line, ps) ==
    LET r == Redirs(line, ps, <<>>) IN IF r.s = 0 THEN Panic ELSE At(Wrap(cmd, r.redirs), r.s)

\* argc >= MAXARGS, after argc++
TooMany(argc) == argc >= MAXARGS

\* The loop of parseexec(), with the words and redirections it has so far.
RECURSIVE Words(_, _, _, _)

\* After a word, with the redirections r that follow it.
NextWord(line, argv, r) ==
    IF TooMany(Len(argv)) \/ r.s = 0 THEN Panic ELSE Words(line, r.s, argv, r.redirs)

Argument(line, t, argv, redirs) ==
    CASE t.tok = NUL -> At(Wrap(Execcmd(argv), redirs), t.s)
      [] t.tok = "a" -> NextWord(line, Append(argv, <<t.q, t.eq>>), Redirs(line, t.s, redirs))
      [] OTHER -> Panic

Words(line, ps, argv, redirs) ==
    IF peek(line, ps, {"|", ")", "&", ";"}) THEN At(Wrap(Execcmd(argv), redirs), ps)
    ELSE Argument(line, gettoken(line, ps), argv, redirs)

RECURSIVE parseline(_, _), parsepipe(_, _), parseexec(_, _)

\* After the line l inside of brackets.
EndBlock(line, l) ==
    IF l = Panic \/ ~peek(line, l.s, {")"}) THEN Panic
    ELSE parseredirs(l.cmd, line, Past(line, l.s))

parseblock(line, ps) == EndBlock(line, parseline(line, Past(line, ps)))

\* After the redirections r at the start of a command.
FirstWord(line, r) == IF r.s = 0 THEN Panic ELSE Words(line, r.s, <<>>, r.redirs)

parseexec(line, ps) ==
    IF peek(line, ps, {"("}) THEN parseblock(line, ps) ELSE FirstWord(line, Redirs(line, ps, <<>>))

\* Mutated parsepipe(): the pipe is built from the left.
Piped_left(left, right) ==
    IF right.type # "PIPE" THEN Pipecmd(left, right)
    ELSE Pipecmd(Pipecmd(left, right.left), right.right)

\* pipecmd(cmd, parsepipe(ps, es))
Piped(left, right) == Pipecmd(left, right)

PipeTo(l, r) == IF r = Panic THEN Panic ELSE At(Piped(l.cmd, r.cmd), r.s)

PipeRest(line, l) ==
    IF l = Panic \/ ~peek(line, l.s, {"|"}) THEN l
    ELSE PipeTo(l, parsepipe(line, Past(line, l.s)))

parsepipe(line, ps) == PipeRest(line, parseexec(line, ps))

\* The loop of parseline() over &.
RECURSIVE Backs(_, _)
Backs(line, l) ==
    IF l = Panic \/ ~peek(line, l.s, {"&"}) THEN l
    ELSE Backs(line, At(Backcmd(l.cmd), Past(line, l.s)))

ListTo(l, r) == IF r = Panic THEN Panic ELSE At(Listcmd(l.cmd, r.cmd), r.s)

LineRest(line, l) ==
    IF l = Panic \/ ~peek(line, l.s, {";"}) THEN l
    ELSE ListTo(l, parseline(line, Past(line, l.s)))

parseline(line, ps) == LineRest(line, Backs(line, parsepipe(line, ps)))

\* The words of a tree: arguments and files of redirections.
RECURSIVE WordsOf(_)
WordsOf(cmd) ==
    CASE cmd.type = "EXEC" -> Range(cmd.argv)
      [] cmd.type = "REDIR" -> {cmd.file} \cup WordsOf(cmd.cmd)
      [] cmd.type = "BACK" -> WordsOf(cmd.cmd)
      [] cmd.type \in {"LIST", "PIPE"} -> WordsOf(cmd.left) \cup WordsOf(cmd.right)
      [] OTHER -> {}

\* nulterminate(): the line with a NUL after every word.
nulterminate(cmd, line) ==
    [i \in 1 .. Es(line) |-> IF \E w \in WordsOf(cmd) : w[2] = i THEN NUL ELSE Char(line, i)]

\* After the line l, nothing may be left.
Whole(line, l) == IF l = Panic \/ SkipAll(line, l.s, White) # Es(line) THEN Panic.cmd ELSE l.cmd

parsecmd(line) == Whole(line, parseline(line, 1))
=============================================================================
