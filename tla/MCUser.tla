------------------------------- MODULE MCUser -------------------------------
(***************************************************************************)
(* One run for the programs outside of the kernel, which share no state:   *)
(* init with the shell and what it runs, the parser of the shell on every  *)
(* short line, grep, the allocator of the user library, and mkfs.  part    *)
(* says which of them moves; the others stay in their initial states.      *)
(***************************************************************************)
EXTENDS Shell, Layout

CONSTANTS
    MaxLine,       \* bound: the length of the lines that are parsed
    BUFSIZE, Patterns, Inputs,
    HDR, MINCORE, HeapStart, Limit, Requests, Gaps,
    BSIZE, NDIRECT, MaxFiles, Lengths

VARIABLES
    typed,                                                \* a line for the parser
    re, input, rest, buf, out, done,                     \* Grep
    heap, live, gap,                                     \* Umalloc
    files, made, disk, dinode, bitmap, freeinode, freeblock, todo, app, pc,  \* Mkfs
    part

grepVars == <<re, input, rest, buf, out, done>>
heapVars == <<heap, live, gap>>
mkfsVars == <<files, made, disk, dinode, bitmap, freeinode, freeblock, todo, app, pc>>

Gram == INSTANCE ShGrammar
Gr == INSTANCE Grep
Um == INSTANCE Umalloc
Mk == INSTANCE Mkfs

MCInit ==
    /\ part \in {"shell", "parser", "grep", "umalloc", "mkfs"}
    /\ part # "grep" => re = <<>> /\ input = <<>>
    /\ part # "mkfs" => files = <<>>
    /\ Init /\ Gr!Init /\ Um!Init /\ Mk!Init
    /\ typed = <<>>

\* The line grows by one character.
Type ==
    /\ Len(typed) < MaxLine
    /\ \E c \in {"a", " "} \cup Symbols : typed' = Append(typed, c)

\* A process of the shell takes a step; GetCmd is left to whoever types.
Runs == part = "shell" /\ (\E p \in Slot : Step(p)) /\ UNCHANGED <<typed, grepVars, heapVars, mkfsVars, part>>

MCNext ==
    \/ Runs
    \/ part = "shell" /\ (\E p \in Slot : GetCmd(p)) /\ UNCHANGED <<typed, grepVars, heapVars, mkfsVars, part>>
    \/ part = "parser" /\ Type /\ UNCHANGED <<vars, grepVars, heapVars, mkfsVars, part>>
    \/ part = "grep" /\ Gr!Next /\ UNCHANGED <<vars, typed, heapVars, mkfsVars, part>>
    \/ part = "umalloc" /\ Um!Next /\ UNCHANGED <<vars, typed, grepVars, mkfsVars, part>>
    \/ part = "mkfs" /\ Mk!Next /\ UNCHANGED <<vars, typed, grepVars, heapVars, part>>

allVars == <<vars, typed, grepVars, heapVars, mkfsVars, part>>

\* While a process of the shell can run, one of them runs; nobody has to type.
MCSpec == MCInit /\ [][MCNext]_allVars /\ WF_allVars(Runs)

-----------------------------------------------------------------------------
(* Instances.                                                              *)

\* e|c|c>f   c<f&   (e;c<f)|s   n|c<n   |>   and cd
MCLines ==
    {<<"e", "|", "c", "|", "c", ">", "f">>, <<"c", "<", "f", "&">>,
     <<"(", "e", ";", "c", "<", "f", ")", "|", "s">>, <<"n", "|", "c", "<", "n">>, <<"|", ">">>,
     <<"cd">>}

\* Every sequence of at most n members of S.
UpTo(S, n) == UNION {[1 .. k -> S] : k \in 0 .. n}

MCPatterns == UpTo({"a", ".", "*", "^", "$"}, 3)

\* Inputs in which every line, with its newline, fits in the buffer of grep.
MCInputs ==
    {s \in UpTo({"a", "b", "n"}, 4) :
        \A i \in 1 .. Len(s) - BUFSIZE + 2 : \E j \in i .. i + BUFSIZE - 2 : s[j] = "n"}

-----------------------------------------------------------------------------
(* The properties (PromptReturns, ForegroundDone, ProgramsWired: Shell).   *)

\* parsecmd() returns the tree that the grammar gives to the line, or panics when
\* there is none, and after nulterminate() every word of the tree ends where it
\* ends in the line.
ParsesGrammar ==
    part = "parser" =>
        LET cmd == parsecmd(typed)
            text == nulterminate(cmd, typed)
        IN  /\ cmd = Gram!CommandRef(typed)
            /\ \A w \in WordsOf(cmd) : Gram!Seen(text, w) = SubSeq(typed, w[1], w[2] - 1)

\* grep() prints the lines in which the pattern occurs.
GrepPrints == part = "grep" => Gr!GrepPrints

\* malloc() and free() keep the heap in one piece, each unit in one block.
HeapPartitioned == part = "umalloc" => Um!HeapPartitioned

\* The kernel finds in the image of mkfs the files that mkfs was given.
ImageConsistent == part = "mkfs" => Mk!ImageConsistent
=============================================================================
