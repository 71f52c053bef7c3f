-------------------------------- MODULE Shell -------------------------------
(***************************************************************************)
(* init (init.c), the shell (main() and runcmd() of sh.c) and the programs *)
(* it runs, as processes that interact through the system calls: fork,     *)
(* exec, exit, wait, pipe, dup, open, close, read and write, each of them  *)
(* one step, as the modules of the kernel describe them.  A line is parsed *)
(* by parsecmd() of ShParse.                                               *)
(*                                                                         *)
(* A process is a record: st, parent, pc, the command tree cmd it is       *)
(* running and the line buf its words point into, its descriptors fd, the  *)
(* pair p that pipe() gave it, kid (the pid that fork() returned to init), *)
(* and the chunks that are left of the input of its program.  Data is      *)
(* counted in chunks, one for each read() and write().                     *)
(***************************************************************************)
EXTENDS ShParse

CONSTANTS
    NPROC,         \* slots of the process table
    NFD,           \* descriptors of a process (NOFILE)
    NPIPE,         \* pipes the kernel has memory for
    PIPESIZE,      \* chunks a pipe holds
    Lines,         \* what is typed
    MaxLines,      \* bound: lines typed, end of input included
    MaxFails,      \* bound: fork() that fail for lack of memory
    Chunks         \* chunks in a file, or typed at a program

VARIABLES
    proc,          \* the process table
    chunks,        \* what is in each pipe
    lines, fails,  \* what is left of MaxLines and MaxFails
    halted,        \* panic("init exiting")
    failed         \* a fork() has failed, for ForegroundDone

vars == <<proc, chunks, lines, fails, halted, failed>>

Slot == 1 .. NPROC
INIT == 1
FD == 0 .. NFD - 1

None == <<"none", 0>>
Con == <<"console", 0>>
File == <<"file", 0>>
ReadEnd(i) == <<"r", i>>
WriteEnd(i) == <<"w", i>>

\* want and bg serve the properties: the standard input and output the command
\* line asks for, and whether the process belongs to a command run with &.
Free == [st |-> "free", parent |-> 0, pc |-> "", cmd |-> Panic.cmd, buf |-> <<>>,
         fd |-> [d \in FD |-> None], p |-> <<0, 0>>, kid |-> 0, left |-> 0,
         want |-> <<Con, Con>>, bg |-> FALSE]

Init ==
    /\ proc = [c \in Slot |-> IF c = INIT THEN [Free EXCEPT !.st = "run", !.pc = "init"] ELSE Free]
    /\ chunks = [i \in 1 .. NPIPE |-> 0]
    /\ lines = MaxLines /\ fails = MaxFails
    /\ halted = FALSE /\ failed = FALSE

-----------------------------------------------------------------------------
(* Descriptors.                                                            *)

\* fdalloc(): the lowest free descriptor gets the object.
Alloc(f, o) == [f EXCEPT ![Min({d \in FD : f[d] = None})] = o]
Close(f, d) == [f EXCEPT ![d] = None]
Dup(f, d) == Alloc(f, f[d])

Holders(o) == {c \in Slot : \E d \in FD : proc[c].fd[d] = o}
Gone(i) == Holders(ReadEnd(i)) = {} /\ Holders(WriteEnd(i)) = {}

\* The step of p sets its fields by rec, and changes nothing else.
Then(p, l) == [proc[p] EXCEPT !.pc = l]
Set(p, rec) == proc' = [proc EXCEPT ![p] = rec] /\ UNCHANGED <<chunks, lines, fails, halted, failed>>
Goto(p, l) == Set(p, Then(p, l))

-----------------------------------------------------------------------------
(* fork(), wait(), exit().                                                 *)

\* p goes on at next, and its child starts as the record kid says.  fork1()
\* exits when fork() fails, and so does init.
Fork(p, next, kid) ==
    LET unused == {c \in Slot : proc[c].st = "free"}
    IN  \/ /\ unused # {}
           /\ proc' = [proc EXCEPT ![p].pc = next, ![p].kid = Min(unused),
                                   ![Min(unused)] = [kid EXCEPT !.parent = p]]
           /\ UNCHANGED <<chunks, lines, fails, halted, failed>>
        \/ /\ unused = {} \/ fails > 0
           /\ proc' = [proc EXCEPT ![p].pc = "exit"]
           /\ fails' = IF unused = {} THEN fails ELSE fails - 1
           /\ failed' = TRUE
           /\ UNCHANGED <<chunks, lines, halted>>

Children(p) == {c \in Slot : proc[c].st # "free" /\ proc[c].parent = p}

\* wait() returns c, a child that is a zombie, which it frees, or 0 when there are
\* no children; p goes on as rec says.
Wait(p, c, rec) ==
    /\ IF c = 0 THEN Children(p) = {} ELSE proc[c].st = "zombie"
    /\ proc' = [d \in Slot |-> IF d = c THEN Free ELSE IF d = p THEN rec ELSE proc[d]]
    /\ UNCHANGED <<chunks, lines, fails, halted, failed>>

\* A wait() whose value is not used.
WaitAny(p, rec) == \E c \in Children(p) \cup {0} : Wait(p, c, rec)

\* exit(): descriptors are closed, pipes without ends freed, children given to
\* init.
Exit(p) ==
    /\ proc[p].pc = "exit"
    /\ halted' = (p = INIT)
    /\ proc' = [c \in Slot |->
                   CASE c = p -> [Free EXCEPT !.st = "zombie", !.parent = proc[p].parent, !.bg = proc[p].bg]
                     [] c # p /\ c \in Children(p) -> [proc[c] EXCEPT !.parent = INIT]
                     [] OTHER -> proc[c]]
    /\ UNCHANGED <<chunks, lines, fails, failed>>

-----------------------------------------------------------------------------
(* init and the main() of the shell.                                       *)

\* The start of init: the console is descriptor 0, and 1 and 2 by dup().
InitOpen(p) ==
    /\ proc[p].pc = "init"
    /\ Set(p, [proc[p] EXCEPT !.fd = Dup(Dup(Alloc(@, Con), 0), 0), !.pc = "startsh"])

\* fork() and, in the child, exec("sh").
StartSh(p) == proc[p].pc = "startsh" /\ Fork(p, "reap", [proc[p] EXCEPT !.pc = "sh"])

\* while((wpid=wait()) >= 0 && wpid != pid)
Reap(p) ==
    /\ proc[p].pc = "reap"
    /\ \E c \in Children(p) \cup {0} :
          Wait(p, c, Then(p, IF c = 0 \/ c = proc[p].kid THEN "startsh" ELSE "reap"))

\* The shell opens the console until it gets descriptor 3, and closes that.
ShOpen(p) ==
    /\ proc[p].pc = "sh"
    /\ Set(p, [proc[p] EXCEPT !.fd = [d \in FD |-> IF d < 3 /\ @[d] = None THEN Con ELSE @[d]],
                              !.pc = "prompt"])

IsCd(line) == line[1] = "cd"

\* getcmd() reads a line, or nothing at the end of input.
GetCmd(p) ==
    /\ proc[p].pc = "prompt" /\ lines > 0 /\ ~halted
    /\ lines' = lines - 1
    /\ \/ proc' = [proc EXCEPT ![p].pc = "exit"]
       \/ \E line \in Lines : proc' = [proc EXCEPT ![p].buf = line,
                                 ![p].pc = IF IsCd(line) THEN "prompt" ELSE "fork"]
    /\ UNCHANGED <<chunks, fails, halted, failed>>

\* What parsecmd() makes of each line.
Tree == [line \in Lines |-> parsecmd(line)]

\* if(fork1() == 0) runcmd(parsecmd(buf));
ForkCmd(p) ==
    /\ proc[p].pc = "fork"
    /\ Fork(p, "wait", [proc[p] EXCEPT !.pc = "run", !.cmd = Tree[proc[p].buf]])

\* The wait() of main().
ShWait(p) == proc[p].pc = "wait" /\ WaitAny(p, Then(p, "prompt"))

-----------------------------------------------------------------------------
(* runcmd().                                                               *)

Running(p, type) == proc[p].pc = "run" /\ proc[p].cmd.type = type

\* The first character of a word names a program or a file: c is cat, e echo, s
\* a program that only exits, f a file that exists, n nothing.
Name(p, w) == proc[p].buf[w[1]]

RunExec(p) ==
    /\ Running(p, "EXEC")
    /\ LET argv == proc[p].cmd.argv
           at == IF argv = <<>> THEN "exit"
                 ELSE CASE Name(p, argv[1]) = "c" -> "cat" [] Name(p, argv[1]) = "e" -> "echo"
                        [] OTHER -> "exit"
       IN  Set(p, [proc[p] EXCEPT !.pc = at, !.left = Chunks])

RunRedir(p) ==
    /\ Running(p, "REDIR")
    /\ LET cmd == proc[p].cmd
           closed == Close(proc[p].fd, cmd.fd)
           opens == cmd.fd = 1 \/ Name(p, cmd.file) # "n"
       IN  Set(p, IF opens THEN [proc[p] EXCEPT !.fd = Alloc(closed, File), !.cmd = cmd.cmd,
                                                !.want[cmd.fd + 1] = File]
                  ELSE [proc[p] EXCEPT !.fd = closed, !.pc = "exit"])

RunList(p) ==
    /\ Running(p, "LIST")
    /\ Fork(p, "listed", [proc[p] EXCEPT !.cmd = proc[p].cmd.left])

\* wait(); runcmd(lcmd->right);
Listed(p) ==
    /\ proc[p].pc = "listed"
    /\ WaitAny(p, [Then(p, "run") EXCEPT !.cmd = proc[p].cmd.right])

\* pipe(p), which fails when there is no memory for one more.
RunPipe(p) ==
    /\ Running(p, "PIPE")
    /\ LET unused == {i \in 1 .. NPIPE : Gone(i)}
           i == Min(unused)
           f == proc[p].fd
           r == Min({d \in FD : f[d] = None})
           w == Min({d \in FD : f[d] = None} \ {r})
       IN  IF unused = {} THEN Goto(p, "exit")
           ELSE /\ proc' = [proc EXCEPT ![p].fd = Alloc(Alloc(f, ReadEnd(i)), WriteEnd(i)),
                                        ![p].p = <<r, w>>, ![p].pc = "fork1"]
                /\ chunks' = [chunks EXCEPT ![i] = 0]
                /\ UNCHANGED <<lines, fails, halted, failed>>

\* The two children of a pipe.
ForkLeft(p) == proc[p].pc = "fork1" /\ Fork(p, "fork2", [proc[p] EXCEPT !.pc = "left"])
ForkRight(p) == proc[p].pc = "fork2" /\ Fork(p, "close", [proc[p] EXCEPT !.pc = "right"])

\* Mutated runcmd(): the write end stays open.
CloseBoth_writer(f, pair) == Close(f, pair[1])

\* close(p[0]); close(p[1]);
CloseBoth(f, pair) == Close(Close(f, pair[1]), pair[2])

\* Mutated runcmd(): the end is duplicated before the descriptor is closed.
Rewire_order(rec, n) ==
    [rec EXCEPT !.fd = CloseBoth(Close(Dup(rec.fd, rec.p[n + 1]), n), rec.p), !.pc = "run",
                !.cmd = IF n = 1 THEN rec.cmd.left ELSE rec.cmd.right,
                !.want[n + 1] = rec.fd[rec.p[n + 1]]]

\* close(n); dup(p[n]); close(p[0]); close(p[1]); and the side of the pipe.
Rewire(rec, n) ==
    [rec EXCEPT !.fd = CloseBoth(Dup(Close(rec.fd, n), rec.p[n + 1]), rec.p), !.pc = "run",
                !.cmd = IF n = 1 THEN rec.cmd.left ELSE rec.cmd.right,
                !.want[n + 1] = rec.fd[rec.p[n + 1]]]

ChildLeft(p) == proc[p].pc = "left" /\ Set(p, Rewire(proc[p], 1))
ChildRight(p) == proc[p].pc = "right" /\ Set(p, Rewire(proc[p], 0))

PipeClose(p) ==
    /\ proc[p].pc = "close"
    /\ Set(p, [proc[p] EXCEPT !.fd = CloseBoth(@, proc[p].p), !.pc = "wait1"])

\* Mutated runcmd(): the shell of a pipe waits for one child only.
PipeWait_once(p) == proc[p].pc = "wait1" /\ WaitAny(p, Then(p, "exit"))

\* wait(); wait();
PipeWait(p) ==
    \/ proc[p].pc = "wait1" /\ WaitAny(p, Then(p, "wait2"))
    \/ proc[p].pc = "wait2" /\ WaitAny(p, Then(p, "exit"))

RunBack(p) ==
    /\ Running(p, "BACK")
    /\ Fork(p, "exit", [proc[p] EXCEPT !.cmd = proc[p].cmd.cmd, !.bg = TRUE])

\* The child that parses the line panics.
RunPanic(p) == Running(p, "panic") /\ Goto(p, "exit")

-----------------------------------------------------------------------------
(* Programs.                                                               *)

\* read(0, buf): cat writes what it got, or exits at the end of the input or
\* on an error.
CatRead(p) ==
    /\ proc[p].pc = "cat"
    /\ LET o == proc[p].fd[0]
           i == o[2]
       IN  CASE o[1] = "r" ->
                   IF chunks[i] > 0
                   THEN /\ proc' = [proc EXCEPT ![p].pc = "write"]
                        /\ chunks' = [chunks EXCEPT ![i] = @ - 1]
                        /\ UNCHANGED <<lines, fails, halted, failed>>
                   ELSE Holders(WriteEnd(i)) = {} /\ Goto(p, "exit")
             [] o[1] \in {"console", "file"} ->
                   Set(p, IF proc[p].left = 0 THEN [proc[p] EXCEPT !.pc = "exit"]
                          ELSE [proc[p] EXCEPT !.left = @ - 1, !.pc = "write"])
             [] OTHER -> Goto(p, "exit")

\* write(1, buf, n): p goes on at next, or exits when it failed.
WriteOut(p, next) ==
    LET o == proc[p].fd[1]
        i == o[2]
    IN  CASE o[1] = "w" ->
                IF Holders(ReadEnd(i)) = {} THEN Goto(p, "exit")
                ELSE /\ chunks[i] < PIPESIZE
                     /\ proc' = [proc EXCEPT ![p].pc = next]
                     /\ chunks' = [chunks EXCEPT ![i] = @ + 1]
                     /\ UNCHANGED <<lines, fails, halted, failed>>
          [] o[1] \in {"console", "file"} -> Goto(p, next)
          [] OTHER -> Goto(p, "exit")

CatWrite(p) == proc[p].pc = "write" /\ WriteOut(p, "cat")
Echo(p) == proc[p].pc = "echo" /\ WriteOut(p, "exit")

-----------------------------------------------------------------------------

Step(p) ==
    /\ ~halted /\ proc[p].st = "run"
    /\ \/ InitOpen(p) \/ StartSh(p) \/ Reap(p) \/ ShOpen(p) \/ ForkCmd(p) \/ ShWait(p)
       \/ RunExec(p) \/ RunRedir(p) \/ RunList(p) \/ Listed(p) \/ RunPipe(p) \/ ForkLeft(p)
       \/ ForkRight(p) \/ ChildLeft(p) \/ ChildRight(p) \/ PipeClose(p) \/ PipeWait(p)
       \/ RunBack(p) \/ RunPanic(p) \/ CatRead(p) \/ CatWrite(p) \/ Echo(p) \/ Exit(p)

Next == \E p \in Slot : Step(p) \/ GetCmd(p)

\* While a process can run, one of them runs; nobody has to type.
Fairness == WF_vars(\E p \in Slot : Step(p))

Spec == Init /\ [][Next]_vars /\ Fairness

-----------------------------------------------------------------------------
(* Properties.                                                             *)

Shells(pcs) == {p \in Slot : proc[p].pc \in pcs}

\* The shell gets out of its wait() and prompts again, whatever the line was,
\* and whichever fork() or pipe() failed on the way: no reader of a pipe waits
\* for a writer that is one of those who wait for it.
PromptReturns == (Shells({"wait"}) # {}) ~> (Shells({"prompt"}) # {})

\* While the shell prompts, only commands run with & are left of the lines
\* before, unless a fork() failed: each wait() of runcmd() and main() waits for
\* the process it means.
ForegroundDone ==
    Shells({"prompt"}) # {} /\ ~failed =>
        \A p \in Slot \ {INIT} : proc[p].st = "free" \/ proc[p].bg \/ proc[p].pc = "prompt"

\* A program starts with descriptors 0, 1 and 2 as the pipes and redirections
\* around it say, and with no other: close(), dup() and open() in runcmd() meet
\* the descriptor they mean.
ProgramsWired ==
    \A p \in Slot : proc[p].pc \in {"cat", "write", "echo"} =>
        proc[p].fd = [d \in FD |-> CASE d < 2 -> proc[p].want[d + 1] [] d = 2 -> Con [] OTHER -> None]
=============================================================================
