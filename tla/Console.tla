------------------------------ MODULE Console -------------------------------
(***************************************************************************)
(* The console (console.c): line input from the keyboard or the serial     *)
(* port, edited in a ring buffer by consoleintr() and read by processes in *)
(* consoleread(), and the cursor of the screen that echoes and writes      *)
(* move.  cons.lock makes consoleintr() and consolewrite() atomic; a       *)
(* reader keeps the lock over the turns of its loop, up to its sleep().    *)
(* kill() does not take it.                                                *)
(*                                                                         *)
(* A key is a member of a small set: an ordinary character, the keys that  *)
(* end a line, and the editing keys.                                       *)
(***************************************************************************)
EXTENDS Integers, Sequences

CONSTANTS
    Reader, NoReader,
    INPUT_BUF,
    UINT,          \* r, w and e count modulo UINT (2^32), a multiple of INPUT_BUF
    Counts,        \* sizes of the reads
    COLS, ROWS     \* 80 and 24

Char == {"x", "NL", "EOF"}
Key == Char \cup {"CR", "NUL", "BS", "KILL"}

VARIABLES
    buf, r, w, e,  \* struct input
    pos,           \* the cursor
    lock,          \* the reader that has cons.lock between its turns
    rd,            \* of each reader: where it is, n and target
    killed

vars == <<buf, r, w, e, pos, lock, rd, killed>>

Init ==
    /\ buf = [k \in 0 .. INPUT_BUF - 1 |-> "x"]
    /\ r = 0 /\ w = 0 /\ e = 0
    /\ pos = 0
    /\ lock = NoReader
    /\ rd = [q \in Reader |-> [pc |-> "user", n |-> 0, target |-> 0]]
    /\ killed = [q \in Reader |-> FALSE]

Minus(x, y) == (x - y) % UINT
Plus(x, y) == (x + y) % UINT

-----------------------------------------------------------------------------
(* Output.                                                                 *)

Scrolls(p) == p \div COLS >= ROWS

\* cgaputc(): the new position of the cursor.
Cgaputc(p, c) ==
    LET q == CASE c = "NL" -> p + COLS - (p % COLS)
               [] c = "BS" -> IF p > 0 THEN p - 1 ELSE p
               [] OTHER -> p + 1
    IN  IF Scrolls(q) THEN q - COLS ELSE q

\* consolewrite() of a character.
Write(c) ==
    /\ lock = NoReader
    /\ pos' = Cgaputc(pos, c)
    /\ UNCHANGED <<buf, r, w, e, lock, rd, killed>>

-----------------------------------------------------------------------------
(* consoleintr(), for one key.                                             *)

\* wakeup(&input.r)
Wakeup(t) == [q \in Reader |-> IF t[q].pc = "sleep" THEN [t[q] EXCEPT !.pc = "read"] ELSE t[q]]

\* The line ends after character c.
EndsLine(c, e1) == c \in {"NL", "EOF"} \/ e1 = Plus(r, INPUT_BUF)

NewChar(k) == IF k = "CR" THEN "NL" ELSE k

\* Mutated consoleintr(): readers are not woken.
WakeReaders_none == rd

WakeReaders == Wakeup(rd)

TypeChar(k) ==
    /\ lock = NoReader
    /\ k \in Char \cup {"CR"} /\ Minus(e, r) < INPUT_BUF
    /\ LET c == NewChar(k)
           e1 == Plus(e, 1)
       IN  /\ buf' = [buf EXCEPT ![e % INPUT_BUF] = c]
           /\ e' = e1
           /\ pos' = Cgaputc(pos, c)
           /\ IF EndsLine(c, e1) THEN w' = e1 /\ rd' = WakeReaders
              ELSE UNCHANGED <<w, rd>>
    /\ UNCHANGED <<r, lock, killed>>

\* Mutated consoleintr(): a finished line can be erased too.
CanErase_any == e # r

CanErase == e # w

Backspace ==
    /\ lock = NoReader /\ CanErase
    /\ e' = Minus(e, 1)
    /\ pos' = Cgaputc(pos, "BS")
    /\ UNCHANGED <<buf, r, w, lock, rd, killed>>

\* The characters of the line that is being edited, the last one first.
Edited == [i \in 1 .. Minus(e, w) |-> buf[Minus(e, i) % INPUT_BUF]]

KillLine ==
    /\ lock = NoReader /\ e # w
    /\ \E k \in 0 .. Minus(e, w) :
          /\ \A i \in 1 .. k : Edited[i] # "NL"
          /\ k < Minus(e, w) => Edited[k + 1] = "NL"
          /\ e' = Minus(e, k)
          /\ pos' = IF pos > k THEN pos - k ELSE 0
    /\ UNCHANGED <<buf, r, w, lock, rd, killed>>

ConsoleIntr == (\E k \in Key : TypeChar(k)) \/ Backspace \/ KillLine

-----------------------------------------------------------------------------
(* consoleread().                                                          *)

Read(q, n) ==
    /\ rd[q].pc = "user" /\ ~killed[q]
    /\ rd' = [rd EXCEPT ![q] = [pc |-> "read", n |-> n, target |-> n]]
    /\ UNCHANGED <<buf, r, w, e, pos, lock, killed>>

Return(q) ==
    /\ rd' = [rd EXCEPT ![q] = [pc |-> "user", n |-> 0, target |-> 0]]
    /\ lock' = NoReader

\* One turn of the loop, or its end.
ReadTurn(q) ==
    /\ rd[q].pc = "read" /\ lock \in {NoReader, q}
    /\ LET n == rd[q].n
           c == buf[r % INPUT_BUF]
       IN  \/ /\ n = 0
              /\ Return(q) /\ UNCHANGED r
           \/ /\ n > 0 /\ r = w /\ killed[q]
              /\ Return(q) /\ UNCHANGED r
           \/ /\ n > 0 /\ r = w /\ ~killed[q]
              /\ rd' = [rd EXCEPT ![q].pc = "tosleep"]
              /\ lock' = q /\ UNCHANGED r
           \/ /\ n > 0 /\ r # w /\ c = "EOF"
              /\ r' = IF n < rd[q].target THEN r ELSE Plus(r, 1)
              /\ Return(q)
           \/ /\ n > 0 /\ r # w /\ c = "NL"
              /\ r' = Plus(r, 1)
              /\ Return(q)
           \/ /\ n > 0 /\ r # w /\ c \notin {"EOF", "NL"}
              /\ r' = Plus(r, 1)
              /\ rd' = [rd EXCEPT ![q].n = n - 1]
              /\ lock' = q
    /\ UNCHANGED <<buf, w, e, pos, killed>>

\* sleep(&input.r, &cons.lock)
Sleep(q) ==
    /\ rd[q].pc = "tosleep"
    /\ rd' = [rd EXCEPT ![q].pc = "sleep"]
    /\ lock' = NoReader
    /\ UNCHANGED <<buf, r, w, e, pos, killed>>

\* kill() of a reader wakes it.
Kill(q) ==
    /\ ~killed[q] /\ killed' = [killed EXCEPT ![q] = TRUE]
    /\ rd' = IF rd[q].pc = "sleep" THEN [rd EXCEPT ![q].pc = "read"] ELSE rd
    /\ UNCHANGED <<buf, r, w, e, pos, lock>>

Next ==
    \/ \E c \in {"x", "NL"} : Write(c)
    \/ ConsoleIntr
    \/ \E q \in Reader : (\E n \in Counts : Read(q, n)) \/ ReadTurn(q) \/ Sleep(q) \/ Kill(q)

Spec == Init /\ [][Next]_vars

-----------------------------------------------------------------------------
(* Properties.                                                             *)

\* Type correctness; the cursor that cgaputc() moves stays on the screen.
TypeOK ==
    /\ buf \in [0 .. INPUT_BUF - 1 -> Char]
    /\ r \in 0 .. UINT - 1 /\ w \in 0 .. UINT - 1 /\ e \in 0 .. UINT - 1
    /\ lock \in Reader \cup {NoReader}
    /\ pos \in 0 .. ROWS * COLS - 1
    /\ \A q \in Reader : rd[q].n <= rd[q].target

\* A reader sleeps only while there is no finished input: no wakeup is lost
\* between its test and its sleep, and one reader leaves nothing behind that
\* another one sleeps on.  The buffer then has room, so consoleintr(), which
\* drops keys when it is full, can still finish the line.  A kill() between the
\* test and the sleep is lost, and the reader sleeps on until there is input.
SleeperHasNoInput ==
    \A q \in Reader : rd[q].pc = "sleep" => r = w /\ Minus(e, r) < INPUT_BUF

T == INSTANCE Tty WITH Size <- INPUT_BUF,
        line <- [i \in 1 .. Minus(e, w) |-> buf[Plus(w, i - 1) % INPUT_BUF]],
        input <- [i \in 1 .. Minus(w, r) |-> buf[Plus(r, i - 1) % INPUT_BUF]]

\* The ring buffer implements line input (module Tty), also when the counters
\* wrap around: editing never reaches a finished line, and every finished
\* character is read once and in order.
TtySpec == T!Spec
=============================================================================
