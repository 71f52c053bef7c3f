-------------------------------- MODULE Pipe --------------------------------
(***************************************************************************)
(* One pipe of pipe.c, with the processes that hold its two ends.  p->lock *)
(* is a variable: it is held from the start of pipewrite() or piperead()   *)
(* to the next sleep() or return.  kill() takes ptable.lock only, so it    *)
(* may come between the killed check of a thread and its sleep().          *)
(***************************************************************************)
EXTENDS Integers, FiniteSets

CONSTANTS
    Writer, Reader,   \* processes with the write end, with the read end
    NoLock,           \* p->lock is free
    Byte,
    PIPESIZE,
    UINT,             \* number of values of an unsigned int
    MaxN              \* the most bytes asked for in one call

ASSUME PipeAssumption ==
    /\ Writer \cap Reader = {}
    /\ NoLock \notin Writer \cup Reader
    /\ PIPESIZE \in Nat \ {0} /\ UINT \in Nat /\ 2 * PIPESIZE <= UINT
    /\ UINT % PIPESIZE = 0
    /\ MaxN \in Nat

VARIABLES
    data, nread, nwrite, readopen, writeopen, lock,   \* struct pipe
    freed,     \* kfree() has been called
    pc,        \* where each process is
    left,      \* n - i
    killed     \* processes marked by kill()

ring == <<data, nread, nwrite>>
ends == <<readopen, writeopen, freed>>
vars == <<ring, ends, lock, pc, left, killed>>

Thread == Writer \cup Reader

\* "write", "wait", "copy": holding p->lock in the loop of pipewrite, in the
\*     while and in the for of piperead
\* "sleep": about to call sleep(), p->lock still held
\* "asleep", "woken": in sleep(), without p->lock
\* "closing": fileclose() has dropped the last reference of this end
PCs == {"idle", "write", "wait", "copy", "sleep", "asleep", "woken", "closing",
        "gone"}

Side(p) == IF p \in Writer THEN Writer ELSE Reader

Init ==
    /\ data \in {[i \in 0 .. PIPESIZE - 1 |-> b] : b \in Byte}
    /\ nread = 0 /\ nwrite = 0
    /\ readopen = TRUE /\ writeopen = TRUE
    /\ lock = NoLock
    /\ freed = FALSE
    /\ pc = [p \in Thread |-> "idle"]
    /\ left = [p \in Thread |-> 0]
    /\ killed = {}

\* Mutated pipewrite(): the test is off by one.
Full_off == nwrite = (nread + PIPESIZE + 1) % UINT

Full == nwrite = (nread + PIPESIZE) % UINT

Empty == nread = nwrite

\* n++ on an unsigned int.
Incr(n) == (n + 1) % UINT

\* wakeup(&p->nread) or wakeup(&p->nwrite) on the program counters f.
Wakeup(f, S) ==
    [p \in Thread |-> IF p \in S /\ f[p] = "asleep" THEN "woken" ELSE f[p]]

-----------------------------------------------------------------------------
(* pipewrite()                                                             *)

\* trap() checks killed before the call.  A kill() between that check and the
\* acquire() is the same as one after it, since the loop looks at killed later.
WriteStart(p, n) ==
    /\ pc[p] = "idle" /\ p \notin killed
    /\ lock = NoLock
    /\ lock' = p
    /\ left' = [left EXCEPT ![p] = n]
    /\ pc' = [pc EXCEPT ![p] = "write"]
    /\ UNCHANGED <<ring, ends, killed>>

\* p->data[n % PIPESIZE]
Slot(n) == n % PIPESIZE

WriteByte(p, b) ==
    /\ pc[p] = "write" /\ left[p] > 0
    /\ ~Full
    /\ data' = [data EXCEPT ![Slot(nwrite)] = b]
    /\ nwrite' = Incr(nwrite)
    /\ left' = [left EXCEPT ![p] = @ - 1]
    /\ UNCHANGED <<nread, ends, lock, pc, killed>>

\* The buffer is full and nobody will read it, or the writer is killed.
WriteFail(p) ==
    /\ pc[p] = "write" /\ left[p] > 0
    /\ Full
    /\ ~readopen \/ p \in killed
    /\ lock' = NoLock
    /\ pc' = [pc EXCEPT ![p] = "idle"]
    /\ UNCHANGED <<ring, ends, left, killed>>

WriteFull(p) ==
    /\ pc[p] = "write" /\ left[p] > 0
    /\ Full
    /\ readopen /\ p \notin killed
    /\ pc' = [Wakeup(pc, Reader) EXCEPT ![p] = "sleep"]
    /\ UNCHANGED <<ring, ends, lock, left, killed>>

WriteDone(p) ==
    /\ pc[p] = "write" /\ left[p] = 0
    /\ pc' = [Wakeup(pc, Reader) EXCEPT ![p] = "idle"]
    /\ lock' = NoLock
    /\ UNCHANGED <<ring, ends, left, killed>>

-----------------------------------------------------------------------------
(* sleep() on &p->nwrite (writers) or &p->nread (readers)                  *)

\* ptable.lock is taken before p->lock is released, so a wakeup() under p->lock
\* finds the thread either not yet here or asleep.
Sleep(p) ==
    /\ pc[p] = "sleep"
    /\ pc' = [pc EXCEPT ![p] = "asleep"]
    /\ lock' = NoLock
    /\ UNCHANGED <<ring, ends, left, killed>>

\* Reacquire p->lock and go round the loop.
Reacquire(p) ==
    /\ pc[p] = "woken"
    /\ lock = NoLock
    /\ lock' = p
    /\ pc' = [pc EXCEPT ![p] = IF p \in Writer THEN "write" ELSE "wait"]
    /\ UNCHANGED <<ring, ends, left, killed>>

-----------------------------------------------------------------------------
(* piperead()                                                              *)

ReadStart(p, n) ==
    /\ pc[p] = "idle" /\ p \notin killed
    /\ lock = NoLock
    /\ lock' = p
    /\ left' = [left EXCEPT ![p] = n]
    /\ pc' = [pc EXCEPT ![p] = "wait"]
    /\ UNCHANGED <<ring, ends, killed>>

MustWait == Empty /\ writeopen

ReadFail(p) ==
    /\ pc[p] = "wait"
    /\ MustWait /\ p \in killed
    /\ lock' = NoLock
    /\ pc' = [pc EXCEPT ![p] = "idle"]
    /\ UNCHANGED <<ring, ends, left, killed>>

ReadEmpty(p) ==
    /\ pc[p] = "wait"
    /\ MustWait /\ p \notin killed
    /\ pc' = [pc EXCEPT ![p] = "sleep"]
    /\ UNCHANGED <<ring, ends, lock, left, killed>>

ReadCopy(p) ==
    /\ pc[p] = "wait"
    /\ ~MustWait
    /\ pc' = [pc EXCEPT ![p] = "copy"]
    /\ UNCHANGED <<ring, ends, lock, left, killed>>

ReadByte(p) ==
    /\ pc[p] = "copy" /\ left[p] > 0
    /\ ~Empty
    /\ nread' = Incr(nread)
    /\ left' = [left EXCEPT ![p] = @ - 1]
    /\ UNCHANGED <<data, nwrite, ends, lock, pc, killed>>

ReadWake(f) == Wakeup(f, Writer)

ReadDone(p) ==
    /\ pc[p] = "copy" /\ (left[p] = 0 \/ Empty)
    /\ pc' = [ReadWake(pc) EXCEPT ![p] = "idle"]
    /\ lock' = NoLock
    /\ UNCHANGED <<ring, ends, left, killed>>

-----------------------------------------------------------------------------
(* pipeclose() and kill()                                                  *)

\* fileclose(): the process drops its reference; the last one of an end goes
\* on to pipeclose().
Close(p) ==
    /\ pc[p] = "idle"
    /\ pc' = [pc EXCEPT ![p] =
                  IF \A q \in Side(p) \ {p} : pc[q] = "gone"
                  THEN "closing" ELSE "gone"]
    /\ UNCHANGED <<ring, ends, lock, left, killed>>

\* The processes at the other end are woken.
CloseWake(f, p) == Wakeup(f, Thread \ Side(p))

\* Mutated pipeclose(): the pipe is freed when the first end is closed.
LastClose_any == ~readopen' \/ ~writeopen'

LastClose == ~readopen' /\ ~writeopen'

PipeClose(p) ==
    /\ pc[p] = "closing"
    /\ lock = NoLock
    /\ writeopen' = (writeopen /\ p \notin Writer)
    /\ readopen' = (readopen /\ p \notin Reader)
    /\ freed' = LastClose
    /\ pc' = [CloseWake(pc, p) EXCEPT ![p] = "gone"]
    /\ UNCHANGED <<ring, lock, left, killed>>

\* kill() marks the process and wakes it if it sleeps.
Kill(p) ==
    /\ pc[p] \notin {"closing", "gone"}
    /\ killed' = killed \cup {p}
    /\ pc' = Wakeup(pc, {p})
    /\ UNCHANGED <<ring, ends, lock, left>>

\* pipealloc() in the page of a pipe that was freed, for the next processes.
PipeAlloc ==
    /\ freed
    /\ nread' = 0 /\ nwrite' = 0
    /\ readopen' = TRUE /\ writeopen' = TRUE
    /\ freed' = FALSE
    /\ pc' = [p \in Thread |-> "idle"]
    /\ left' = [p \in Thread |-> 0]
    /\ killed' = {}
    /\ UNCHANGED <<data, lock>>

Writes(p) ==
    (\E b \in Byte : WriteByte(p, b)) \/ WriteFail(p) \/ WriteFull(p) \/ WriteDone(p)

Reads(p) ==
    ReadFail(p) \/ ReadEmpty(p) \/ ReadCopy(p) \/ ReadByte(p) \/ ReadDone(p)

Next ==
    \/ \E p \in Writer : (\E n \in 0 .. MaxN : WriteStart(p, n)) \/ Writes(p)
    \/ \E p \in Reader : (\E n \in 0 .. MaxN : ReadStart(p, n)) \/ Reads(p)
    \/ \E p \in Thread :
        Sleep(p) \/ Reacquire(p) \/ Close(p) \/ PipeClose(p) \/ Kill(p)
    \/ PipeAlloc

Spec == Init /\ [][Next]_vars

-----------------------------------------------------------------------------
(* Properties.                                                             *)

\* The C types.
TypeOK ==
    /\ data \in [0 .. PIPESIZE - 1 -> Byte]
    /\ nread \in 0 .. UINT - 1 /\ nwrite \in 0 .. UINT - 1
    /\ readopen \in BOOLEAN /\ writeopen \in BOOLEAN /\ freed \in BOOLEAN
    /\ lock \in Thread \cup {NoLock}
    /\ pc \in [Thread -> PCs]
    /\ left \in [Thread -> 0 .. MaxN]
    /\ killed \subseteq Thread

\* Bytes in the pipe, by the unsigned subtraction.
Used == (nwrite - nread) % UINT

\* pipe.c implements Fifo: bytes come out in the order in which they went in,
\* none is lost or overwritten, also when nread and nwrite wrap around.
Queue == INSTANCE Fifo WITH
    queue <- [i \in 1 .. Used |-> data[Slot((nread + i - 1) % UINT)]]

FifoSpec == Queue!Spec

\* pipewrite(), piperead(), pipeclose(): a reader sleeps only while the pipe is
\* empty and has a writer, and a writer only while it is full and has a
\* reader, or the process that is changing this holds p->lock and will still
\* call wakeup().  The exception is a writer that was killed: it returns from
\* a full pipe without waking the readers for the bytes it has written.
SleeperHasReason ==
    /\ \A r \in Reader : pc[r] = "asleep" =>
        \/ Empty /\ writeopen
        \/ killed \cap Writer # {}
        \/ \E w \in Writer : lock = w /\ pc[w] = "write"
    /\ \A w \in Writer : pc[w] = "asleep" =>
        \/ Full /\ readopen
        \/ \E r \in Reader : lock = r /\ pc[r] = "copy"

\* pipeclose(): the pipe is freed only when no process is left inside
\* pipewrite(), piperead() or pipeclose(), and nobody holds its lock.
FreedUnused ==
    /\ TypeOK
    /\ freed => lock = NoLock /\ \A p \in Thread : pc[p] = "gone"
=============================================================================
