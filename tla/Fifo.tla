-------------------------------- MODULE Fifo --------------------------------
(***************************************************************************)
(* What a pipe promises: a bounded queue of bytes between a writing and a  *)
(* reading end, each of which can be closed once.  When both are closed,   *)
(* the next pipe starts empty.                                             *)
(***************************************************************************)
EXTENDS Sequences, Naturals

CONSTANTS Byte, PIPESIZE

VARIABLES
    queue,      \* bytes written and not yet read, oldest first
    writeopen, readopen

vars == <<queue, writeopen, readopen>>

Init ==
    /\ queue = << >>
    /\ writeopen = TRUE
    /\ readopen = TRUE

Put(b) ==
    /\ writeopen
    /\ Len(queue) < PIPESIZE
    /\ queue' = Append(queue, b)
    /\ UNCHANGED <<writeopen, readopen>>

Get ==
    /\ readopen
    /\ queue # << >>
    /\ queue' = Tail(queue)
    /\ UNCHANGED <<writeopen, readopen>>

CloseWrite == writeopen /\ writeopen' = FALSE /\ UNCHANGED <<queue, readopen>>
CloseRead == readopen /\ readopen' = FALSE /\ UNCHANGED <<queue, writeopen>>

Open ==
    /\ ~writeopen /\ ~readopen
    /\ queue' = << >> /\ writeopen' = TRUE /\ readopen' = TRUE

Next == (\E b \in Byte : Put(b)) \/ Get \/ CloseWrite \/ CloseRead \/ Open

Spec == Init /\ [][Next]_vars
=============================================================================
