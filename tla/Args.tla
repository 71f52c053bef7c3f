-------------------------------- MODULE Args --------------------------------
(***************************************************************************)
(* How a system call fetches its arguments from the user stack and checks  *)
(* pointers (fetchint, fetchstr, argint, argptr, argstr of syscall.c).     *)
(* Addresses are words of WORD values and their arithmetic wraps; sizes    *)
(* are ints.  mem gives the byte, or the int, at an address; a failing     *)
(* fetch gives Fail.                                                       *)
(***************************************************************************)
EXTENDS Integers

CONSTANTS
    INT_MAX,    \* the largest int
    MaxSize     \* the largest sz of a process: KERNBASE

ASSUME ArgsAssumption ==
    /\ INT_MAX \in Nat /\ MaxSize \in Nat
    /\ 31 <= INT_MAX /\ MaxSize <= INT_MAX + 1

WORD == 2 * (INT_MAX + 1)
Word == 0 .. WORD - 1
Ints == -INT_MAX - 1 .. INT_MAX

Fail == -1

\* (uint)i, and the sum of a word and an int as a word.
Uint(i) == IF i < 0 THEN i + WORD ELSE i
Add(a, n) ==
    IF a + n >= WORD THEN a + n - WORD
    ELSE IF a + n < 0 THEN a + n + WORD ELSE a + n

fetchint(addr, sz) == ~(addr >= sz \/ Add(addr, 4) > sz)

fetchstr(mem, addr, sz) ==
    IF addr >= sz \/ \A s \in addr .. sz - 1 : mem[s] # 0 THEN Fail
    ELSE (CHOOSE s \in addr .. sz - 1 :
              mem[s] = 0 /\ \A t \in addr .. s - 1 : mem[t] # 0) - addr

argint(n, esp, sz) == fetchint(Add(Add(esp, 4), 4 * n), sz)

argptr(i, size, sz) == ~(size < 0 \/ Uint(i) >= sz \/ Add(Uint(i), size) > sz)
=============================================================================
