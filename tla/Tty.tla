-------------------------------- MODULE Tty ---------------------------------
(***************************************************************************)
(* What the console promises to its readers: a line can be edited until it *)
(* is ended, what was ended cannot be changed any more, and it is read     *)
(* once and in order.                                                      *)
(***************************************************************************)
EXTENDS Naturals, Sequences

CONSTANTS Char, Size

VARIABLES line, input

Init == line = << >> /\ input = << >>

Type(c) ==
    /\ Len(line) + Len(input) < Size
    /\ \/ line' = Append(line, c) /\ UNCHANGED input
       \/ input' = input \o Append(line, c) /\ line' = << >>

Erase ==
    /\ line # << >>
    /\ line' \in {SubSeq(line, 1, Len(line) - 1), << >>}
    /\ UNCHANGED input

Take == input # << >> /\ input' = Tail(input) /\ UNCHANGED line

Next == (\E c \in Char : Type(c)) \/ Erase \/ Take

Spec == Init /\ [][Next]_<<line, input>>
=============================================================================
