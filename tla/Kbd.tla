--------------------------------- MODULE Kbd --------------------------------
(***************************************************************************)
(* The keyboard driver (kbd.c, kbd.h): scan codes arrive one byte at a     *)
(* time, some keys send two, and the driver keeps in shift which modifier  *)
(* keys are down and which locks are on.  Characters are left out; the     *)
(* keys are the modifiers, the locks, and one key of each kind besides.    *)
(***************************************************************************)
EXTENDS Integers, Sequences

CONSTANTS
    Keys,      \* the keys that are used, by scan code; + 128 if sent after E0
    QUEUE      \* bound: bytes the controller holds before the driver reads them

VARIABLES
    shift,     \* the static variable of kbdgetc(): a set of flags
    down,      \* the keys that are down
    queue      \* the bytes at KBDATAP, oldest first

vars == <<shift, down, queue>>

E0 == 224      \* 0xE0

\* shiftcode[data], togglecode[data]
shiftcode(data) ==
    CASE data \in {29, 157} -> {"CTL"}
      [] data \in {42, 54} -> {"SHIFT"}
      [] data \in {56, 184} -> {"ALT"}
      [] OTHER -> {}

togglecode(data) ==
    CASE data = 58 -> {"CAPSLOCK"}
      [] data = 69 -> {"NUMLOCK"}
      [] data = 70 -> {"SCROLLLOCK"}
      [] OTHER -> {}

Modifiers == {"CTL", "SHIFT", "ALT"}

Init == shift = {} /\ down = {} /\ queue = <<>>

-----------------------------------------------------------------------------
(* The keyboard: a key that is down may repeat its code.                   *)

Scan(k, up) ==
    LET code == (k % 128) + (IF up THEN 128 ELSE 0)
    IN  IF k >= 128 THEN <<E0, code>> ELSE <<code>>

Send(k, up) ==
    /\ queue' = queue \o Scan(k, up)
    /\ Len(queue') <= QUEUE
    /\ UNCHANGED shift

Press(k) == down' = down \cup {k} /\ Send(k, FALSE)

Release(k) == k \in down /\ down' = down \ {k} /\ Send(k, TRUE)

-----------------------------------------------------------------------------
(* kbdgetc(): one byte.                                                    *)

\* Mutated kbdgetc(): the code of a key released is looked up as it came.
Released_raw(data) == data

\* Key released: the code to look up.
Released(data) == IF "E0ESC" \in shift THEN data ELSE data - 128

AfterRelease(data) == shift \ (shiftcode(Released(data)) \cup {"E0ESC"})

\* shift ^= togglecode[data]
Toggle(flags, t) == (flags \ t) \cup (t \ flags)

AfterPress(data) ==
    LET code == IF "E0ESC" \in shift THEN data + 128 ELSE data
    IN  Toggle((shift \ {"E0ESC"}) \cup shiftcode(code), togglecode(code))

kbdgetc ==
    /\ queue # <<>>
    /\ LET data == Head(queue)
       IN  shift' = CASE data = E0 -> shift \cup {"E0ESC"}
                      [] data # E0 /\ data >= 128 -> AfterRelease(data)
                      [] OTHER -> AfterPress(data)
    /\ queue' = Tail(queue)
    /\ UNCHANGED down

Next == kbdgetc \/ \E k \in Keys : Press(k) \/ Release(k)

Spec == Init /\ [][Next]_vars

-----------------------------------------------------------------------------
(* Properties.                                                             *)

TypeOK ==
    /\ shift \subseteq Modifiers \cup {"CAPSLOCK", "NUMLOCK", "SCROLLLOCK", "E0ESC"}
    /\ down \subseteq Keys
    /\ queue \in Seq(0 .. 255)

\* kbdgetc(): once every byte has been read, a modifier counts as held only if
\* one of its keys, on the left or on the right, is down, and no escape is
\* pending; keys may go down, repeat and come up in any order meanwhile.
NoStuckModifier ==
    queue = <<>> =>
        /\ "E0ESC" \notin shift
        /\ \A f \in shift \cap Modifiers : \E k \in down : f \in shiftcode(k)
=============================================================================
