------------------------------ MODULE Contents ------------------------------
(***************************************************************************)
(* What files promise: each inode holds a sequence of bytes of its own.  A *)
(* writer overwrites a run of them, or appends, starting no later than the *)
(* end, with its bytes and nothing else; an unused inode is emptied.  A    *)
(* byte is known by the process that wrote it.                             *)
(***************************************************************************)
EXTENDS Naturals, Sequences

CONSTANTS Inum, Proc, MaxBytes

VARIABLE content

Init == content = [i \in Inum |-> << >>]

Written(s, p, off, n) ==
    [k \in 1 .. (IF off + n > Len(s) THEN off + n ELSE Len(s)) |->
        IF k > off /\ k <= off + n THEN p ELSE s[k]]

Write(i, p) ==
    \E off \in 0 .. Len(content[i]), n \in 1 .. MaxBytes :
        content' = [content EXCEPT ![i] = Written(@, p, off, n)]

Empty(i) == content' = [content EXCEPT ![i] = << >>]

Next == \E i \in Inum : Empty(i) \/ \E p \in Proc : Write(i, p)

Spec == Init /\ [][Next]_content
=============================================================================
