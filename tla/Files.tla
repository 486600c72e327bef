------------------------------- MODULE Files -------------------------------
(***************************************************************************)
(* What the file system of Nanos-lite promises a program: every file is an *)
(* array of bytes of its own and of fixed length, with a position.  Reads  *)
(* return the bytes at the position and advance it, writes replace the     *)
(* bytes at the position and nothing else, and set it to the number of     *)
(* bytes written (the code's rule, which is not that of its comment).      *)
(* Opening a file again sets its one position to 0 for all who have it.    *)
(***************************************************************************)
EXTENDS Integers

CONSTANTS Files, Size, Byte,
          MaxLen,     \* the longest transfer
          SeekOffsets,  \* the offsets of seeks
          M           \* the range of a position

VARIABLES content,    \* the bytes of each file
          pos,        \* the position of each file
          got         \* the bytes the last read put into the caller's buffer

fvars == <<content, pos, got>>

\* How many of len bytes lie before the end of file f.
Avail(f, len) ==
    IF pos[f] > Size[f] THEN 0
    ELSE IF pos[f] + len > Size[f] THEN Size[f] - pos[f] ELSE len

Init ==
    /\ \A f \in Files : content[f] \in [0 .. Size[f] - 1 -> Byte]
    /\ pos = [f \in Files |-> 0]
    /\ got = << >>

Read(f, len) ==
    /\ got' = [i \in 0 .. Avail(f, len) - 1 |-> content[f][pos[f] + i]]
    /\ pos' = [pos EXCEPT ![f] = @ + Avail(f, len)]
    /\ UNCHANGED content

Write(f, len, buf) ==
    /\ content' = [content EXCEPT ![f] =
          [i \in 0 .. Size[f] - 1 |->
              IF i \in pos[f] .. pos[f] + Avail(f, len) - 1 THEN buf[i - pos[f]] ELSE @[i]]]
    /\ pos' = [pos EXCEPT ![f] = Avail(f, len)]
    /\ got' = << >>

\* Where a seek by o can lead: from the start, from the position, from the end.
Targets(f, o) == {o, (o + pos[f]) % M, (o + Size[f]) % M}

\* The position of f alone moves, back to the start or by a seek.
Move(f) ==
    /\ \E n \in {0} \union UNION {Targets(f, o) : o \in SeekOffsets} : pos' = [pos EXCEPT ![f] = n]
    /\ got' = << >>
    /\ UNCHANGED content

\* Calls on devices and calls that fail leave every file alone.
Other == got' = << >> /\ UNCHANGED <<content, pos>>

Next ==
    \/ \E f \in Files, len \in 0 .. MaxLen :
          \/ Read(f, len)
          \/ \E buf \in [0 .. len - 1 -> Byte] : Write(f, len, buf)
    \/ \E f \in Files : Move(f)
    \/ Other

Spec == Init /\ [][Next]_fvars

=============================================================================
