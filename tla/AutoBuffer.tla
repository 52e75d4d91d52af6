----------------------------- MODULE AutoBuffer -----------------------------
(***************************************************************************)
(* comm/mtaf_autobuffer.cc: a buffer on the heap that grows by whole       *)
(* units, as a flush uses it: made empty, written to, read through Ptr and *)
(* Length, and freed by its destructor. array is << >> for NULL.           *)
(***************************************************************************)
EXTENDS Integers, Sequences

CONSTANTS Unit,   \* malloc_unitsize_
          Zero    \* the byte that new memory is set to

\* The constructor and Reset.
NoBuffer == [array |-> << >>, pos |-> 0, length |-> 0, capacity |-> 0]

Rounded(n) == ((n + Unit - 1) \div Unit) * Unit

\* __FitSize: the array is grown by zeroed bytes or, when there is no memory
\* (~granted), freed; length_ and capacity_ then stay what they were.
FitSize(b, n, granted) ==
    IF n <= b.capacity THEN b
    ELSE IF granted
    THEN [b EXCEPT !.array = @ \o [i \in 1..(Rounded(n) - b.capacity) |-> Zero],
                   !.capacity = Rounded(n)]
    ELSE [b EXCEPT !.array = << >>]

\* Write at pos_. What __FitSize returns is not looked at: without an array the memcpy
\* goes to an address near NULL.
Faults(b, s) == s # << >> /\ b.array = << >>

\* Seek from the current position, the one origin that is used.
SeekCur(b, offset) == [b EXCEPT !.pos = IF @ + offset > b.length THEN b.length ELSE @ + offset]

WriteTo(b, s, granted) ==
    LET fit == FitSize(b, b.pos + Len(s), granted)
        length == IF b.pos + Len(s) > b.length THEN b.pos + Len(s) ELSE b.length
        stored == [i \in DOMAIN fit.array |->
                      IF i - b.pos \in DOMAIN s THEN s[i - b.pos] ELSE fit.array[i]]
    IN SeekCur([fit EXCEPT !.array = stored, !.length = length], Len(s))

\* Ptr and Length.
Content(b) == SubSeq(b.array, 1, b.length)
=============================================================================
