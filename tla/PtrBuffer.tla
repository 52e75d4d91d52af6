----------------------------- MODULE PtrBuffer ------------------------------
(***************************************************************************)
(* comm/mtaf_ptrbuffer.cc: a buffer over memory that belongs to somebody   *)
(* else. It is a record of the bytes, pos_, length_ and max_length_; mem   *)
(* also has the byte before the memory (0) and four bytes behind it, which *)
(* the buffer must leave alone. The byte at offset k is mem[k + 1].        *)
(***************************************************************************)
EXTENDS Integers, Sequences

CONSTANTS Nul, CR   \* the bytes \0 and \r

Lesser(a, b)  == IF a < b THEN a ELSE b
Greater(a, b) == IF a > b THEN a ELSE b

\* The constructor; the memory holds byte everywhere, and what is around it other.
Over(max, byte, other) ==
    [mem |-> [i \in 0..(max + 4) |-> IF i \in 1..max THEN byte ELSE other],
     pos |-> 0, length |-> 0, max |-> max]

\* memcpy, memset or snprintf of s to an offset.
Put(m, s, at) == [i \in DOMAIN m |-> IF i - at \in DOMAIN s THEN s[i - at] ELSE m[i]]

\* Length(_nPos, _nLenght) and its Seek: both are cut at the limit.
SetLength(b, p, n) ==
    LET length == Lesser(b.max, n)
    IN [b EXCEPT !.length = length, !.pos = Lesser(p, length)]

\* Write: what fits of s at pos_, and a terminator behind it where there is room.
TwoNuls == <<Nul, Nul, CR>>
Terminator == <<Nul, Nul, Nul, CR>>
HasRoom(b, length) == length < b.max - 4

NoLimit(b, s) == Len(s)
Fits(b, s) == Lesser(Len(s), b.max - b.pos)

Write(b, s) ==
    LET n      == Fits(b, s)
        length == Greater(b.length, b.pos + n)
        mem    == Put(b.mem, SubSeq(s, 1, n), b.pos)
    IN [b EXCEPT !.mem = IF HasRoom(b, length) THEN Put(mem, Terminator, b.pos + n) ELSE mem,
                 !.length = length,
                 !.pos = Lesser(b.pos + Len(s), length)]

Content(b) == [i \in 1..b.length |-> b.mem[i]]
=============================================================================
