--------------------------- MODULE LogBufferProofs --------------------------
(***************************************************************************)
(* What the block does for every size, every set of record lengths and     *)
(* every number of writes and opens: no store of a write, of a terminator  *)
(* or of one that the end of the process cuts short leaves the block; a    *)
(* reader of the block finds what is in it; and it is a ByteLog.           *)
(***************************************************************************)
EXTENDS LogBuffer, FiniteSetTheorems, SequenceTheorems, WellFoundedInduction, TLAPS

USE LogBufferAssumption DEF Data

MemOK(m) == m \in [Cells -> Byte] /\ \A i \in Cells : i > MaxLen => m[i] = Garbage

\* TypeOK alone is not inductive: what a write has still to store must fit behind
\* pos_, and the record behind pos_ within the length_ that is stored before it.
TodoFits ==
    /\ pos + Len(todo) <= MaxLen
    /\ phase = "copying" => pos + Len(todo) <= length

BufferInv == TypeOK /\ TodoFits

-----------------------------------------------------------------------------
\* The bytes of the terminator, of a record and of uninitialised memory are bytes.
LEMMA Bytes == Data \subseteq Byte /\ Nul \in Byte /\ CR \in Byte /\ Garbage \in Byte
BY DEF Byte

\* A store that ends inside the block changes nothing behind it.
LEMMA StoredInside ==
    ASSUME MemOK(mem), NEW s \in Seq(Byte), NEW at \in Nat, at + Len(s) <= MaxLen
    PROVE  MemOK(Stored(s, at))
<1>1. Stored(s, at) \in [Cells -> Byte]
      <2> SUFFICES ASSUME NEW i \in Cells
                   PROVE  (IF i - at \in DOMAIN s THEN s[i - at] ELSE mem[i]) \in Byte
          BY DEF Stored
      <2>1. CASE i - at \in DOMAIN s
            BY <2>1
      <2>2. CASE i - at \notin DOMAIN s
            BY <2>2 DEF MemOK
      <2> QED
          BY <2>1, <2>2
<1>2. ASSUME NEW i \in Cells, i > MaxLen PROVE Stored(s, at)[i] = Garbage
      <2>1. i \in Nat
            BY DEF Cells
      <2>2. i - at \notin DOMAIN s
            <3>1. i - at > Len(s)
                  BY <1>2, <2>1
            <3> QED
                BY <3>1
      <2> QED
          BY <1>2, <2>2 DEF Stored, MemOK
<1> QED
    BY <1>1, <1>2 DEF MemOK

\* A zeroed block, and a heap block as new char[] finds it.
LEMMA FilledInside ==
    ASSUME NEW b \in {Nul, Garbage}
    PROVE  MemOK([i \in Cells |-> IF i <= MaxLen THEN b ELSE Garbage])
<1>1. b \in Byte
      BY Bytes
<1> QED
    BY <1>1, Bytes DEF MemOK, Cells

\* A new .mmap2 file, and the block that close has zeroed.
LEMMA FreshInside == MemOK(Fresh)
BY FilledInside DEF Fresh

\* __Clear stores the first byte.
LEMMA ClearedInside == ASSUME MemOK(mem) PROVE MemOK(Cleared)
<1>1. <<Nul>> \in Seq(Byte) /\ Len(<<Nul>>) = 1
      BY Bytes
<1>2. 0 + Len(<<Nul>>) <= MaxLen
      BY <1>1
<1> QED
    BY <1>1, <1>2, StoredInside, Zenon DEF Cleared

\* The terminator is four bytes.
LEMMA TerminatorType == Terminator \in Seq(Byte) /\ Len(Terminator) = 4
BY Bytes DEF Terminator

\* A part of a sequence of bytes is one.
LEMMA SubSeqBytes ==
    ASSUME NEW s \in Seq(Byte), NEW i \in Nat \ {0}, NEW j \in 0..Len(s)
    PROVE  SubSeq(s, i, j) \in Seq(Byte) /\ Len(SubSeq(s, i, j)) = IF i <= j THEN j - i + 1 ELSE 0
OBVIOUS

\* A flush hands over bytes.
LEMMA FlushedType == ASSUME TypeOK PROVE Flushed \in Seq(Byte)
<1>1. mem \in Seq(Byte) /\ Len(mem) = MaxLen + 4
      BY DEF TypeOK, Cells
<1>2. SubSeq(mem, 1, length) \in Seq(Byte)
      BY <1>1, SubSeqBytes DEF TypeOK
<1> QED
    BY <1>2 DEF Flushed

\* A cut record ends at the end of the block at the latest.
LEMMA CutFits == ASSUME TypeOK, NEW n \in RecLens PROVE Cut(n) \in Nat /\ pos + Cut(n) <= MaxLen
BY DEF TypeOK, Cut

-----------------------------------------------------------------------------
\* A new appender finds an empty file.
LEMMA BufferInit == Init => BufferInv
<1> SUFFICES ASSUME Init PROVE BufferInv
    OBVIOUS
<1>1. MemOK(mem)
      BY FreshInside DEF Init
<1>2. TypeOK
      BY <1>1 DEF Init, TypeOK, MemOK, Phases
<1>3. TodoFits
      BY DEF Init, TodoFits
<1> QED
    BY <1>2, <1>3 DEF BufferInv

\* open, the flushes and close store nothing but the first byte or zeros.
LEMMA OpenFlushStep ==
    ASSUME BufferInv, Open \/ FlushCopy \/ FlushClear \/ Emit \/ Close
    PROVE  BufferInv'
<1>0. TypeOK /\ TodoFits /\ MemOK(mem) /\ Len(todo) \in Nat
      BY DEF BufferInv, TypeOK, MemOK
<1>1. CASE Open
      <2>1. MemOK(mem')
            BY <1>0, <1>1, FilledInside DEF Open
      <2>2. TypeOK'
            BY <1>0, <1>1, <2>1 DEF Open, TypeOK, MemOK, Phases, AttachLength
      <2>3. TodoFits'
            BY <1>0, <1>1 DEF Open, TypeOK, TodoFits
      <2> QED
          BY <2>2, <2>3 DEF BufferInv
<1>2. CASE FlushCopy
      <2>1. out' \in Seq(Byte)
            BY <1>0, <1>2, FlushedType DEF FlushCopy
      <2>2. TypeOK'
            BY <1>0, <1>2, <2>1 DEF FlushCopy, TypeOK, Phases, cursors
      <2>3. TodoFits'
            BY <1>0, <1>2 DEF FlushCopy, TodoFits, cursors
      <2> QED
          BY <2>2, <2>3 DEF BufferInv
<1>3. CASE FlushClear
      <2>1. MemOK(mem')
            BY <1>0, <1>3, ClearedInside DEF FlushClear
      <2>2. TypeOK'
            BY <1>0, <1>3, <2>1 DEF FlushClear, TypeOK, MemOK, Phases
      <2>3. TodoFits'
            BY <1>0, <1>3 DEF FlushClear, TypeOK, TodoFits
      <2> QED
          BY <2>2, <2>3 DEF BufferInv
<1>4. CASE Emit
      <2>1. TypeOK'
            BY <1>0, <1>4 DEF Emit, TypeOK, cursors
      <2>2. TodoFits'
            BY <1>0, <1>4 DEF Emit, TodoFits, cursors
      <2> QED
          BY <2>1, <2>2 DEF BufferInv
<1>5. CASE Close
      <2>1. MemOK(mem')
            BY <1>5, FreshInside DEF Close
      <2>2. TypeOK'
            BY <1>0, <1>5, <2>1 DEF Close, TypeOK, MemOK, Phases
      <2>3. TodoFits'
            BY <1>0, <1>5 DEF Close, TypeOK, TodoFits
      <2> QED
          BY <2>2, <2>3 DEF BufferInv
<1> QED
    BY <1>1, <1>2, <1>3, <1>4, <1>5

\* A write stores a record that is cut to fit, and a terminator if there is room.
LEMMA WriteStep ==
    ASSUME BufferInv, WriteBegin \/ WriteCopy \/ WriteTerminator
    PROVE  BufferInv'
<1>0. /\ TypeOK /\ TodoFits /\ MemOK(mem) /\ Len(todo) \in Nat
      /\ pos \in Nat /\ length \in Nat /\ todo \in Seq(Byte)
      BY DEF BufferInv, TypeOK, MemOK
<1>1. CASE WriteBegin
      <2>1. PICK n \in RecLens :
                /\ todo' = [i \in 1..Cut(n) |-> writes']
                /\ length' = IF length < pos + Cut(n) THEN pos + Cut(n) ELSE length
            BY <1>1 DEF WriteBegin
      <2>2. Cut(n) \in Nat /\ pos + Cut(n) <= MaxLen
            BY <1>0, CutFits
      <2>3. writes' \in Data /\ writes' \in 0..MaxWrites
            BY <1>0, <1>1 DEF WriteBegin, TypeOK
      <2>4. todo' \in Seq(Byte) /\ Len(todo') = Cut(n)
            <3>1. \A i \in 1..Cut(n) : writes' \in Byte
                  BY <2>3, Bytes
            <3> QED
                BY <2>1, <2>2, <3>1
      <2>5. MemOK(mem')
            BY <1>0, <1>1, ClearedInside DEF WriteBegin
      <2>6. pos' = pos /\ pos' \in 0..MaxLen /\ length' \in 0..MaxLen /\ pos' <= length'
            BY <1>0, <1>1, <2>1, <2>2 DEF WriteBegin, TypeOK
      <2>7. TypeOK'
            BY <1>0, <1>1, <2>3, <2>4, <2>5, <2>6 DEF WriteBegin, TypeOK, MemOK, Phases
      <2>8. TodoFits'
            BY <1>0, <2>1, <2>2, <2>4, <2>6 DEF TodoFits
      <2> QED
          BY <2>7, <2>8 DEF BufferInv
<1>2. CASE WriteCopy
      <2>1. MemOK(mem')
            BY <1>0, <1>2, StoredInside DEF WriteCopy, TodoFits
      <2>2. pos' = pos + Len(todo) /\ pos' <= length /\ length' = length
            BY <1>0, <1>2 DEF WriteCopy, TodoFits
      <2>3. todo' \in Seq(Byte) /\ (todo' = << >> \/ (Room /\ Len(todo') = 4))
            BY <1>2, TerminatorType DEF WriteCopy
      <2>4. pos' + Len(todo') <= MaxLen
            <3>1. pos' \in Nat /\ pos' <= length /\ length \in Nat /\ length <= MaxLen
                  BY <1>0, <2>2 DEF TypeOK
            <3>2. Len(todo') = 0 \/ (length < MaxLen - 4 /\ Len(todo') = 4)
                  BY <2>3 DEF Room
            <3>3. \A p \in Nat, l \in Nat, n \in Nat :
                      p <= l /\ l <= MaxLen /\ (n = 0 \/ (l < MaxLen - 4 /\ n = 4))
                          => p + n <= MaxLen
                  OBVIOUS
            <3> QED
                BY <3>1, <3>2, <3>3
      <2>5. live' \in Seq(Byte)
            BY <1>0, <1>2 DEF WriteCopy, TypeOK
      <2>6. phase' \in {"terminating", "idle"}
            BY <1>2 DEF WriteCopy
      <2>7. TypeOK'
            BY <1>0, <1>2, <2>1, <2>2, <2>3, <2>5, <2>6 DEF WriteCopy, TypeOK, MemOK, Phases
      <2>8. TodoFits'
            BY <2>4, <2>6 DEF TodoFits
      <2> QED
          BY <2>7, <2>8 DEF BufferInv
<1>3. CASE WriteTerminator
      <2>1. MemOK(mem')
            BY <1>0, <1>3, StoredInside DEF WriteTerminator, TodoFits
      <2>2. TypeOK'
            BY <1>0, <1>3, <2>1 DEF WriteTerminator, TypeOK, MemOK, Phases, cursors
      <2>3. TodoFits'
            BY <1>0, <1>3 DEF WriteTerminator, TypeOK, TodoFits, cursors
      <2> QED
          BY <2>2, <2>3 DEF BufferInv
<1> QED
    BY <1>1, <1>2, <1>3

\* The process dies with a prefix of what the write had still to store in the block.
LEMMA CrashStep == ASSUME BufferInv, Crash PROVE BufferInv'
<1>0. TypeOK /\ TodoFits /\ MemOK(mem) /\ todo \in Seq(Byte) /\ pos \in Nat
      BY DEF BufferInv, TypeOK, MemOK
<1>1. PICK k \in 0..Len(todo) : mem' = IF useHeap THEN Fresh ELSE Stored(SubSeq(todo, 1, k), pos)
      BY DEF Crash
<1>2. SubSeq(todo, 1, k) \in Seq(Byte) /\ Len(SubSeq(todo, 1, k)) = k
      BY <1>0, <1>1, SubSeqBytes
<1>3. pos + Len(SubSeq(todo, 1, k)) <= MaxLen
      BY <1>0, <1>1, <1>2 DEF TodoFits
<1>4. MemOK(Stored(SubSeq(todo, 1, k), pos))
      BY <1>0, <1>2, <1>3, StoredInside
<1>5. MemOK(mem')
      BY <1>1, <1>4, FreshInside
<1>6. TypeOK'
      BY <1>0, <1>5 DEF Crash, TypeOK, MemOK, Phases
<1>7. TodoFits'
      BY DEF Crash, TodoFits
<1> QED
    BY <1>6, <1>7 DEF BufferInv

-----------------------------------------------------------------------------
\* PtrBuffer::Write, LogBuffer::Flush and the rest keep the cursors in order inside
\* the block and never store behind it, whatever the sizes, mapped or on the heap,
\* and wherever the process dies.
THEOREM BlockNeverOverrun == Spec => []TypeOK
<1>1. Init => BufferInv
      BY BufferInit
<1>2. BufferInv /\ [Next]_vars => BufferInv'
      <2> SUFFICES ASSUME BufferInv, [Next]_vars PROVE BufferInv'
          OBVIOUS
      <2>1. CASE Open \/ FlushCopy \/ FlushClear \/ Emit \/ Close
            BY <2>1, OpenFlushStep
      <2>2. CASE WriteBegin \/ WriteCopy \/ WriteTerminator
            BY <2>2, WriteStep
      <2>3. CASE Crash
            BY <2>3, CrashStep
      <2>4. CASE UNCHANGED vars
            BY <2>4 DEF vars, cursors, BufferInv, TypeOK, TodoFits
      <2> QED
          BY <2>1, <2>2, <2>3, <2>4 DEF Next
<1>3. BufferInv => TypeOK
      BY DEF BufferInv
<1> QED
    BY <1>1, <1>2, <1>3, PTL DEF Spec

-----------------------------------------------------------------------------
(* What is in the block. Between two calls pos_ is length_, so a write goes    *)
(* behind the last one, and up to pos_ there are only bytes that were written. *)

\* What is still to be stored, and where it goes.
CursorsMeet ==
    /\ phase \in {"idle", "terminating"} => pos = length
    /\ phase = "copying" => length = pos + Len(todo) /\ length > 0
    /\ phase = "terminating" => length > 0 /\ todo = Terminator

\* A block that holds something does not begin with NUL, nor does the first record.
FirstByteKept ==
    /\ phase = "idle" => (length = 0 <=> mem[1] = Nul)
    /\ phase = "copying" => \A i \in 1..Len(todo) : todo[i] \in Data
    /\ (phase = "copying" /\ pos > 0) \/ phase = "terminating" => mem[1] # Nul

\* No byte of uninitialised memory is in a mapped block, or before pos_ in any, or
\* on its way into the block, or out of a mapped one.
NoGarbage ==
    /\ ~useHeap => \A i \in 1..MaxLen : mem[i] # Garbage
    /\ phase \in {"idle", "copying", "terminating"} => \A i \in 1..pos : mem[i] # Garbage
    /\ \A i \in 1..Len(todo) : todo[i] # Garbage
    /\ ~useHeap => /\ \A i \in 1..Len(out) : out[i] # Garbage
                   /\ \A i \in 1..Len(log) : log[i] # Garbage

ContentInv == CursorsMeet /\ FirstByteKept /\ NoGarbage

\* A cell after a store.
LEMMA StoredCell ==
    ASSUME NEW s \in Seq(Byte), NEW at \in Nat, NEW i \in Cells
    PROVE  /\ i > at /\ i <= at + Len(s) => Stored(s, at)[i] = s[i - at]
           /\ i <= at \/ i > at + Len(s) => Stored(s, at)[i] = mem[i]
<1>1. i \in Nat /\ Len(s) \in Nat /\ DOMAIN s = 1..Len(s)
      BY DEF Cells
<1>2. Stored(s, at)[i] = IF i - at \in DOMAIN s THEN s[i - at] ELSE mem[i]
      BY DEF Stored
<1>3. i - at \in 1..Len(s) <=> i > at /\ i <= at + Len(s)
      BY <1>1
<1> QED
    BY <1>1, <1>2, <1>3

\* The first byte after __Clear, and the others.
LEMMA ClearedCell ==
    ASSUME NEW i \in Cells
    PROVE  Cleared[i] = IF i = 1 THEN Nul ELSE mem[i]
<1>1. i \in Nat /\ i - 0 = i
      BY DEF Cells
<1>2. DOMAIN <<Nul>> = {1} /\ <<Nul>>[1] = Nul
      OBVIOUS
<1>3. Cleared[i] = IF i - 0 \in DOMAIN <<Nul>> THEN <<Nul>>[i - 0] ELSE mem[i]
      BY DEF Cleared, Stored
<1> QED
    BY <1>1, <1>2, <1>3

\* The block's cells are cells, the first among them.
LEMMA BlockCells == 1 \in Cells /\ 1..MaxLen \subseteq Cells
BY DEF Cells

\* A flush hands over cells up to length_.
LEMMA FlushedCells ==
    ASSUME TypeOK
    PROVE  /\ Flushed \in Seq(Byte) /\ Len(Flushed) <= length
           /\ \A i \in 1..Len(Flushed) : Flushed[i] = mem[i]
<1>1. mem \in Seq(Byte) /\ Len(mem) = MaxLen + 4 /\ length \in Nat /\ length <= MaxLen
      BY DEF TypeOK, Cells
<1>2. SubSeq(mem, 1, length) \in Seq(Byte) /\ Len(SubSeq(mem, 1, length)) = length
      BY <1>1, SubSeqBytes
<1>3. \A i \in 1..length : SubSeq(mem, 1, length)[i] = mem[i]
      BY <1>1
<1> QED
    BY <1>1, <1>2, <1>3 DEF Flushed

\* A new appender finds zeros in its file, and whatever there is on the heap.
LEMMA ContentInit == Init => ContentInv
<1> SUFFICES ASSUME Init PROVE ContentInv
    OBVIOUS
<1>1. CursorsMeet /\ FirstByteKept
      BY DEF Init, CursorsMeet, FirstByteKept
<1>2. \A i \in 1..MaxLen : mem[i] # Garbage
      BY BlockCells DEF Init, Fresh
<1>3. NoGarbage
      BY <1>2 DEF Init, NoGarbage
<1> QED
    BY <1>1, <1>3 DEF ContentInv

\* open and close: nothing is written yet, or any more.
LEMMA ContentOpenClose == ASSUME BufferInv, ContentInv, Open \/ Close PROVE ContentInv'
<1>1. CursorsMeet' /\ FirstByteKept'
      BY DEF Open, Close, CursorsMeet, FirstByteKept
<1>2. ~useHeap => \A i \in 1..MaxLen : mem'[i] # Garbage
      BY BlockCells DEF Open, Close, Fresh, ContentInv, NoGarbage
<1>3. NoGarbage'
      BY <1>2 DEF Open, Close, ContentInv, NoGarbage
<1> QED
    BY <1>1, <1>3 DEF ContentInv

\* A flush takes the bytes up to length_, clears the first and lets them go.
LEMMA ContentFlush ==
    ASSUME BufferInv, ContentInv, FlushCopy \/ FlushClear \/ Emit
    PROVE  ContentInv'
<1>0. /\ TypeOK /\ CursorsMeet /\ FirstByteKept /\ NoGarbage
      /\ length \in Nat /\ length <= MaxLen /\ out \in Seq(Byte) /\ log \in Seq(Byte)
      BY DEF BufferInv, ContentInv, TypeOK
<1>1. CASE FlushCopy
      <2>1. CursorsMeet' /\ FirstByteKept'
            BY <1>0, <1>1 DEF FlushCopy, cursors, CursorsMeet, FirstByteKept
      <2>2. ~useHeap => \A i \in 1..Len(out') : out'[i] # Garbage
            <3>1. out' = Flushed /\ Len(Flushed) \in Nat
                  BY <1>0, <1>1, FlushedCells DEF FlushCopy
            <3>2. \A i \in 1..Len(Flushed) : i \in 1..MaxLen /\ Flushed[i] = mem[i]
                  BY <1>0, <3>1, FlushedCells
            <3> QED
                BY <1>0, <3>1, <3>2 DEF NoGarbage
      <2>3. NoGarbage'
            BY <1>0, <1>1, <2>2 DEF FlushCopy, cursors, NoGarbage
      <2> QED
          BY <2>1, <2>3 DEF ContentInv
<1>2. CASE FlushClear
      <2>1. mem'[1] = Nul
            BY <1>2, BlockCells, ClearedCell DEF FlushClear
      <2>2. CursorsMeet' /\ FirstByteKept'
            BY <1>2, <2>1 DEF FlushClear, CursorsMeet, FirstByteKept
      <2>3. ~useHeap => \A i \in 1..MaxLen : mem'[i] # Garbage
            BY <1>0, <1>2, BlockCells, ClearedCell DEF FlushClear, NoGarbage
      <2>4. NoGarbage'
            BY <1>0, <1>2, <2>3 DEF FlushClear, NoGarbage
      <2> QED
          BY <2>2, <2>4 DEF ContentInv
<1>3. CASE Emit
      <2>1. CursorsMeet' /\ FirstByteKept'
            BY <1>0, <1>3 DEF Emit, cursors, CursorsMeet, FirstByteKept
      <2>2. ~useHeap => \A i \in 1..Len(log') : log'[i] # Garbage
            BY <1>0, <1>3 DEF Emit, NoGarbage
      <2>3. NoGarbage'
            BY <1>0, <1>3, <2>2 DEF Emit, cursors, NoGarbage
      <2> QED
          BY <2>1, <2>3 DEF ContentInv
<1> QED
    BY <1>1, <1>2, <1>3

\* LogBuffer::Write: its record is not empty where there is room, and goes to pos_.
LEMMA ContentWriteBegin == ASSUME BufferInv, ContentInv, WriteBegin PROVE ContentInv'
<1>0. /\ TypeOK /\ CursorsMeet /\ FirstByteKept /\ NoGarbage /\ phase = "idle"
      /\ pos \in Nat /\ length \in Nat /\ pos = length /\ length <= MaxLen
      BY DEF BufferInv, ContentInv, TypeOK, CursorsMeet, WriteBegin
<1>1. PICK n \in RecLens :
          /\ todo' = [i \in 1..Cut(n) |-> writes']
          /\ length' = IF length < pos + Cut(n) THEN pos + Cut(n) ELSE length
      BY DEF WriteBegin
<1>2. Cut(n) \in Nat /\ pos + Cut(n) <= MaxLen /\ (length = 0 => Cut(n) > 0)
      <2>1. n \in Nat /\ n > 0
            OBVIOUS
      <2> QED
          BY <1>0, <2>1, CutFits DEF Cut
<1>3. writes' \in Data /\ writes' # Garbage /\ writes' # Nul
      <2>1. writes' \in Data
            BY <1>0 DEF WriteBegin, TypeOK
      <2> QED
          BY <2>1
<1>4. Len(todo') = Cut(n) /\ \A i \in 1..Len(todo') : todo'[i] = writes'
      BY <1>1, <1>2
<1>5. \A i \in 1..MaxLen : mem'[i] = mem[i] \/ mem'[i] = Nul
      BY BlockCells, ClearedCell DEF WriteBegin
<1>6. pos' = pos /\ phase' = "copying" /\ (pos > 0 => mem' = mem)
      BY <1>0 DEF WriteBegin
<1>7. CursorsMeet'
      BY <1>0, <1>1, <1>2, <1>4, <1>6 DEF CursorsMeet
<1>8. FirstByteKept'
      <2>1. pos > 0 => mem[1] # Nul
            BY <1>0 DEF FirstByteKept
      <2> QED
          BY <1>3, <1>4, <1>6, <2>1 DEF FirstByteKept
<1>9. NoGarbage'
      <2>1. \A i \in 1..pos : i \in 1..MaxLen
            BY <1>0
      <2> QED
          BY <1>0, <1>3, <1>4, <1>5, <1>6, <2>1 DEF NoGarbage, WriteBegin
<1> QED
    BY <1>7, <1>8, <1>9 DEF ContentInv

\* PtrBuffer::Write: the bytes behind pos_ become the record, and those before stay.
LEMMA ContentWriteCopy == ASSUME BufferInv, ContentInv, WriteCopy PROVE ContentInv'
<1>0. /\ TypeOK /\ TodoFits /\ CursorsMeet /\ FirstByteKept /\ NoGarbage /\ phase = "copying"
      /\ pos \in Nat /\ length \in Nat /\ todo \in Seq(Byte) /\ Len(todo) \in Nat
      /\ pos + Len(todo) <= MaxLen /\ length = pos + Len(todo) /\ length > 0
      BY DEF BufferInv, ContentInv, TypeOK, TodoFits, CursorsMeet, WriteCopy
<1>1. pos' = length /\ length' = length /\ mem' = Stored(todo, pos) /\ useHeap' = useHeap
      /\ out' = out /\ log' = log
      BY <1>0 DEF WriteCopy
<1>2. \/ phase' = "idle" /\ todo' = << >>
      \/ phase' = "terminating" /\ todo' = Terminator
      BY DEF WriteCopy
<1>3. \A i \in 1..MaxLen : /\ i > pos /\ i <= length => mem'[i] = todo[i - pos]
                           /\ i <= pos \/ i > length => mem'[i] = mem[i]
      BY <1>0, <1>1, StoredCell, BlockCells
<1>4. mem'[1] # Nul
      <2>1. 1 \in 1..MaxLen
            OBVIOUS
      <2>2. CASE pos = 0
            <3>1. mem'[1] = todo[1] /\ 1 \in 1..Len(todo)
                  BY <1>0, <1>3, <2>1, <2>2
            <3> QED
                BY <1>0, <3>1 DEF FirstByteKept
      <2>3. CASE pos > 0
            BY <1>0, <1>3, <2>1, <2>3 DEF FirstByteKept
      <2> QED
          BY <1>0, <2>2, <2>3
<1>5. CursorsMeet' /\ FirstByteKept'
      BY <1>0, <1>1, <1>2, <1>4 DEF CursorsMeet, FirstByteKept
<1>6. \A i \in 1..MaxLen : mem'[i] = mem[i] \/ mem'[i] # Garbage
      <2> SUFFICES ASSUME NEW i \in 1..MaxLen, mem'[i] # mem[i] PROVE mem'[i] # Garbage
          OBVIOUS
      <2>1. i > pos /\ i <= length /\ mem'[i] = todo[i - pos]
            BY <1>0, <1>3
      <2>2. i - pos \in 1..Len(todo)
            BY <1>0, <2>1
      <2> QED
          BY <1>0, <2>1, <2>2 DEF NoGarbage
<1>7. \A i \in 1..length : mem'[i] # Garbage
      <2> SUFFICES ASSUME NEW i \in 1..length PROVE mem'[i] # Garbage
          OBVIOUS
      <2>1. i \in 1..MaxLen
            BY <1>0
      <2>2. CASE i <= pos
            <3>1. i \in 1..pos /\ mem[i] # Garbage
                  BY <1>0, <2>2 DEF NoGarbage
            <3> QED
                BY <1>3, <2>1, <2>2, <3>1
      <2>3. CASE i > pos
            <3>1. i - pos \in 1..Len(todo) /\ mem'[i] = todo[i - pos]
                  BY <1>0, <1>3, <2>1, <2>3
            <3> QED
                BY <1>0, <3>1 DEF NoGarbage
      <2> QED
          BY <1>0, <2>2, <2>3
<1>8. \A i \in 1..Len(todo') : todo'[i] # Garbage
      BY <1>2 DEF Terminator
<1>9. NoGarbage'
      BY <1>0, <1>1, <1>6, <1>7, <1>8 DEF NoGarbage
<1> QED
    BY <1>5, <1>9 DEF ContentInv

\* The terminator goes behind pos_, which is not 0 by then.
LEMMA ContentTerminator == ASSUME BufferInv, ContentInv, WriteTerminator PROVE ContentInv'
<1>0. /\ CursorsMeet /\ FirstByteKept /\ NoGarbage /\ phase = "terminating"
      /\ pos \in Nat /\ length \in Nat /\ todo \in Seq(Byte) /\ Len(todo) \in Nat
      /\ pos + Len(todo) <= MaxLen /\ pos = length /\ length > 0
      BY DEF BufferInv, ContentInv, TypeOK, TodoFits, CursorsMeet, WriteTerminator
<1>1. /\ pos' = pos /\ length' = length /\ mem' = Stored(todo, pos) /\ useHeap' = useHeap
      /\ out' = out /\ log' = log /\ phase' = "idle" /\ todo' = << >>
      BY DEF WriteTerminator, cursors
<1>2. \A i \in 1..MaxLen : /\ i > pos /\ i <= pos + Len(todo) => mem'[i] = todo[i - pos]
                           /\ i <= pos \/ i > pos + Len(todo) => mem'[i] = mem[i]
      BY <1>0, <1>1, StoredCell, BlockCells
<1>3. mem'[1] # Nul
      BY <1>0, <1>2 DEF FirstByteKept
<1>4. CursorsMeet' /\ FirstByteKept'
      BY <1>0, <1>1, <1>3 DEF CursorsMeet, FirstByteKept
<1>5. \A i \in 1..MaxLen : mem'[i] = mem[i] \/ mem'[i] # Garbage
      <2> SUFFICES ASSUME NEW i \in 1..MaxLen, mem'[i] # mem[i] PROVE mem'[i] # Garbage
          OBVIOUS
      <2>1. i - pos \in 1..Len(todo) /\ mem'[i] = todo[i - pos]
            BY <1>0, <1>2
      <2> QED
          BY <1>0, <2>1 DEF NoGarbage
<1>6. \A i \in 1..pos : mem'[i] = mem[i]
      BY <1>0, <1>2
<1>7. NoGarbage'
      BY <1>0, <1>1, <1>5, <1>6 DEF NoGarbage
<1> QED
    BY <1>4, <1>7 DEF ContentInv

\* What the end of the process leaves in a mapped block was there, or on its way.
LEMMA ContentCrash == ASSUME BufferInv, ContentInv, Crash PROVE ContentInv'
<1>0. /\ NoGarbage /\ pos \in Nat /\ todo \in Seq(Byte) /\ Len(todo) \in Nat
      /\ pos + Len(todo) <= MaxLen
      BY DEF BufferInv, ContentInv, TypeOK, TodoFits
<1>1. PICK k \in 0..Len(todo) : mem' = IF useHeap THEN Fresh ELSE Stored(SubSeq(todo, 1, k), pos)
      BY DEF Crash
<1>2. phase' = "closed" /\ useHeap' = useHeap /\ log' = log /\ out' = << >> /\ todo' = << >>
      BY DEF Crash
<1>3. CursorsMeet' /\ FirstByteKept'
      BY <1>2 DEF CursorsMeet, FirstByteKept
<1>4. ASSUME ~useHeap, NEW i \in 1..MaxLen PROVE mem'[i] # Garbage
      <2> DEFINE s == SubSeq(todo, 1, k)
      <2>1. s \in Seq(Byte) /\ Len(s) = k /\ \A j \in 1..k : s[j] = todo[j]
            BY <1>0
      <2>2. mem' = Stored(s, pos)
            BY <1>1, <1>4
      <2> HIDE DEF s
      <2>3. CASE i > pos /\ i <= pos + k
            <3>1. i - pos \in 1..k /\ i - pos \in 1..Len(todo)
                  BY <1>0, <2>3
            <3>2. i \in Cells /\ i > pos /\ i <= pos + Len(s)
                  BY <2>1, <2>3, BlockCells
            <3>3. mem'[i] = s[i - pos]
                  BY <1>0, <2>1, <2>2, <3>2, StoredCell
            <3>4. s[i - pos] = todo[i - pos]
                  BY <2>1, <3>1
            <3> QED
                BY <1>0, <3>1, <3>3, <3>4 DEF NoGarbage
      <2>4. CASE i <= pos \/ i > pos + k
            <3>1. mem'[i] = mem[i]
                  BY <1>0, <2>1, <2>2, <2>4, StoredCell, BlockCells
            <3> QED
                BY <1>0, <1>4, <3>1 DEF NoGarbage
      <2> QED
          BY <1>0, <2>3, <2>4
<1>5. NoGarbage'
      BY <1>0, <1>2, <1>4 DEF NoGarbage
<1> QED
    BY <1>3, <1>5 DEF ContentInv

\* Together with the cursors, all this is kept by every step.
LEMMA ContentStep == BufferInv /\ ContentInv /\ [Next]_vars => BufferInv' /\ ContentInv'
<1> SUFFICES ASSUME BufferInv, ContentInv, [Next]_vars PROVE BufferInv' /\ ContentInv'
    OBVIOUS
<1>1. CASE Open \/ Close
      BY <1>1, OpenFlushStep, ContentOpenClose
<1>2. CASE FlushCopy \/ FlushClear \/ Emit
      BY <1>2, OpenFlushStep, ContentFlush
<1>3. CASE WriteBegin \/ WriteCopy \/ WriteTerminator
      BY <1>3, WriteStep, ContentWriteBegin, ContentWriteCopy, ContentTerminator
<1>4. CASE Crash
      BY <1>4, CrashStep, ContentCrash
<1>5. CASE UNCHANGED vars
      BY <1>5 DEF vars, cursors, BufferInv, TypeOK, TodoFits, ContentInv, CursorsMeet,
                  FirstByteKept, NoGarbage
<1> QED
    BY <1>1, <1>2, <1>3, <1>4, <1>5 DEF Next

LEMMA ContentAlways == Spec => [](BufferInv /\ ContentInv)
BY BufferInit, ContentInit, ContentStep, PTL DEF Spec

\* Flush asks the first byte and the writers ask length_, and between two calls they
\* get the same answer, for every size of block and record.
THEOREM FirstByteTellsEmpty == Spec => []FirstByteSignalsData
<1>1. BufferInv /\ ContentInv => FirstByteSignalsData
      BY DEF ContentInv, FirstByteKept, FirstByteSignalsData
<1> QED
    BY <1>1, ContentAlways, PTL

\* No uninitialised byte gets from a mapped block to the log file, and from a heap
\* block none once its open has flushed it.
THEOREM NoGarbageFromMap == Spec => []GarbageOnlyAtHeapOpen
<1>1. BufferInv /\ ContentInv => GarbageOnlyAtHeapOpen
      <2> SUFFICES ASSUME BufferInv, ContentInv PROVE GarbageOnlyAtHeapOpen
          OBVIOUS
      <2>0. /\ TypeOK /\ CursorsMeet /\ NoGarbage
            /\ out \in Seq(Byte) /\ log \in Seq(Byte) /\ length \in Nat
            BY DEF BufferInv, ContentInv, TypeOK
      <2>1. ASSUME ~useHeap PROVE Garbage \notin ToSet(out \o log)
            <3>1. \A i \in 1..Len(out \o log) : (out \o log)[i] # Garbage
                  BY <2>0, <2>1 DEF NoGarbage
            <3>2. out \o log \in Seq(Byte)
                  BY <2>0
            <3> QED
                BY <3>1, <3>2 DEF ToSet
      <2>2. ASSUME phase = "idle" PROVE Garbage \notin ToSet(Flushed)
            <3>1. Flushed \in Seq(Byte) /\ Len(Flushed) <= pos /\ Len(Flushed) \in Nat
                  BY <2>0, <2>2, FlushedCells DEF CursorsMeet
            <3>2. \A i \in 1..Len(Flushed) : Flushed[i] = mem[i]
                  BY <2>0, FlushedCells
            <3>3. \A i \in 1..Len(Flushed) : i \in 1..pos /\ Flushed[i] # Garbage
                  BY <2>0, <2>2, <3>1, <3>2 DEF NoGarbage, CursorsMeet
            <3> QED
                BY <3>1, <3>3 DEF ToSet
      <2> QED
          BY <2>1, <2>2 DEF GarbageOnlyAtHeapOpen
<1> QED
    BY <1>1, ContentAlways, PTL

-----------------------------------------------------------------------------
(* The bytes that were written and not flushed since, live, are the first of   *)
(* the block, wherever the process is, and behind them a reader finds the end. *)

\* In any phase and after a crash, the block begins with them.
LiveBytes ==
    /\ Len(live) <= MaxLen
    /\ \A i \in 1..Len(live) : live[i] \in Data
    /\ \A i \in 1..Len(live) : mem[i] = live[i]

\* What is stored next goes behind them. On the heap nothing outlives the process.
LivePlace ==
    /\ phase \in {"idle", "copying", "terminating"} => pos = Len(live)
    /\ useHeap /\ phase \in {"closed", "opened"} => live = << >>
    /\ phase \notin {"copying", "terminating"} => todo = << >>
    /\ phase = "copying" => \A i \in 1..Len(todo) : todo[i] = writes

\* Between two calls there is a terminator behind the last record, if it had room. An
\* open has attached the whole block.
TerminatorBehind ==
    /\ phase = "idle" /\ 0 < length /\ length < MaxLen - 4 =>
          mem[length + 1] = Nul /\ mem[length + 2] = Nul /\ mem[length + 3] = Nul
    /\ phase = "terminating" => length < MaxLen - 4
    /\ phase = "opened" => length = MaxLen

LiveInv == LiveBytes /\ LivePlace /\ TerminatorBehind

WholeInv == BufferInv /\ ContentInv /\ LiveInv

\* A new appender has written nothing.
LEMMA LiveInit == Init => LiveInv
BY DEF Init, LiveInv, LiveBytes, LivePlace, TerminatorBehind

\* open, close and the flushes leave the bytes, or drop them all.
LEMMA LiveOpenFlush ==
    ASSUME WholeInv, Open \/ FlushCopy \/ FlushClear \/ Emit \/ Close
    PROVE  LiveInv'
<1>0. /\ TypeOK /\ CursorsMeet /\ LiveBytes /\ LivePlace /\ TerminatorBehind
      /\ live \in Seq(Byte) /\ Len(live) \in Nat
      BY DEF WholeInv, BufferInv, ContentInv, LiveInv, TypeOK
<1> USE DEF cursors
<1>1. CASE Open
      <2>1. useHeap => live = << >>
            BY <1>0, <1>1 DEF Open, LivePlace
      <2>2. LiveBytes'
            BY <1>0, <1>1, <2>1 DEF Open, LiveBytes
      <2>3. LivePlace' /\ TerminatorBehind'
            BY <1>0, <1>1, <2>1 DEF Open, LivePlace, TerminatorBehind, AttachLength
      <2> QED
          BY <2>2, <2>3 DEF LiveInv
<1>2. CASE FlushCopy
      BY <1>0, <1>2 DEF FlushCopy, LiveInv, LiveBytes, LivePlace, TerminatorBehind
<1>3. CASE FlushClear
      BY <1>0, <1>3 DEF FlushClear, LiveInv, LiveBytes, LivePlace, TerminatorBehind
<1>4. CASE Emit
      BY <1>0, <1>4 DEF Emit, LiveInv, LiveBytes, LivePlace, TerminatorBehind
<1>5. CASE Close
      BY <1>0, <1>5 DEF Close, LiveInv, LiveBytes, LivePlace, TerminatorBehind
<1> QED
    BY <1>1, <1>2, <1>3, <1>4, <1>5

\* A write clears a block only when nothing is in it.
LEMMA LiveWriteBegin == ASSUME WholeInv, WriteBegin PROVE LiveInv'
<1>0. /\ TypeOK /\ CursorsMeet /\ LiveBytes /\ LivePlace
      /\ live \in Seq(Byte) /\ Len(live) \in Nat /\ phase = "idle"
      /\ pos = length /\ pos = Len(live) /\ writes \in 0..MaxWrites
      BY DEF WholeInv, BufferInv, ContentInv, LiveInv, TypeOK, WriteBegin, CursorsMeet, LivePlace
<1>1. PICK n \in RecLens : todo' = [i \in 1..Cut(n) |-> writes']
      BY DEF WriteBegin
<1>2. Cut(n) \in Nat
      BY <1>0, CutFits
<1>3. Len(todo') = Cut(n) /\ \A i \in 1..Len(todo') : todo'[i] = writes'
      BY <1>1, <1>2
<1>4. LiveBytes'
      <2>1. Len(live) > 0 => mem' = mem
            BY <1>0 DEF WriteBegin
      <2> QED
          BY <1>0, <2>1 DEF WriteBegin, LiveBytes
<1>5. LivePlace' /\ TerminatorBehind'
      BY <1>0, <1>3 DEF WriteBegin, LivePlace, TerminatorBehind
<1> QED
    BY <1>4, <1>5 DEF LiveInv

\* The record becomes the end of what is written.
LEMMA LiveWriteCopy == ASSUME WholeInv, WriteCopy PROVE LiveInv'
<1>0. /\ TypeOK /\ LiveBytes /\ LivePlace /\ phase = "copying" /\ live \in Seq(Byte)
      /\ pos = Len(live) /\ pos \in Nat /\ todo \in Seq(Byte) /\ Len(todo) \in Nat
      /\ pos + Len(todo) <= MaxLen /\ length = pos + Len(todo) /\ length > 0
      /\ \A i \in 1..Len(todo) : todo[i] \in Data
      BY DEF WholeInv, BufferInv, ContentInv, LiveInv, TypeOK, TodoFits, CursorsMeet, FirstByteKept,
             LivePlace, WriteCopy
<1>1. mem' = Stored(todo, pos) /\ pos' = pos + Len(todo) /\ live' = live \o todo /\ length' = length
      BY DEF WriteCopy
<1>2. /\ live' \in Seq(Byte) /\ Len(live') = pos + Len(todo)
      /\ \A i \in 1..Len(live') : live'[i] = IF i <= pos THEN live[i] ELSE todo[i - pos]
      BY <1>0, <1>1
<1>3. ASSUME NEW i \in 1..Len(live') PROVE live'[i] \in Data /\ mem'[i] = live'[i]
      <2>1. i \in Cells /\ i \in Nat
            BY <1>0, <1>2, BlockCells
      <2>2. CASE i <= pos
            <3>1. i \in 1..Len(live) /\ live'[i] = live[i]
                  BY <1>0, <1>2, <2>1, <2>2
            <3>2. mem'[i] = mem[i]
                  BY <1>0, <1>1, <2>1, <2>2, StoredCell
            <3> QED
                BY <1>0, <3>1, <3>2 DEF LiveBytes
      <2>3. CASE i > pos
            <3>1. i - pos \in 1..Len(todo) /\ live'[i] = todo[i - pos] /\ i <= pos + Len(todo)
                  BY <1>0, <1>2, <2>1, <2>3
            <3>2. mem'[i] = todo[i - pos]
                  BY <1>0, <1>1, <2>1, <2>3, <3>1, StoredCell
            <3> QED
                BY <1>0, <3>1, <3>2
      <2> QED
          BY <1>0, <2>1, <2>2, <2>3
<1>4. LiveBytes'
      BY <1>0, <1>2, <1>3 DEF LiveBytes
<1>5. /\ phase' = "idle" => ~Room /\ todo' = << >>
      /\ phase' = "terminating" => Room
      /\ phase' \in {"idle", "terminating"}
      BY DEF WriteCopy
<1>6. LivePlace' /\ TerminatorBehind'
      BY <1>0, <1>1, <1>2, <1>5 DEF LivePlace, TerminatorBehind, Room
<1> QED
    BY <1>4, <1>6 DEF LiveInv

\* The terminator goes behind it.
LEMMA LiveTerminator == ASSUME WholeInv, WriteTerminator PROVE LiveInv'
<1>0. /\ TypeOK /\ LiveBytes /\ LivePlace /\ TerminatorBehind /\ phase = "terminating"
      /\ live \in Seq(Byte) /\ pos = Len(live) /\ pos \in Nat /\ pos = length /\ todo = Terminator
      /\ length < MaxLen - 4 /\ todo \in Seq(Byte) /\ Len(todo) = 4
      BY TerminatorType DEF WholeInv, BufferInv, ContentInv, LiveInv, TypeOK, CursorsMeet,
                            LivePlace, TerminatorBehind, WriteTerminator
<1>1. /\ mem' = Stored(todo, pos) /\ pos' = pos /\ live' = live /\ length' = length
      /\ phase' = "idle" /\ todo' = << >>
      BY DEF WriteTerminator, cursors
<1>2. \A i \in 1..MaxLen : /\ i > pos /\ i <= pos + 4 => mem'[i] = todo[i - pos]
                           /\ i <= pos => mem'[i] = mem[i]
      BY <1>0, <1>1, StoredCell, BlockCells
<1>3. LiveBytes'
      <2>1. \A i \in 1..Len(live) : i \in 1..MaxLen /\ mem'[i] = mem[i]
            BY <1>0, <1>2 DEF LiveBytes
      <2> QED
          BY <1>0, <1>1, <2>1 DEF LiveBytes
<1>4. mem'[pos + 1] = Nul /\ mem'[pos + 2] = Nul /\ mem'[pos + 3] = Nul
      <2>1. /\ pos + 1 \in 1..MaxLen /\ pos + 2 \in 1..MaxLen /\ pos + 3 \in 1..MaxLen
            /\ (pos + 1) - pos = 1 /\ (pos + 2) - pos = 2 /\ (pos + 3) - pos = 3
            BY <1>0
      <2>2. mem'[pos + 1] = todo[1] /\ mem'[pos + 2] = todo[2] /\ mem'[pos + 3] = todo[3]
            BY <1>0, <1>2, <2>1
      <2>3. Terminator[1] = Nul /\ Terminator[2] = Nul /\ Terminator[3] = Nul
            BY DEF Terminator
      <2> QED
          BY <1>0, <2>2, <2>3
<1>5. LivePlace' /\ TerminatorBehind'
      BY <1>0, <1>1, <1>4 DEF LivePlace, TerminatorBehind
<1> QED
    BY <1>3, <1>5 DEF LiveInv

\* The end of the process leaves a mapped block as it was up to pos_.
LEMMA LiveCrash == ASSUME WholeInv, Crash PROVE LiveInv'
<1>0. /\ TypeOK /\ LiveBytes /\ LivePlace /\ live \in Seq(Byte) /\ Len(live) \in Nat /\ pos \in Nat
      /\ todo \in Seq(Byte) /\ Len(todo) \in Nat /\ pos + Len(todo) <= MaxLen
      BY DEF WholeInv, BufferInv, LiveInv, TypeOK, TodoFits
<1>1. PICK k \in 0..Len(todo) : mem' = IF useHeap THEN Fresh ELSE Stored(SubSeq(todo, 1, k), pos)
      BY DEF Crash
<1>2. phase' = "closed" /\ todo' = << >> /\ live' = IF useHeap THEN << >> ELSE live
      BY DEF Crash
<1>3. LivePlace' /\ TerminatorBehind'
      BY <1>2 DEF Crash, LivePlace, TerminatorBehind
<1>4. ASSUME ~useHeap, NEW i \in 1..Len(live) PROVE mem'[i] = mem[i]
      <2> DEFINE s == SubSeq(todo, 1, k)
      <2>1. s \in Seq(Byte) /\ Len(s) = k
            BY <1>0, SubSeqBytes
      <2>2. mem' = Stored(s, pos) /\ i \in Cells /\ i \in Nat
            BY <1>0, <1>1, <1>4, BlockCells DEF LiveBytes
      <2> HIDE DEF s
      <2>3. i <= pos \/ i > pos + Len(s)
            <3>1. CASE phase \in {"copying", "terminating"}
                  BY <1>0, <2>2, <3>1 DEF LivePlace
            <3>2. CASE phase \notin {"copying", "terminating"}
                  BY <1>0, <2>1, <2>2, <3>2 DEF LivePlace
            <3> QED
                BY <3>1, <3>2
      <2> QED
          BY <1>0, <2>1, <2>2, <2>3, StoredCell
<1>5. LiveBytes'
      BY <1>0, <1>2, <1>4 DEF LiveBytes
<1> QED
    BY <1>3, <1>5 DEF LiveInv

LEMMA WholeStep == WholeInv /\ [Next]_vars => WholeInv'
<1> SUFFICES ASSUME WholeInv, [Next]_vars PROVE WholeInv'
    OBVIOUS
<1>0. BufferInv /\ ContentInv
      BY DEF WholeInv
<1>1. BufferInv' /\ ContentInv'
      BY <1>0, ContentStep
<1>2. CASE Open \/ FlushCopy \/ FlushClear \/ Emit \/ Close
      BY <1>1, <1>2, LiveOpenFlush DEF WholeInv
<1>3. CASE WriteBegin \/ WriteCopy \/ WriteTerminator
      BY <1>1, <1>3, LiveWriteBegin, LiveWriteCopy, LiveTerminator DEF WholeInv
<1>4. CASE Crash
      BY <1>1, <1>4, LiveCrash DEF WholeInv
<1>5. CASE UNCHANGED vars
      BY <1>1, <1>5 DEF vars, cursors, WholeInv, LiveInv, LiveBytes, LivePlace, TerminatorBehind
<1> QED
    BY <1>2, <1>3, <1>4, <1>5 DEF Next

LEMMA WholeInit == Init => WholeInv
BY BufferInit, ContentInit, LiveInit DEF WholeInv

LEMMA WholeAlways == Spec => []WholeInv
BY WholeInit, WholeStep, PTL DEF Spec

-----------------------------------------------------------------------------
(* What the reader of the Readme sees.                                         *)

\* The least of some natural numbers that are bounded.
LEMMA LeastOf ==
    ASSUME NEW n \in Nat, NEW E \in SUBSET (1..n), E # {}
    PROVE  \E m \in E : \A j \in E : m <= j
<1> DEFINE T == {1..i : i \in E}
           R == StrictSubsetOrdering(1..n)
<1>1. IsWellFoundedOn(R, FiniteSubsetsOf(1..n))
      BY FS_StrictSubsetOrderingWellFounded
<1>2. T \subseteq FiniteSubsetsOf(1..n)
      <2> SUFFICES ASSUME NEW i \in E PROVE 1..i \in SUBSET (1..n) /\ IsFiniteSet(1..i)
          BY DEF FiniteSubsetsOf
      <2>1. i \in Nat /\ i <= n
            OBVIOUS
      <2> QED
          BY <2>1, FS_Interval
<1>3. T # {}
      OBVIOUS
<1> HIDE DEF R
<1>4. \E x \in T : \A y \in T : ~(<<y, x>> \in R)
      BY <1>1, <1>2, <1>3, WFMin
<1>5. PICK m \in E : \A j \in E : ~(<<1..j, 1..m>> \in R)
      BY <1>4
<1>6. ASSUME NEW j \in E, ~(m <= j) PROVE FALSE
      <2>1. j \in Nat /\ m \in Nat /\ j < m /\ m <= n
            BY <1>6
      <2>2. /\ 1..j \in SUBSET (1..n) /\ 1..m \in SUBSET (1..n)
            /\ 1..j \subseteq 1..m /\ m \in 1..m /\ m \notin 1..j
            BY <2>1
      <2>3. <<1..j, 1..m>> \in R
            BY <2>2 DEF R, StrictSubsetOrdering
      <2> QED
          BY <1>5, <2>3
<1> QED
    BY <1>5, <1>6

\* The beginning of the block, up to one of its cells.
LEMMA BlockPart ==
    ASSUME TypeOK, NEW n \in 0..MaxLen
    PROVE  /\ SubSeq(mem, 1, n) \in Seq(Byte) /\ Len(SubSeq(mem, 1, n)) = n
           /\ \A i \in 1..n : SubSeq(mem, 1, n)[i] = mem[i]
<1>1. mem \in Seq(Byte) /\ Len(mem) = MaxLen + 4
      BY DEF TypeOK, Cells
<1>2. SubSeq(mem, 1, n) \in Seq(Byte) /\ Len(SubSeq(mem, 1, n)) = n
      BY <1>1, SubSeqBytes
<1> QED
    BY <1>1, <1>2

\* A sequence that a longer one begins with.
LEMMA BeginsWith ==
    ASSUME NEW s \in Seq(Byte), NEW t \in Seq(Byte), Len(s) <= Len(t),
           \A i \in 1..Len(s) : t[i] = s[i]
    PROVE  IsPrefix(s, t)
<1>1. /\ SubSeq(s, 1, Len(s)) \in Seq(Byte) /\ Len(SubSeq(s, 1, Len(s))) = Len(s)
      /\ SubSeq(t, 1, Len(s)) \in Seq(Byte) /\ Len(SubSeq(t, 1, Len(s))) = Len(s)
      BY SubSeqBytes
<1>2. ASSUME NEW i \in 1..Len(s) PROVE SubSeq(s, 1, Len(s))[i] = SubSeq(t, 1, Len(s))[i]
      OBVIOUS
<1>3. SubSeq(s, 1, Len(s)) = SubSeq(t, 1, Len(s))
      BY <1>1, <1>2
<1> QED
    BY <1>3 DEF IsPrefix

\* What was written holds no NUL, so the reader's end is behind it.
LEMMA EndsBehind ==
    ASSUME WholeInv
    PROVE  Ends \subseteq 1..(MaxLen - 2) /\ \A i \in Ends : Len(live) < i
<1>1. LiveBytes /\ live \in Seq(Byte) /\ Len(live) \in Nat
      BY DEF WholeInv, LiveInv, BufferInv, TypeOK
<1>2. ASSUME NEW i \in Ends PROVE Len(live) < i
      <2>1. i \in 1..(MaxLen - 2) /\ mem[i] = Nul
            BY DEF Ends
      <2>2. i \notin 1..Len(live)
            BY <1>1, <2>1 DEF LiveBytes
      <2> QED
          BY <1>1, <2>1, <2>2
<1> QED
    BY <1>2 DEF Ends

\* A reader of a mapped block misses nothing that a finished write has put there and no
\* flush has dropped, in the middle of a write and after the end of the process too.
THEOREM NothingMissed == Spec => []ReaderMissesNothing
<1>1. WholeInv => ReaderMissesNothing
      <2> SUFFICES ASSUME WholeInv PROVE IsPrefix(live, ReaderSees)
          BY DEF ReaderMissesNothing
      <2>0. TypeOK /\ LiveBytes /\ live \in Seq(Byte) /\ Len(live) \in Nat /\ Len(live) <= MaxLen
            BY DEF WholeInv, LiveInv, LiveBytes, BufferInv, TypeOK
      <2>1. ASSUME NEW n \in 0..MaxLen, Len(live) <= n PROVE IsPrefix(live, SubSeq(mem, 1, n))
            <3>1. /\ SubSeq(mem, 1, n) \in Seq(Byte) /\ Len(SubSeq(mem, 1, n)) = n
                  /\ \A i \in 1..n : SubSeq(mem, 1, n)[i] = mem[i]
                  BY <2>0, BlockPart
            <3>2. \A i \in 1..Len(live) : SubSeq(mem, 1, n)[i] = live[i]
                  BY <2>0, <2>1, <3>1 DEF LiveBytes
            <3> QED
                BY <2>0, <2>1, <3>1, <3>2, BeginsWith
      <2>2. CASE Ends = {}
            <3>1. ReaderSees = SubSeq(mem, 1, MaxLen)
                  BY <2>2 DEF ReaderSees
            <3> QED
                BY <2>0, <2>1, <3>1
      <2>3. CASE Ends # {}
            <3> DEFINE e == CHOOSE i \in Ends : \A j \in Ends : i <= j
            <3>1. \E i \in Ends : \A j \in Ends : i <= j
                  <4>1. Ends \in SUBSET (1..(MaxLen - 2)) /\ MaxLen - 2 \in Nat
                        BY EndsBehind
                  <4> QED
                      BY <2>3, <4>1, LeastOf
            <3>2. e \in Ends
                  BY <3>1
            <3>3. ReaderSees = SubSeq(mem, 1, e - 1)
                  BY <2>3 DEF ReaderSees
            <3> HIDE DEF e
            <3>4. e - 1 \in 0..MaxLen /\ Len(live) <= e - 1
                  <4>1. e \in 1..(MaxLen - 2) /\ Len(live) < e
                        BY <3>2, EndsBehind
                  <4> QED
                      BY <2>0, <4>1
            <3> QED
                BY <2>1, <3>3, <3>4
      <2> QED
          BY <2>2, <2>3
<1> QED
    BY <1>1, WholeAlways, PTL

\* Between two calls, a block with room for the terminator ends for the reader exactly
\* where the last record does: what is dirty behind it is never read.
THEOREM ReadsWhatIsLive == Spec => []ReaderSeesLive
<1>1. WholeInv => ReaderSeesLive
      <2> SUFFICES ASSUME WholeInv, phase = "idle", 0 < length, length < MaxLen - 4
                   PROVE  ReaderSees = live
          BY DEF ReaderSeesLive
      <2>0. /\ TypeOK /\ LiveBytes /\ live \in Seq(Byte) /\ Len(live) \in Nat /\ length = Len(live)
            /\ mem[length + 1] = Nul /\ mem[length + 2] = Nul /\ mem[length + 3] = Nul
            BY DEF WholeInv, LiveInv, LivePlace, TerminatorBehind, ContentInv, CursorsMeet,
                   BufferInv, TypeOK
      <2> DEFINE e == CHOOSE i \in Ends : \A j \in Ends : i <= j
      <2>1. length + 1 \in Ends
            <3>1. length + 1 \in 1..(MaxLen - 2) /\ (length + 1) + 1 = length + 2
                  /\ (length + 1) + 2 = length + 3
                  BY <2>0
            <3> QED
                BY <2>0, <3>1 DEF Ends
      <2>2. \A j \in Ends : j \in Nat /\ length + 1 <= j
            BY <2>0, EndsBehind
      <2>3. e \in Ends /\ e <= length + 1
            <3>1. \E i \in Ends : \A j \in Ends : i <= j
                  BY <2>1, <2>2
            <3>2. e \in Ends /\ \A j \in Ends : e <= j
                  BY <3>1
            <3> HIDE DEF e
            <3> QED
                BY <2>1, <3>2
      <2>4. ReaderSees = SubSeq(mem, 1, e - 1)
            BY <2>1 DEF ReaderSees
      <2> HIDE DEF e
      <2>5. e - 1 = length /\ length \in 0..MaxLen
            BY <2>0, <2>2, <2>3
      <2>6. /\ ReaderSees \in Seq(Byte) /\ Len(ReaderSees) = length
            /\ \A i \in 1..length : ReaderSees[i] = mem[i]
            BY <2>0, <2>4, <2>5, BlockPart
      <2> QED
          BY <2>0, <2>6 DEF LiveBytes
<1> QED
    BY <1>1, WholeAlways, PTL

-----------------------------------------------------------------------------
(* The block implements ByteLog.tla.                                           *)

\* Where the store is, as ImplementsByteLog maps it.
StoreState ==
    CASE phase \in {"closed", "opened"} -> "down"
      [] phase = "flushing" -> "taking"
      [] OTHER -> "up"

LEMMA StoreStates ==
    ASSUME TypeOK
    PROVE  /\ (StoreState = "down") = (phase \in {"closed", "opened"})
           /\ (StoreState = "taking") = (phase = "flushing")
           /\ (StoreState = "up") = (phase \in {"idle", "copying", "terminating"})
BY DEF StoreState, TypeOK, Phases

\* A flush between two calls hands over what was written, one after an open at least that.
LEMMA FlushedIsLive ==
    ASSUME WholeInv
    PROVE  /\ phase = "idle" => Flushed = live
           /\ phase = "opened" => IsPrefix(live, Flushed)
<1>0. /\ TypeOK /\ LiveBytes /\ live \in Seq(Byte) /\ Len(live) \in Nat /\ Len(live) <= MaxLen
      /\ length \in 0..MaxLen
      BY DEF WholeInv, LiveInv, LiveBytes, BufferInv, TypeOK
<1>1. /\ SubSeq(mem, 1, length) \in Seq(Byte) /\ Len(SubSeq(mem, 1, length)) = length
      /\ \A i \in 1..length : SubSeq(mem, 1, length)[i] = mem[i]
      BY <1>0, BlockPart
<1>2. Len(live) > 0 => mem[1] # Nul
      <2>1. Len(live) > 0 => 1 \in 1..Len(live)
            BY <1>0
      <2> QED
          BY <1>0, <2>1 DEF LiveBytes
<1>3. ASSUME phase = "idle" PROVE Flushed = live
      <2>1. length = Len(live) /\ (length = 0 <=> mem[1] = Nul)
            BY <1>3 DEF WholeInv, ContentInv, CursorsMeet, FirstByteKept, LiveInv, LivePlace
      <2>2. CASE length = 0
            <3>1. Flushed = << >>
                  BY <2>2 DEF Flushed
            <3>2. Len(live) = 0
                  BY <2>1, <2>2
            <3>3. live = << >>
                  BY <1>0, <3>2, EmptySeq
            <3> QED
                BY <3>1, <3>3
      <2>3. CASE length # 0
            <3>1. Flushed = SubSeq(mem, 1, length)
                  BY <2>1, <2>3 DEF Flushed
            <3>2. \A i \in 1..Len(live) : Flushed[i] = live[i]
                  BY <1>0, <1>1, <2>1, <3>1 DEF LiveBytes
            <3> QED
                BY <1>0, <1>1, <2>1, <3>1, <3>2
      <2> QED
          BY <2>2, <2>3
<1>4. ASSUME phase = "opened" PROVE IsPrefix(live, Flushed)
      <2>1. length = MaxLen
            BY <1>4 DEF WholeInv, LiveInv, TerminatorBehind
      <2>2. CASE mem[1] = Nul
            <3>1. Flushed = << >>
                  BY <2>2 DEF Flushed
            <3>2. Flushed \in Seq(Byte) /\ Len(Flushed) = 0
                  BY <3>1
            <3>3. Len(live) = 0
                  BY <1>0, <1>2, <2>2
            <3>4. Len(live) <= Len(Flushed) /\ \A i \in 1..Len(live) : Flushed[i] = live[i]
                  BY <3>2, <3>3
            <3> QED
                BY <1>0, <3>2, <3>4, BeginsWith
      <2>3. CASE mem[1] # Nul
            <3>1. Flushed = SubSeq(mem, 1, length)
                  BY <2>1, <2>3 DEF Flushed
            <3>2. \A i \in 1..Len(live) : Flushed[i] = live[i]
                  BY <1>0, <1>1, <2>1, <3>1 DEF LiveBytes
            <3> QED
                BY <1>0, <1>1, <2>1, <3>1, <3>2, BeginsWith
      <2> QED
          BY <2>2, <2>3
<1> QED
    BY <1>3, <1>4

\* The record that a write stores is a run of one byte, which fits.
LEMMA CopyPuts == ASSUME WholeInv, TypeOK', WriteCopy PROVE Store!Put \/ UNCHANGED Store!vars
<1>0. /\ TypeOK /\ phase = "copying" /\ live \in Seq(Byte) /\ pos = Len(live) /\ pos \in Nat
      /\ todo \in Seq(Byte) /\ Len(todo) \in Nat /\ pos + Len(todo) <= MaxLen
      /\ \A i \in 1..Len(todo) : todo[i] \in Data /\ todo[i] = writes
      BY DEF WholeInv, BufferInv, ContentInv, LiveInv, TypeOK, TodoFits, FirstByteKept, LivePlace,
             WriteCopy
<1>1. /\ live' = live \o todo /\ phase' \in {"idle", "terminating"}
      /\ UNCHANGED <<useHeap, out, log>>
      BY DEF WriteCopy
<1>2. StoreState = "up" /\ StoreState' = "up"
      BY <1>0, <1>1, StoreStates DEF StoreState
<1>3. CASE todo = << >>
      <2>1. live' = live
            BY <1>0, <1>1, <1>3
      <2> QED
          BY <1>1, <1>2, <2>1 DEF Store!vars, StoreState
<1>4. CASE todo # << >>
      <2>1. Len(todo) \in 1..(MaxLen - Len(live))
            BY <1>0, <1>4
      <2>2. writes \in Data
            BY <1>0, <2>1
      <2>3. todo = [i \in 1..Len(todo) |-> writes]
            BY <1>0
      <2>4. \E b \in Data, n \in 1..(MaxLen - Len(live)) : live' = live \o [i \in 1..n |-> b]
            BY <1>1, <2>1, <2>2, <2>3
      <2> QED
          BY <1>1, <1>2, <2>4 DEF Store!Put, StoreState
<1> QED
    BY <1>3, <1>4

\* Every step is one of the store's, or one that the store does not see.
LEMMA StoreStep == ASSUME WholeInv, TypeOK', [Next]_vars PROVE [Store!Next]_(Store!vars)
<1>0. TypeOK /\ StoreState \in {"down", "taking", "up"}
      BY DEF WholeInv, BufferInv, StoreState
<1> USE DEF cursors
<1>q. ASSUME UNCHANGED <<useHeap, live, out, log>>, StoreState' = StoreState
      PROVE  UNCHANGED Store!vars
      BY <1>q DEF Store!vars, StoreState
<1>1. CASE Open
      BY <1>1, <1>q DEF Open, StoreState
<1>2. CASE FlushCopy
      <2>1. /\ out = << >> /\ out' = Flushed /\ UNCHANGED <<useHeap, live, log>>
            /\ phase' = "flushing" /\ phase \in {"opened", "idle"}
            BY <1>2 DEF FlushCopy
      <2>2. CASE phase = "opened"
            <3>1. IsPrefix(live, out')
                  BY <2>1, <2>2, FlushedIsLive
            <3>2. Store!IsPrefix(live, out')
                  BY <3>1 DEF IsPrefix, Store!IsPrefix
            <3>3. Store!Recover
                  BY <2>1, <2>2, <3>2 DEF Store!Recover
            <3> QED
                BY <3>3 DEF Store!Next
      <2>3. CASE phase = "idle"
            <3>1. out' = live
                  BY <2>1, <2>3, FlushedIsLive
            <3>2. Store!Take
                  BY <2>1, <2>3, <3>1 DEF Store!Take
            <3> QED
                BY <3>2 DEF Store!Next
      <2> QED
          BY <2>1, <2>2, <2>3
<1>3. CASE FlushClear
      <2>1. Store!Drop
            BY <1>3 DEF FlushClear, Store!Drop
      <2> QED
          BY <2>1 DEF Store!Next
<1>4. CASE Emit
      <2>1. Store!Emit
            BY <1>4 DEF Emit, Store!Emit
      <2> QED
          BY <2>1 DEF Store!Next
<1>5. CASE WriteBegin
      BY <1>5, <1>q DEF WriteBegin, StoreState
<1>6. CASE WriteCopy
      BY <1>6, CopyPuts DEF Store!Next
<1>7. CASE WriteTerminator
      BY <1>7, <1>q DEF WriteTerminator, StoreState
<1>8. CASE Close
      <2>1. Store!Wipe
            BY <1>8 DEF Close, Store!Wipe
      <2> QED
          BY <2>1 DEF Store!Next
<1>9. CASE Crash
      <2>1. Store!Crash
            BY <1>9 DEF Crash, Store!Crash
      <2> QED
          BY <2>1 DEF Store!Next
<1>10. CASE UNCHANGED vars
      BY <1>10, <1>q DEF vars, StoreState
<1> QED
    BY <1>1, <1>2, <1>3, <1>4, <1>5, <1>6, <1>7, <1>8, <1>9, <1>10 DEF Next

\* What the block promises for every size, every set of record lengths and wherever the
\* process dies: all that was written comes out, in order and once, and a mapped block
\* gives the next process at least what the last one had not flushed.
THEOREM IsAByteLog == Spec => ImplementsByteLog
<1>1. Init => Store!Init
      BY DEF Init, Store!Init
<1>2. WholeInv /\ WholeInv' /\ [Next]_vars => [Store!Next]_(Store!vars)
      BY StoreStep DEF WholeInv, BufferInv
<1> QED
    BY <1>1, <1>2, WholeAlways, PTL DEF ImplementsByteLog, Store!Spec, Spec
=============================================================================
