----------------------------- MODULE LogBuffer ------------------------------
(***************************************************************************)
(* The block behind an appender, byte by byte: MTAppenderFileLogBuffer on  *)
(* top of PtrBuffer, over the mapped .mmap2 file or a heap block, as open, *)
(* append, the flushes and close use it, one at a time. The process may    *)
(* die between any two bytes it stores; the mapped file survives it.       *)
(*                                                                         *)
(* A record is 1..n copies of its number: enough to tell whole, cut, stale *)
(* and misplaced records apart. Formatted records hold no NUL.             *)
(***************************************************************************)
EXTENDS Naturals, Sequences, SequencesExt

CONSTANTS
    MaxLen,      \* PtrBuffer::max_length_, the size of the block
    RecLens,     \* the lengths of records
    MaxWrites,   \* bound: writes
    MaxOpens,    \* bound: opens
    Nul, CR,     \* the bytes \0 and \r of the terminator
    Garbage      \* an uninitialised byte

Data  == 1..MaxWrites
Byte  == Data \cup {Nul, CR, Garbage}
Cells == 1..(MaxLen + 4)     \* the block, and four bytes that are not its own

ASSUME LogBufferAssumption ==
    /\ MaxLen \in Nat /\ MaxLen > 4
    /\ RecLens \subseteq Nat \ {0}
    /\ MaxWrites \in Nat /\ MaxOpens \in Nat
    /\ {Nul, CR, Garbage} \cap Data = {}
    /\ Nul # CR /\ Nul # Garbage /\ CR # Garbage

VARIABLES
    useHeap,   \* the file cannot be opened: the block is new char[]
    phase,     \* what the code is in the middle of
    mem,       \* the bytes of the block (the .mmap2 file, or the heap) and behind it
    pos,       \* PtrBuffer::pos_
    length,    \* PtrBuffer::length_
    todo,      \* the bytes the current write has still to store, in order
    out,       \* AutoBuffer: bytes flushed and not yet written
    log,       \* the bytes of the .mtlog file
    writes,    \* the writes so far
    opens,     \* the opens so far
    live       \* history: the bytes written and not flushed since

cursors == <<pos, length>>
vars == <<useHeap, phase, mem, cursors, todo, out, log, writes, opens, live>>

Phases == {"closed", "opened", "idle", "flushing", "copying", "terminating"}

\* memcpy or memset of s to the offset at.
StoredAtStart(s, at) == [i \in Cells |-> IF i \in DOMAIN s THEN s[i] ELSE mem[i]]
Stored(s, at) == [i \in Cells |-> IF i - at \in DOMAIN s THEN s[i - at] ELSE mem[i]]

Fresh == [i \in Cells |-> IF i <= MaxLen THEN Nul ELSE Garbage]

Init ==
    /\ useHeap \in BOOLEAN
    /\ phase = "closed" /\ mem = Fresh
    /\ pos = 0 /\ length = 0
    /\ todo = << >> /\ out = << >> /\ log = << >>
    /\ writes = 0 /\ opens = 0 /\ live = << >>

-----------------------------------------------------------------------------
\* mtaf_open_mmap or new char[], and the constructor: Attach makes length_ the
\* whole block and pos_ 0. Heap memory starts with whatever was there.
AttachLength == MaxLen

Open ==
    /\ phase = "closed" /\ opens < MaxOpens
    /\ IF useHeap
       THEN \E b \in {Nul, Garbage} : mem' = [i \in Cells |-> IF i <= MaxLen THEN b ELSE Garbage]
       ELSE UNCHANGED mem
    /\ pos' = 0 /\ length' = AttachLength
    /\ opens' = opens + 1
    /\ phase' = "opened"
    /\ UNCHANGED <<useHeap, todo, out, log, writes, live>>

\* LogBuffer::Flush: nothing if the block begins with NUL, else all up to length_.
ShortFlush == SubSeq(mem, 1, length - 1)
LongFlush == SubSeq(mem, 1, length + 1)
Flushed == IF length = 0 \/ mem[1] = Nul THEN << >> ELSE SubSeq(mem, 1, length)

FlushCopy ==
    /\ phase \in {"opened", "idle"} /\ out = << >>
    /\ out' = Flushed
    /\ phase' = "flushing"
    /\ UNCHANGED <<useHeap, mem, cursors, todo, log, writes, opens, live>>

\* __Clear: the first byte, and the cursors.
ClearCursorsOnly == mem
Cleared == Stored(<<Nul>>, 0)

FlushClear ==
    /\ phase = "flushing"
    /\ mem' = Cleared /\ pos' = 0 /\ length' = 0
    /\ live' = << >>
    /\ phase' = "idle"
    /\ UNCHANGED <<useHeap, todo, out, log, writes, opens>>

\* __log2file with what the flush returned, while others write again.
Emit ==
    /\ phase # "flushing" /\ out # << >>
    /\ log' = log \o out /\ out' = << >>
    /\ UNCHANGED <<useHeap, phase, mem, cursors, todo, writes, opens, live>>

-----------------------------------------------------------------------------
\* PtrBuffer::Write cuts the record at the end of the block and stores length_
\* before the bytes. LogBuffer::Write clears an empty block first.
Cut(n) == IF n <= MaxLen - pos THEN n ELSE MaxLen - pos

WriteBegin ==
    /\ phase = "idle" /\ writes < MaxWrites
    /\ writes' = writes + 1
    /\ \E n \in RecLens :
        /\ todo' = [i \in 1..Cut(n) |-> writes']
        /\ length' = IF length < pos + Cut(n) THEN pos + Cut(n) ELSE length
    /\ mem' = IF length = 0 THEN Cleared ELSE mem
    /\ phase' = "copying"
    /\ UNCHANGED <<useHeap, pos, out, log, opens, live>>

\* The terminator, where there is room for it.
Terminator == <<Nul, Nul, Nul, CR>>
NeverRoom == FALSE
RoomToTheLast == length < MaxLen
Room == length < MaxLen - 4

\* The memcpy of the record; Seek comes after the terminator, but nothing reads
\* pos_ before.
WriteCopy ==
    /\ phase = "copying"
    /\ mem' = Stored(todo, pos)
    /\ pos' = pos + Len(todo)
    /\ live' = live \o todo
    /\ todo' = IF Room THEN Terminator ELSE << >>
    /\ phase' = IF Room THEN "terminating" ELSE "idle"
    /\ UNCHANGED <<useHeap, length, out, log, writes, opens>>

WriteTerminator ==
    /\ phase = "terminating"
    /\ mem' = Stored(todo, pos)
    /\ todo' = << >>
    /\ phase' = "idle"
    /\ UNCHANGED <<useHeap, cursors, out, log, writes, opens, live>>

\* close: zero the file and unmap it, or delete the block.
Close ==
    /\ phase = "idle"
    /\ mem' = Fresh /\ pos' = 0 /\ length' = 0
    /\ live' = << >>
    /\ phase' = "closed"
    /\ UNCHANGED <<useHeap, todo, out, log, writes, opens>>

\* The process dies, with a prefix of todo in the block. Memory is gone, the
\* mapped file is not.
Crash ==
    /\ \E k \in 0..Len(todo) : mem' = IF useHeap THEN Fresh ELSE Stored(SubSeq(todo, 1, k), pos)
    /\ live' = IF useHeap THEN << >> ELSE live
    /\ pos' = 0 /\ length' = 0 /\ todo' = << >> /\ out' = << >>
    /\ phase' = "closed"
    /\ UNCHANGED <<useHeap, log, writes, opens>>

Next ==
    \/ Open \/ FlushCopy \/ FlushClear \/ Emit
    \/ WriteBegin \/ WriteCopy \/ WriteTerminator \/ Close \/ Crash

Spec == Init /\ [][Next]_vars

-----------------------------------------------------------------------------
(* Readme.md:27-30: how a reader reads the .mmap2 file - up to the first        *)
(* \0\0\0, what follows is dirty and ignored.                                  *)

Ends == {i \in 1..(MaxLen - 2) : mem[i] = Nul /\ mem[i + 1] = Nul /\ mem[i + 2] = Nul}

ReaderSees ==
    IF Ends = {} THEN SubSeq(mem, 1, MaxLen)
    ELSE SubSeq(mem, 1, (CHOOSE i \in Ends : \A j \in Ends : i <= j) - 1)

-----------------------------------------------------------------------------
\* Types; and the block's writes stay inside the block: the bytes behind it,
\* which belong to somebody else, are never stored to.
TypeOK ==
    /\ phase \in Phases /\ useHeap \in BOOLEAN
    /\ mem \in [Cells -> Byte] /\ \A i \in Cells : i > MaxLen => mem[i] = Garbage
    /\ pos \in 0..MaxLen /\ length \in 0..MaxLen /\ pos <= length
    /\ todo \in Seq(Byte) /\ out \in Seq(Byte) /\ log \in Seq(Byte) /\ live \in Seq(Byte)
    /\ writes \in 0..MaxWrites /\ opens \in 0..MaxOpens

\* Flush asks the first byte whether there is anything to flush, the writers ask
\* length_: between two calls the two agree.
FirstByteSignalsData == phase = "idle" => (length = 0 <=> mem[1] = Nul)

\* A reader who follows the Readme while the block holds data and room for the
\* terminator reads exactly what was written and not flushed since.
ReaderSeesLive == phase = "idle" /\ 0 < length /\ length < MaxLen - 4 => ReaderSees = live

\* At any moment, in the middle of a write and after a crash too, the reader
\* misses nothing that a finished write had put there.
ReaderMissesNothing == ~useHeap => IsPrefix(live, ReaderSees)

\* Nothing that was never written gets out of the block: from a mapped one no byte of
\* uninitialised or foreign memory reaches the log file, and from a heap block only the
\* flush of its open can take some (mtaf_log_appender_open, LogBuffer::Flush).
GarbageOnlyAtHeapOpen ==
    /\ ~useHeap => Garbage \notin ToSet(out \o log)
    /\ phase = "idle" => Garbage \notin ToSet(Flushed)

\* The block is a durable first-in first-out store of what is written to it.
Store == INSTANCE ByteLog WITH
    Byte <- Data, Capacity <- MaxLen, durable <- ~useHeap, held <- live,
    state <- CASE phase \in {"closed", "opened"} -> "down"
               [] phase = "flushing" -> "taking"
               [] OTHER -> "up"

ImplementsByteLog == Store!Spec

\* Readme.md:30 says that the content before the first \0\0\0 is not dirty: while a block
\* holds records, no byte of another one that was flushed before them is among it.
ReaderSeesNoDirt ==
    ~useHeap /\ phase = "idle" /\ length > 0 => ToSet(ReaderSees) \cap Data \subseteq ToSet(live)

\* The comment in __Clear (mtaf_log_buffer.cpp:94): because the cursor tells where
\* the data is, it is enough to clear the first byte. So no record that was flushed
\* before comes out of the block again at the next open - the last one apart, which
\* the end of the process may have cut.
FlushedStaysFlushed ==
    phase = "opened" => ToSet(Flushed) \cap Data \subseteq ToSet(live) \cup {writes}
=============================================================================
