------------------------------- MODULE Record -------------------------------
(***************************************************************************)
(* The way of a record's bytes: mtaf_log_formater writes them to a 16KB    *)
(* array on the stack of append, LogBuffer::Write copies them to the       *)
(* mapped block, LogBuffer::Flush copies the block to an AutoBuffer, and   *)
(* that goes to the log file. LogBuffer.tla has the block's steps and its  *)
(* life and death byte by byte; here each operation is one step, because   *)
(* it holds sg_mutex_buffer_async, and what counts is which bytes it makes *)
(* of a text, and where the lengths of the buffers cut them.               *)
(***************************************************************************)
EXTENDS PtrBuffer, SequencesExt

CONSTANTS
    TempLen,     \* the array on the stack: 16 * 1024
    HeaderCap,   \* what snprintf may use of it for "[level][time][tag]: ": 1024
    Reserve,     \* what the body leaves free: 130
    BlockLen,    \* sg_bufferblock_length: 150 * 1024
    Unit,        \* AutoBuffer's malloc_unitsize_: 128
    FormatCap,   \* kLogBufSize of appendFormat: 3000
    Headers,     \* the lengths of headers; 0 for a NULL _info
    Bodies,      \* what is logged: texts, or NoBody for NULL
    NoBody,
    ErrorText,   \* "error!! NULL==_logbody"
    Message,     \* "[F][ sg_buffer_async.Length() >= BUFFER_BLOCK_LENTH*4/5, ..."
    Char,        \* the bytes of a C string
    NL, HeaderByte, Other,   \* bytes: newline, one of a header, one of somebody else
    Bulk,        \* the calls that fill the block
    MaxAny,      \* bound: appends of any kind,
    MaxAppends   \* and after them appends in Bulk

Heap == INSTANCE AutoBuffer WITH Zero <- Nul

Call == [header : Headers, body : Bodies]

ASSUME RecordAssumption ==
    /\ {TempLen, HeaderCap, Reserve, BlockLen, Unit, FormatCap, MaxAppends} \subseteq Nat \ {0}
    /\ HeaderCap > 1 /\ MaxAny \in 0..MaxAppends
    /\ Headers \subseteq Nat
    /\ (Bodies \ {NoBody}) \cup {ErrorText, Message} \subseteq Seq(Char)
    /\ << >> \notin {ErrorText, Message}
    /\ Nul \notin Char \cup {NL, HeaderByte}
    /\ HeaderCap + Reserve + Len(ErrorText) < TempLen /\ Len(Message) < TempLen
    \* A record of any length that is written below four fifths of the block leaves
    \* room for itself and for a terminator: 122880 + 16384 < 153600 - 4.
    /\ (BlockLen * 4) \div 5 + TempLen < BlockLen - 3

VARIABLES
    state,      \* of the process: "up", "down", or "opened": a block is found, not flushed
    temp,       \* log_buff (log in __appender_sync) at the end of an append
    last,       \* history: what that append was called with, and whether it wrote Message
    block,      \* the mapped block, and the cursors of buff_
    tmp,        \* the AutoBuffer at the end of a flush
    out,        \* what a flush or a synchronous append gives to __log2file
    lines,      \* history: what has been put into the block since it was flushed
    appends     \* the calls of append so far

vars == <<state, temp, last, block, tmp, out, lines, appends>>

-----------------------------------------------------------------------------
(* mtaf_log_formater, step by step, on b. *)

\* snprintf returns what it would have written, and Length believes it.
Header(b, n) ==
    LET printed == [i \in 1..Lesser(n, HeaderCap - 1) |-> HeaderByte] \o <<Nul>>
    IN IF n = 0 THEN b
       ELSE SetLength([b EXCEPT !.mem = Put(@, printed, b.pos)], b.pos + n, b.length + n)

ToTheEnd(b) == b.max - b.length
BodyRoom(b) == Greater(0, b.max - b.length - Reserve)

Body(b, body) ==
    Write(b, IF body = NoBody THEN ErrorText ELSE SubSeq(body, 1, Lesser(Len(body), BodyRoom(b))))

\* The last byte; for an empty buffer, the byte before the array.
EndLine(b) == IF b.mem[b.pos] = NL THEN b ELSE Write(b, <<NL>>)

\* (The branch for an array of 5KB or less is never taken: it has 16KB.)
Formatted(c, before) ==
    LET fresh == [Over(TempLen, Nul, Other) EXCEPT !.mem[0] = before]
    IN EndLine(Body(Header(fresh, c.header), c.body))

\* The message that takes the place of a record.
Overflowed(b) ==
    SetLength([b EXCEPT !.mem = Put(@, Message \o <<Nul>>, 0)], Len(Message), Len(Message))

-----------------------------------------------------------------------------
NoTemp == Over(TempLen, Nul, Other)
NoCall == [header |-> 0, body |-> << >>, full |-> FALSE]

Init ==
    /\ state = "up" /\ temp = NoTemp /\ last = NoCall
    /\ block = Over(BlockLen, Nul, Other)
    /\ tmp = Heap!NoBuffer /\ out = << >> /\ lines = << >>
    /\ appends = 0

NearlyFullLater == block.length > (BlockLen * 9) \div 10
NearlyFull == block.length >= (BlockLen * 4) \div 5

\* __Clear.
Cleared(b) == [b EXCEPT !.mem[1] = Nul, !.pos = 0, !.length = 0]

Called(c, full) ==
    /\ state = "up" /\ appends < (IF c \in Bulk THEN MaxAppends ELSE MaxAny)
    /\ appends' = appends + 1
    /\ tmp' = Heap!NoBuffer
    /\ last' = [header |-> c.header, body |-> c.body, full |-> full]
    /\ \E before \in {NL, Other} :
        temp' = IF full THEN Overflowed(Formatted(c, before)) ELSE Formatted(c, before)

\* __appender_async. LogBuffer::Write refuses an empty record, and clears an empty
\* block.
AppendAsync(c) ==
    /\ Called(c, NearlyFull)
    /\ IF temp'.length = 0
       THEN UNCHANGED <<block, lines>>
       ELSE /\ block' = Write(IF block.length = 0 THEN Cleared(block) ELSE block, Content(temp'))
            /\ lines' = Append(lines, [header |-> c.header, full |-> NearlyFull,
                                       text |-> Content(temp')])
    /\ out' = << >>
    /\ UNCHANGED state

\* __appender_sync: over buffer_crypt, which is as long, to __log2file.
AppendSync(c) ==
    /\ Called(c, FALSE)
    /\ out' = Content(temp')
    /\ UNCHANGED <<state, block, lines>>

\* appendFormat: vsnprintf to an array of its own, then append without _info.
AppendFormat(body) ==
    /\ body # NoBody
    /\ AppendAsync([header |-> 0, body |-> SubSeq(body, 1, Lesser(Len(body), FormatCap - 1))])

\* LogBuffer::Flush: what is in the block is copied, and then cleared. A process that
\* gets no memory for the copy dies in it, before the block is cleared.
FaultAfterClear == Cleared(block)
FaultInCopy == block

Flush ==
    /\ state \in {"up", "opened"}
    /\ \E granted \in BOOLEAN :
        LET data == IF block.length = 0 \/ block.mem[1] = Nul THEN << >> ELSE Content(block) IN
        /\ tmp' = Heap!WriteTo(Heap!NoBuffer, data, granted)
        /\ IF Heap!Faults(tmp', data)
           THEN state' = "down" /\ block' = FaultInCopy /\ out' = << >> /\ UNCHANGED lines
           ELSE /\ state' = "up" /\ block' = Cleared(block)
                /\ out' = Heap!Content(tmp') /\ lines' = << >>
    /\ temp' = NoTemp /\ last' = NoCall
    /\ UNCHANGED appends

\* The next process makes a LogBuffer of the mapped block, a full one, and flushes it.
Reopen ==
    /\ state = "down"
    /\ state' = "opened"
    /\ block' = [block EXCEPT !.pos = 0, !.length = BlockLen]
    /\ UNCHANGED <<temp, last, tmp, out, lines, appends>>

Next ==
    \/ \E c \in Call : AppendAsync(c) \/ AppendSync(c)
    \/ \E body \in Bodies : AppendFormat(body)
    \/ Flush \/ Reopen

Spec == Init /\ [][Next]_vars

-----------------------------------------------------------------------------
Texts(ls) == FlattenSeq([i \in DOMAIN ls |-> ls[i].text])

\* Types; and no write goes to a byte before or behind the array on the stack or the
\* block, nor behind what AutoBuffer has allocated; the cursors stay in order inside.
Inside(b, limit) ==
    /\ b.max = limit /\ DOMAIN b.mem = 0..(limit + 4)
    /\ \A i \in (limit + 1)..(limit + 4) : b.mem[i] = Other
    /\ 0 <= b.pos /\ b.pos <= b.length /\ b.length <= limit

TypeOK ==
    /\ state \in {"up", "down", "opened"}
    /\ Inside(temp, TempLen) /\ Inside(block, BlockLen) /\ block.mem[0] = Other
    /\ tmp.array # << >> => tmp.length <= tmp.capacity /\ Len(tmp.array) = tmp.capacity
    /\ appends \in 0..MaxAppends

\* What a record should be: header, body and one newline at the end. A body that is
\* too long is cut, the newline is not. (A record of nothing may stay empty.)
AsAsked(c) ==
    LET header == [i \in 1..c.header |-> HeaderByte]
        room   == TempLen - Reserve - c.header
        body   == IF c.body = NoBody THEN ErrorText ELSE SubSeq(c.body, 1, Lesser(Len(c.body), room))
        text   == header \o body
    IN IF text # << >> /\ Last(text) = NL THEN text ELSE Append(text, NL)

\* Every record whose header fits its snprintf is what it should be, at every length
\* of header and body, whatever precedes the array on the stack (mtaf_log_formater).
TextAsAsked ==
    ~last.full /\ last.header < HeaderCap
        => \/ Content(temp) = AsAsked(last)
           \/ last.header = 0 /\ last.body = << >> /\ temp.length = 0

\* The end of the block cuts no record, only the message that takes a record's place:
\* below four fifths any record fits. And every whole line ends in a newline, so that
\* the next one starts a line, unless its header is longer than snprintf can print and
\* leaves no room for the text of a NULL body, which is written with nothing in reserve.
LinesWhole ==
    state = "up" =>
        /\ IsPrefix(Content(block), Texts(lines))
        /\ \A i \in DOMAIN lines : ~lines[i].full =>
            /\ Len(Texts(SubSeq(lines, 1, i))) <= block.length
            /\ lines[i].header + Len(ErrorText) < TempLen => Last(lines[i].text) = NL

\* The reader of Readme.md:30 stops at the first \0\0\0. It finds every line, and
\* nothing else, as long as no header was too long for its snprintf (the bytes that
\* Length then counts were never printed, and are NUL) and no message was needed.
Ends == {i \in 1..(BlockLen - 2) : \A k \in 0..2 : block.mem[i + k] = Nul}

ReaderFindsLines ==
    (state = "up" /\ lines # << >> /\ \A i \in DOMAIN lines : ~lines[i].full /\ lines[i].header < HeaderCap)
        => \E i \in Ends : (\A j \in Ends : i <= j) /\ [k \in 1..(i - 1) |-> block.mem[k]] = Texts(lines)

\* A step that empties the block hands all its whole lines over, in order and behind
\* nothing else. A flush that gets no memory empties nothing: the process dies of it before
\* the block is cleared, and the flush of the next open has them.
WholeLinesComeOut ==
    [][lines # << >> /\ lines' = << >>
        => \A i \in DOMAIN lines :
            ~lines[i].full => IsPrefix(Texts(SubSeq(lines, 1, i)), out')]_vars
=============================================================================
