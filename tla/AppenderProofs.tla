--------------------------- MODULE AppenderProofs ---------------------------
(* Theorems about Appender.tla, for every set of clients, block length and    *)
(* bound: types, flushes through NULL, and the log file of a closed appender. *)
EXTENDS Appender, TLAPS

USE AppenderAssumption

-----------------------------------------------------------------------------
(* The operators on the block and on the sequences of bytes. *)

\* What a slot can hold.
LEMMA RecIsSlot == Rec \subseteq Slot /\ Overflow \in Slot /\ Nul \in Slot /\ Junk \in Slot
BY DEF Slot

\* A part of a sequence is a sequence of the same things.
LEMMA SubSeqType ==
    ASSUME NEW S, NEW s \in Seq(S), NEW i \in 1..(Len(s) + 1), NEW j \in 0..Len(s)
    PROVE  SubSeq(s, i, j) \in Seq(S)
OBVIOUS

\* A block is a sequence of BlockLen slots.
LEMMA BlockIsSeq == ASSUME NEW b \in Block PROVE b \in Seq(Slot) /\ Len(b) = BlockLen
BY DEF Block

\* A zeroed block is a block.
LEMMA BlankType == Blank \in Block
BY RecIsSlot DEF Blank, Block

\* Flush hands over a sequence of slots.
LEMMA FlushedType == TypeOK => Flushed \in Seq(Slot)
<1> SUFFICES ASSUME TypeOK PROVE Flushed \in Seq(Slot)
    OBVIOUS
<1>1. block \in Block
      BY DEF TypeOK, DataOK, block
<1>2. block \in Seq(Slot) /\ Len(block) = BlockLen
      BY <1>1, BlockIsSeq
<1>3. SubSeq(block, 1, len) \in Seq(Slot)
      BY <1>2, SubSeqType DEF TypeOK, DataOK
<1> QED
    BY <1>3 DEF Flushed

\* A write keeps the shape of the block and the order of the positions.
LEMMA WrittenType ==
    ASSUME TypeOK, NEW c \in Slot
    PROVE  /\ Written(c) \in Block
           /\ NewPos \in 0..BlockLen /\ NewLen \in 0..BlockLen /\ NewPos <= NewLen
<1>1. block \in Block
      BY DEF TypeOK, DataOK, block
<1>2. Written(c) \in Block
      BY <1>1, RecIsSlot DEF Written, Block
<1> QED
    BY <1>2 DEF TypeOK, DataOK, NewPos, NewLen

\* A store to the block reaches the mapped file or the heap, and keeps both blocks.
LEMMA SetBlockType ==
    ASSUME TypeOK, NEW b \in Block, SetBlock(b)
    PROVE  mfile' \in Block /\ heap' \in Block
BY DEF TypeOK, DataOK, SetBlock

\* __Clear leaves a block and cursors at 0.
LEMMA ClearBlockType ==
    ASSUME TypeOK, ClearBlock
    PROVE  mfile' \in Block /\ heap' \in Block /\ pos' = 0 /\ len' = 0
<1>1. [block EXCEPT ![1] = Nul] \in Block
      BY RecIsSlot DEF TypeOK, DataOK, block, Block
<1> QED
    BY <1>1, SetBlockType DEF ClearBlock

\* Marking records keeps fate a function of the records.
LEMMA MarkType ==
    ASSUME TypeOK, NEW rs, NEW f \in Fates, Mark(rs, f)
    PROVE  fate' \in [Rec -> Fates]
BY DEF TypeOK, DataOK, Mark
-----------------------------------------------------------------------------
(* Where the threads are. *)

Legal(t, l) ==
    /\ t \in Clients => l \in ClientPc
    /\ t = Worker => l \in WorkerPc
    /\ t = Owner => l \in OwnerPc

InAppend == {"AppendMode", "AppendWrite", "AppendNotify"}

\* A thread moves to a place of its role, and gives up or keeps its record.
LEMMA GotoPc ==
    ASSUME PcOK, NEW t \in Threads, NEW l, Legal(t, l), Goto(t, l),
           \/ rec' = rec /\ (l \in InAppend => rec[t] # 0)
           \/ rec' = [rec EXCEPT ![t] = 0] /\ l \notin InAppend
    PROVE  PcOK'
<1>1. pc' \in [Threads -> ClientPc \cup WorkerPc \cup OwnerPc]
      BY DEF PcOK, Legal, Goto, Threads
<1>2. rec' \in [Threads -> Rec \cup {0}]
      BY DEF PcOK
<1>3. pc'[Worker] \in WorkerPc /\ pc'[Owner] \in OwnerPc /\ \A c \in Clients : pc'[c] \in ClientPc
      BY DEF PcOK, Legal, Goto, Threads
<1>4. ASSUME NEW c \in Clients, pc'[c] \in InAppend PROVE rec'[c] # 0
      BY <1>4 DEF PcOK, Goto, Threads, InAppend
<1> QED
    BY <1>1, <1>2, <1>3, <1>4 DEF PcOK, InAppend

\* The same with the worker woken or started on the way.
LEMMA WakePc ==
    ASSUME PcOK, NEW t \in Clients \cup {Owner}, NEW l, Legal(t, l), NEW w \in WorkerPc,
           WakeAndGoto(w, t, l), l \notin InAppend,
           rec' = rec \/ rec' = [rec EXCEPT ![t] = 0]
    PROVE  PcOK'
<1>1. pc' \in [Threads -> ClientPc \cup WorkerPc \cup OwnerPc]
      BY DEF PcOK, Legal, WakeAndGoto, Threads
<1>2. rec' \in [Threads -> Rec \cup {0}]
      BY DEF PcOK
<1>3. pc'[Worker] \in WorkerPc /\ pc'[Owner] \in OwnerPc /\ \A c \in Clients : pc'[c] \in ClientPc
      BY DEF PcOK, Legal, WakeAndGoto, Threads
<1>4. ASSUME NEW c \in Clients, pc'[c] \in InAppend PROVE rec'[c] # 0
      BY <1>4 DEF PcOK, WakeAndGoto, Threads, InAppend
<1> QED
    BY <1>1, <1>2, <1>3, <1>4 DEF PcOK, InAppend

\* A step that only moves a thread.
LEMMA StepPc ==
    ASSUME PcOK, NEW t \in Threads, NEW from, NEW to, Legal(t, to), to \notin InAppend,
           Step(t, from, to)
    PROVE  PcOK'
BY GotoPc DEF Step, allButPc

\* The places a flush or a file write goes on to are places of the thread that is in it.
LEMMA PlacesOfRoles ==
    ASSUME PcOK
    PROVE  /\ \A t \in Threads : Legal(t, After(t)) /\ After(t) \notin InAppend
           /\ Notified \in WorkerPc /\ Started \in WorkerPc /\ LoopTop \in WorkerPc
           /\ Drainer \in OwnerPc /\ Drainer \notin InAppend
           /\ \A l \in TaskPc : l \notin InAppend /\ \A t \in Threads : Legal(t, l)
<1>1. Notified \in WorkerPc /\ Started \in WorkerPc /\ LoopTop \in WorkerPc
      BY DEF Notified, Started, LoopTop, PcOK, WorkerPc
<1>2. Drainer \in OwnerPc /\ Drainer \notin InAppend
      BY DEF Drainer, OwnerPc, InAppend
<1>3. \A t \in Threads : Legal(t, After(t)) /\ After(t) \notin InAppend
      BY DEF After, Legal, Threads, ClientPc, WorkerPc, OwnerPc, InAppend
<1>4. \A l \in TaskPc : l \notin InAppend /\ \A t \in Threads : Legal(t, l)
      <2>1. \A l \in TaskPc : l \notin InAppend
            BY DEF TaskPc, InAppend
      <2> QED
          BY <2>1 DEF Legal, ClientPc, WorkerPc, OwnerPc
<1> QED
    BY <1>1, <1>2, <1>3, <1>4

\* What clients do in append, setmode, flush and flush_sync keeps the places.
LEMMA ClientPcStep ==
    ASSUME TypeOK, NEW t \in Clients,
           ClientCall(t) \/ AppendMode(t) \/ AppendNotify(t) \/ AppendWrite(t) \/ FlushSyncLock(t)
    PROVE  PcOK'
<1> USE PlacesOfRoles DEF TypeOK, Threads, ClientPc, TaskPc, InAppend, Legal, allButPc
<1>1. CASE AppendCall(t)
      <2>1. rec' = [rec EXCEPT ![t] = next] /\ next \in Rec
            BY <1>1 DEF AppendCall, DataOK, Rec
      <2>2. next # 0
            BY <2>1 DEF Rec
      <2>3. pc' = [pc EXCEPT ![t] = "AppendMode"]
            BY <1>1 DEF AppendCall, Goto
      <2> QED
          BY <2>1, <2>2, <2>3 DEF PcOK
<1>2. CASE SetMode(t)
      BY <1>2, WakePc DEF SetMode, SetModeEffect
<1>3. CASE Flush(t)
      BY <1>3, WakePc DEF Flush
<1>4. CASE FlushSyncCall(t)
      BY <1>4, StepPc DEF FlushSyncCall
<1>5. CASE AppendMode(t)
      BY <1>5, GotoPc DEF AppendMode, PcOK
<1>6. CASE AppendNotify(t)
      <2>1. \E w \in WorkerPc : WakeAndGoto(w, t, "idle")
            BY <1>6 DEF AppendNotify, PcOK
      <2> QED
          BY <1>6, <2>1, WakePc DEF AppendNotify
<1>7. CASE AppendWrite(t)
      BY <1>7, GotoPc DEF AppendWrite, PcOK
<1>8. CASE FlushSyncLock(t)
      BY <1>8, GotoPc DEF FlushSyncLock
<1> QED
    BY <1>1, <1>2, <1>3, <1>4, <1>5, <1>6, <1>7, <1>8 DEF ClientCall

\* The flush and the file write keep the places, whoever runs them.
LEMMA TaskPcStep ==
    ASSUME PcOK, NEW t \in Threads,
           \/ TaskCheck(t) \/ TaskLock(t) \/ FlushCopy(t) \/ FlushClear(t)
           \/ NoLogDir(t) \/ FileLock(t) \/ FileWrite(t) \/ FileFailed(t) \/ FileDone(t)
    PROVE  PcOK'
<1>1. CASE TaskCheck(t)
      <2>1. Legal(t, "TaskLock") /\ "TaskLock" \notin InAppend
            BY <1>1 DEF TaskCheck, Step, PcOK, Legal, ClientPc, TaskPc, WorkerPc, OwnerPc, InAppend
      <2> QED
          BY <1>1, <2>1, PlacesOfRoles, StepPc DEF TaskCheck
<1>2. CASE TaskLock(t)
      BY <1>2, PlacesOfRoles, GotoPc DEF TaskLock, TaskPc
<1>3. CASE FlushCopy(t)
      BY <1>3, PlacesOfRoles, GotoPc DEF FlushCopy, TaskPc
<1>4. CASE FlushClear(t)
      <2>1. "FileLock" \in TaskPc
            BY DEF TaskPc
      <2> QED
          BY <1>4, <2>1, PlacesOfRoles, GotoPc DEF FlushClear
<1>5. CASE FileLock(t)
      <2>1. rec' = rec /\ (Goto(t, "FileWrite") \/ Goto(t, "FileDone"))
            BY <1>5 DEF FileLock
      <2> QED
          BY <2>1, PlacesOfRoles, GotoPc DEF TaskPc
<1>6. CASE FileWrite(t)
      <2>1. rec' = rec /\ (Goto(t, "FileDone") \/ Goto(t, "FileFailed"))
            BY <1>6 DEF FileWrite
      <2> QED
          BY <2>1, PlacesOfRoles, GotoPc DEF TaskPc
<1>7. CASE FileDone(t)
      BY <1>7, PlacesOfRoles, GotoPc DEF FileDone
<1>8. CASE FileFailed(t)
      BY <1>8, PlacesOfRoles, GotoPc DEF FileFailed, TaskPc
<1>9. CASE NoLogDir(t)
      BY <1>9, PlacesOfRoles, GotoPc DEF NoLogDir
<1> QED
    BY <1>1, <1>2, <1>3, <1>4, <1>5, <1>6, <1>7, <1>8, <1>9

\* The loops of the two async operations keep the places.
LEMMA WorkerPcStep ==
    ASSUME PcOK, OwnCheck \/ OwnClosed \/ Scan \/ BeforeWait \/ Timeout
    PROVE  PcOK'
<1> USE StepPc, PlacesOfRoles DEF Threads, Legal, WorkerPc, InAppend
<1>1. CASE OwnCheck BY <1>1 DEF OwnCheck
<1>2. CASE OwnClosed BY <1>2 DEF OwnClosed
<1>3. CASE Scan BY <1>3 DEF Scan
<1>4. CASE BeforeWait BY <1>4 DEF BeforeWait
<1>5. CASE Timeout BY <1>5 DEF Timeout, LoopTop
<1> QED
    BY <1>1, <1>2, <1>3, <1>4, <1>5

\* open and close keep the places.
LEMMA OwnerPcStep ==
    ASSUME PcOK,
           \/ OpenCall \/ OpenCopy \/ OpenClear \/ OpenPublish \/ OpenSetMode
           \/ CloseCall \/ CloseNotify \/ CloseJoin \/ CloseFree \/ CloseLog
    PROVE  PcOK'
<1> USE GotoPc, PlacesOfRoles DEF Threads, Legal, OwnerPc, TaskPc, InAppend
<1>1. CASE OpenCall BY <1>1 DEF OpenCall
<1>2. CASE OpenCopy BY <1>2 DEF OpenCopy
<1>3. CASE OpenClear BY <1>3 DEF OpenClear
<1>4. CASE OpenPublish BY <1>4 DEF OpenPublish
<1>5. CASE OpenSetMode BY <1>5, WakePc DEF OpenSetMode, SetModeEffect
<1>6. CASE CloseCall BY <1>6 DEF CloseCall
<1>7. CASE CloseNotify BY <1>7, WakePc DEF CloseNotify, allButPc
<1>8. CASE CloseJoin BY <1>8, StepPc DEF CloseJoin
<1>9. CASE CloseFree BY <1>9 DEF CloseFree
<1>10. CASE CloseLog BY <1>10 DEF CloseLog
<1> QED
    BY <1>1, <1>2, <1>3, <1>4, <1>5, <1>6, <1>7, <1>8, <1>9, <1>10

\* A new process begins at its places.
LEMMA DiePc == ASSUME Die PROVE PcOK'
BY DEF Die, PcOK, ClientPc, WorkerPc, OwnerPc, Threads

-----------------------------------------------------------------------------
(* What the threads do to the data. *)

\* stdio and the file stay sequences of slots when stdio passes bytes on.
LEMMA DrainType ==
    ASSUME TypeOK, NEW s \in Seq(Slot), Drain(s)
    PROVE  disk' \in Seq(Slot) /\ stdio' \in Seq(Slot)
<1>1. PICK k \in 0..Len(s) : disk' = disk \o SubSeq(s, 1, k) /\ stdio' = SubSeq(s, k + 1, Len(s))
      BY DEF Drain
<1>2. SubSeq(s, 1, k) \in Seq(Slot) /\ SubSeq(s, k + 1, Len(s)) \in Seq(Slot)
      BY SubSeqType
<1> QED
    BY <1>1, <1>2 DEF TypeOK, DataOK

\* So they do when a FILE is closed, whatever fclose passes on,
LEMMA FCloseType ==
    ASSUME TypeOK, NEW rs, \E k \in Passed : FClose(k, rs)
    PROVE  disk' \in Seq(Slot) /\ stdio' \in Seq(Slot) /\ fate' \in [Rec -> Fates]
<1>1. stdio \in Seq(Slot) /\ disk \in Seq(Slot)
      BY DEF TypeOK, DataOK
<1>2. PICK k \in Passed : FClose(k, rs)
      OBVIOUS
<1>3. k \in 0..Len(stdio)
      BY <1>1 DEF Passed
<1>4. SubSeq(stdio, 1, k) \in Seq(Slot)
      BY <1>1, <1>3, SubSeqType
<1>5. disk \o SubSeq(stdio, 1, k) \in Seq(Slot) /\ << >> \in Seq(Slot)
      BY <1>1, <1>4
<1>6. fate' \in [Rec -> Fates]
      BY <1>2, MarkType DEF FClose, Fates
<1> QED
    BY <1>2, <1>5, <1>6 DEF FClose

\* and after a write, when the mode asks for it.
LEMMA CloseInType ==
    ASSUME TypeOK, NEW m, CloseIn(m)
    PROVE  /\ disk' \in Seq(Slot) /\ stdio' \in Seq(Slot) /\ logfile' \in BOOLEAN
           /\ fate' \in [Rec -> Fates]
BY FCloseType DEF CloseIn, CloseLogFile, TypeOK, DataOK, files

\* A step that moves threads and leaves the data alone.
LEMMA SameData == ASSUME DataOK, UNCHANGED allButPc PROVE DataOK'
BY DEF DataOK, allButPc, block0, bytes, locks, files, bounds, hist, marks

\* append, setmode, flush and flush_sync keep the types of the data.
LEMMA ClientDataStep ==
    ASSUME TypeOK, NEW t \in Clients,
           ClientCall(t) \/ AppendMode(t) \/ AppendNotify(t) \/ AppendWrite(t) \/ FlushSyncLock(t)
    PROVE  DataOK'
<1> USE DEF TypeOK, DataOK, Threads, block0, bytes, locks, files, bounds, hist, marks
<1>1. CASE AppendCall(t)
      BY <1>1 DEF AppendCall
<1>2. CASE SetMode(t)
      BY <1>2 DEF SetMode, SetModeEffect
<1>3. CASE Flush(t)
      BY <1>3, SameData DEF Flush
<1>4. CASE FlushSyncCall(t)
      BY <1>4, SameData DEF FlushSyncCall, Step
<1>5. CASE AppendMode(t)
      <2>1. rec[t] \in Rec
            BY <1>5 DEF AppendMode, PcOK
      <2>2. <<rec[t]>> \in Seq(Slot)
            BY <2>1 DEF Slot
      <2>3. tmp' \in [Threads -> Seq(Slot)]
            <3>1. tmp' = tmp \/ tmp' = [tmp EXCEPT ![t] = <<rec[t]>>]
                  BY <1>5 DEF AppendMode
            <3> HIDE DEF Threads
            <3> QED
                BY <2>2, <3>1
      <2>4. fate' \in [Rec -> Fates]
            BY <1>5, <2>1 DEF AppendMode, Fates
      <2> QED
          BY <1>5, <2>3, <2>4 DEF AppendMode
<1>6. CASE AppendNotify(t)
      BY <1>6 DEF AppendNotify
<1>7. CASE AppendWrite(t)
      <2>1. CASE ~buff
            BY <1>7, <2>1 DEF AppendWrite
      <2>2. CASE buff
            <3>1. rec[t] \in Rec
                  BY <1>7 DEF AppendWrite, PcOK
            <3> DEFINE c == IF NearlyFull THEN Overflow ELSE rec[t]
            <3>2. c \in Slot
                  BY <3>1 DEF Slot
            <3>3. SetBlock(Written(c)) /\ pos' = NewPos /\ len' = NewLen
                  BY <1>7, <2>2 DEF AppendWrite
            <3>4. /\ Written(c) \in Block
                  /\ NewPos \in 0..BlockLen /\ NewLen \in 0..BlockLen /\ NewPos <= NewLen
                  BY <3>2, WrittenType
            <3>5. mfile' \in Block /\ heap' \in Block
                  BY <3>3, <3>4, SetBlockType
            <3>6. fate' \in [Rec -> Fates]
                  BY <1>7, <2>2, <3>1 DEF AppendWrite, AppendFate, Fates
            <3> HIDE DEF c
            <3> QED
                BY <1>7, <2>2, <3>3, <3>4, <3>5, <3>6 DEF AppendWrite
      <2> QED
          BY <2>1, <2>2
<1>8. CASE FlushSyncLock(t)
      BY <1>8 DEF FlushSyncLock
<1> QED
    BY <1>1, <1>2, <1>3, <1>4, <1>5, <1>6, <1>7, <1>8 DEF ClientCall

\* The flush and the file write keep the types of the data.
LEMMA TaskDataStep ==
    ASSUME TypeOK, NEW t \in Threads,
           \/ TaskCheck(t) \/ TaskLock(t) \/ FlushCopy(t) \/ FlushClear(t)
           \/ NoLogDir(t) \/ FileLock(t) \/ FileWrite(t) \/ FileFailed(t) \/ FileDone(t)
    PROVE  DataOK'
<1> USE DEF TypeOK, DataOK, block0, bytes, locks, files, bounds, hist, marks
<1>1. CASE TaskCheck(t)
      BY <1>1, SameData DEF TaskCheck, Step
<1>2. CASE TaskLock(t)
      BY <1>2 DEF TaskLock
<1>3. CASE FlushCopy(t)
      BY <1>3, FlushedType DEF FlushCopy
<1>4. CASE FlushClear(t)
      BY <1>4, ClearBlockType DEF FlushClear
<1>5. CASE FileLock(t)
      <2>1. CASE UNCHANGED <<tmp, files, fate>>
            BY <1>5, <2>1 DEF FileLock
      <2>2. ASSUME NEW rs, \E k \in Passed : FClose(k, rs),
                   tmp' = tmp \/ tmp' = [tmp EXCEPT ![t] = << >>], logfile' \in BOOLEAN
            PROVE  DataOK'
            <3>1. disk' \in Seq(Slot) /\ stdio' \in Seq(Slot) /\ fate' \in [Rec -> Fates]
                  BY <2>2, FCloseType
            <3>2. tmp' = [tmp EXCEPT ![t] = << >>] => tmp' \in [Threads -> Seq(Slot)]
                  OBVIOUS
            <3> QED
                BY <1>5, <2>2, <3>1, <3>2 DEF FileLock
      <2> QED
          BY <1>5, <2>1, <2>2 DEF FileLock
<1>6. CASE FileWrite(t)
      <2>1. stdio \o tmp[t] \in Seq(Slot) /\ tmp[t] \in Seq(Slot)
            OBVIOUS
      <2>2. \A k \in 0..(Len(tmp[t]) - 1) : stdio \o SubSeq(tmp[t], 1, k) \in Seq(Slot)
            <3>1. ASSUME NEW k \in 0..(Len(tmp[t]) - 1) PROVE SubSeq(tmp[t], 1, k) \in Seq(Slot)
                  BY <2>1, SubSeqType
            <3> QED
                BY <3>1
      <2>3. disk' \in Seq(Slot) /\ stdio' \in Seq(Slot)
            <3>1. CASE Drain(stdio \o tmp[t])
                  BY <2>1, <3>1, DrainType
            <3>2. ASSUME NEW k \in 0..(Len(tmp[t]) - 1), Drain(stdio \o SubSeq(tmp[t], 1, k))
                  PROVE  disk' \in Seq(Slot) /\ stdio' \in Seq(Slot)
                  BY <2>2, <3>2, DrainType
            <3> QED
                BY <1>6, <3>1, <3>2 DEF FileWrite
      <2>4. fate' \in [Rec -> Fates]
            BY <1>6, MarkType DEF FileWrite, Fates
      <2>5. tmp' \in [Threads -> Seq(Slot)]
            BY <1>6 DEF FileWrite
      <2> QED
          BY <1>6, <2>3, <2>4, <2>5 DEF FileWrite
<1>7. CASE FileDone(t)
      <2>1. PICK m \in Modes : CloseIn(m)
            BY <1>7 DEF FileDone, Modes
      <2>2. /\ disk' \in Seq(Slot) /\ stdio' \in Seq(Slot)
            /\ logfile' \in BOOLEAN /\ fate' \in [Rec -> Fates]
            BY <2>1, CloseInType
      <2> QED
          BY <1>7, <2>2 DEF FileDone
<1>8. CASE FileFailed(t)
      <2>1. /\ disk' \in Seq(Slot) /\ stdio' \in Seq(Slot)
            /\ logfile' \in BOOLEAN /\ fate' \in [Rec -> Fates]
            BY <1>8, CloseInType DEF FileFailed
      <2> QED
          BY <1>8, <2>1 DEF FileFailed
<1>9. CASE NoLogDir(t)
      <2>1. fate' \in [Rec -> Fates]
            BY <1>9, MarkType DEF NoLogDir, Fates
      <2>2. tmp' \in [Threads -> Seq(Slot)]
            BY <1>9 DEF NoLogDir
      <2> QED
          BY <1>9, <2>1, <2>2 DEF NoLogDir
<1> QED
    BY <1>1, <1>2, <1>3, <1>4, <1>5, <1>6, <1>7, <1>8, <1>9

\* The loops of the two async operations change no data.
LEMMA WorkerDataStep ==
    ASSUME TypeOK, OwnCheck \/ OwnClosed \/ Scan \/ BeforeWait \/ Timeout
    PROVE  DataOK'
BY SameData DEF TypeOK, OwnCheck, OwnClosed, Scan, BeforeWait, Timeout, Step

\* open and close keep the types of the data.
LEMMA OwnerDataStep ==
    ASSUME TypeOK,
           \/ OpenCall \/ OpenCopy \/ OpenClear \/ OpenPublish \/ OpenSetMode
           \/ CloseCall \/ CloseNotify \/ CloseJoin \/ CloseFree \/ CloseLog
    PROVE  DataOK'
<1> USE DEF TypeOK, DataOK, Threads, block0, bytes, locks, files, bounds, hist, marks
<1>1. CASE OpenCall
      <2>1. heap' \in Block
            BY <1>1, BlankType, RecIsSlot DEF OpenCall, Block
      <2>2. pos' \in 0..BlockLen /\ len' \in 0..BlockLen /\ pos' <= len' /\ opens' \in 0..MaxOpens
            BY <1>1 DEF OpenCall, AttachedLen
      <2>3. mapped' \in BOOLEAN /\ buff' \in BOOLEAN
            BY <1>1 DEF OpenCall
      <2> QED
          BY <1>1, <2>1, <2>2, <2>3 DEF OpenCall
<1>2. CASE OpenCopy
      BY <1>2, FlushedType DEF OpenCopy
<1>3. CASE OpenClear
      BY <1>3, ClearBlockType, MarkType DEF OpenClear, Fates
<1>4. CASE OpenPublish
      BY <1>4 DEF OpenPublish
<1>5. CASE OpenSetMode
      BY <1>5 DEF OpenSetMode, SetModeEffect
<1>6. CASE CloseCall
      BY <1>6 DEF CloseCall
<1>7. CASE CloseNotify
      BY <1>7, SameData DEF CloseNotify
<1>8. CASE CloseJoin
      BY <1>8, SameData DEF CloseJoin, Step
<1>9. CASE CloseFree
      <2>1. mfile' \in Block /\ heap' \in Block
            BY <1>9, BlankType DEF CloseFree
      <2>2. pos' \in 0..BlockLen /\ len' \in 0..BlockLen /\ pos' <= len'
            BY <1>9 DEF CloseFree
      <2>3. buff' \in BOOLEAN /\ mapped' \in BOOLEAN
            BY <1>9 DEF CloseFree
      <2>4. fate' \in [Rec -> Fates]
            BY <1>9, MarkType DEF CloseFree, Fates
      <2> QED
          BY <1>9, <2>1, <2>2, <2>3, <2>4 DEF CloseFree
<1>10. CASE CloseLog
      BY <1>10, FCloseType DEF CloseLog, CloseLogFile
<1> QED
    BY <1>1, <1>2, <1>3, <1>4, <1>5, <1>6, <1>7, <1>8, <1>9, <1>10

\* The end of the process keeps the types of the data.
LEMMA DieData == ASSUME TypeOK, Die PROVE DataOK'
<1>1. fate' \in [Rec -> Fates]
      BY MarkType DEF Die, Fates
<1>2. /\ close' \in BOOLEAN /\ dir' \in BOOLEAN /\ mode' \in Modes
      /\ buff' \in BOOLEAN /\ mapped' \in BOOLEAN /\ logfile' \in BOOLEAN
      BY DEF Die, Modes
<1>3. pos' \in 0..BlockLen /\ len' \in 0..BlockLen /\ pos' <= len'
      BY DEF Die
<1>4. tmp' \in [Threads -> Seq(Slot)] /\ stdio' \in Seq(Slot)
      BY DEF Die
<1>5. mfile' \in Block /\ heap' \in Block
      BY BlankType DEF Die, TypeOK, DataOK
<1>6. bufLock' \in Threads \cup {NoThread} /\ fileLock' \in Threads \cup {NoThread}
      BY DEF Die
<1>7. /\ disk' \in Seq(Slot) /\ next' \in 1..(MaxAppends + 1) /\ opens' \in 0..MaxOpens
      /\ promised' \subseteq Rec /\ lapped' \in BOOLEAN
      BY DEF Die, TypeOK, DataOK, bounds
<1> QED
    BY <1>1, <1>2, <1>3, <1>4, <1>5, <1>6, <1>7 DEF DataOK

-----------------------------------------------------------------------------
\* TypeOK holds at first,
LEMMA TypeInit == Init => TypeOK
<1> SUFFICES ASSUME Init PROVE TypeOK
    OBVIOUS
<1>1. PcOK
      BY DEF Init, PcOK, ClientPc, WorkerPc, OwnerPc, Threads
<1>2. DataOK
      <2>1. /\ close \in BOOLEAN /\ dir \in BOOLEAN /\ mode \in Modes
            /\ buff \in BOOLEAN /\ mapped \in BOOLEAN /\ logfile \in BOOLEAN
            BY DEF Init, Modes
      <2>2. pos \in 0..BlockLen /\ len \in 0..BlockLen /\ pos <= len
            BY DEF Init
      <2>3. tmp \in [Threads -> Seq(Slot)] /\ stdio \in Seq(Slot) /\ disk \in Seq(Slot)
            BY DEF Init
      <2>4. PICK n \in LeftOver : /\ mfile = [i \in 1..BlockLen |-> IF i <= n THEN i ELSE Nul]
                                 /\ next = n + 1
                                 /\ fate = [r \in Rec |-> IF r <= n THEN "kept" ELSE "none"]
            BY DEF Init
      <2>5. bufLock \in Threads \cup {NoThread} /\ fileLock \in Threads \cup {NoThread}
            BY DEF Init
      <2>6. n \in Nat /\ n <= BlockLen /\ n <= MaxAppends
            OBVIOUS
      <2>7. mfile \in Block /\ heap \in Block
            <3>1. \A i \in 1..BlockLen : (IF i <= n THEN i ELSE Nul) \in Slot
                  <4> SUFFICES ASSUME NEW i \in 1..BlockLen
                               PROVE  (IF i <= n THEN i ELSE Nul) \in Slot
                      OBVIOUS
                  <4>1. i <= n => i \in Rec
                        BY <2>6 DEF Rec
                  <4> QED
                      BY <4>1 DEF Slot
            <3>2. [i \in 1..BlockLen |-> IF i <= n THEN i ELSE Nul] \in [1..BlockLen -> Slot]
                  BY <3>1
            <3> QED
                BY <2>4, <3>2, BlankType DEF Init, Block
      <2>8. fate \in [Rec -> Fates]
            BY <2>4 DEF Fates
      <2>9. next \in 1..(MaxAppends + 1)
            BY <2>4, <2>6
      <2>10. opens = 0 /\ promised = {} /\ lapped = FALSE
            BY DEF Init
      <2>11. opens \in 0..MaxOpens
            <3>1. MaxOpens \in Nat
                  OBVIOUS
            <3> QED
                BY <2>10, <3>1
      <2> QED
          BY <2>1, <2>2, <2>3, <2>5, <2>7, <2>8, <2>9, <2>10, <2>11 DEF DataOK
<1> QED
    BY <1>1, <1>2 DEF TypeOK

\* and every step keeps it.
LEMMA TypeStep == TypeOK /\ [Next]_vars => TypeOK'
<1> SUFFICES ASSUME TypeOK, [Next]_vars PROVE TypeOK'
    OBVIOUS
<1>1. CASE UNCHANGED vars
      <2>1. DataOK'
            BY <1>1, SameData DEF vars, TypeOK
      <2> QED
          BY <1>1, <2>1 DEF vars, allButPc, TypeOK, PcOK
<1>2. ASSUME NEW t \in Clients, ClientCall(t) PROVE TypeOK'
      BY <1>2, ClientPcStep, ClientDataStep DEF TypeOK
<1>3. CASE OpenCall \/ CloseCall
      BY <1>3, OwnerPcStep, OwnerDataStep DEF TypeOK
<1>4. ASSUME NEW t \in Threads, Move(t) \/ Acquire(t) PROVE TypeOK'
      <2>1. CASE /\ t \in Clients
                 /\ AppendMode(t) \/ AppendNotify(t) \/ AppendWrite(t) \/ FlushSyncLock(t)
            BY <2>1, ClientPcStep, ClientDataStep DEF TypeOK
      <2>2. CASE \/ TaskCheck(t) \/ TaskLock(t) \/ FlushCopy(t) \/ FlushClear(t)
                 \/ NoLogDir(t) \/ FileLock(t) \/ FileWrite(t) \/ FileFailed(t) \/ FileDone(t)
            BY <2>2, TaskPcStep, TaskDataStep DEF TypeOK
      <2>3. CASE OwnCheck \/ OwnClosed \/ Scan \/ BeforeWait \/ Timeout
            BY <2>3, WorkerPcStep, WorkerDataStep DEF TypeOK
      <2>4. CASE \/ OpenCopy \/ OpenClear \/ OpenPublish \/ OpenSetMode
                 \/ CloseNotify \/ CloseJoin \/ CloseFree \/ CloseLog
            BY <2>4, OwnerPcStep, OwnerDataStep DEF TypeOK
      <2>5. CASE NullFlush(t)
            BY <2>5, DiePc, DieData DEF NullFlush, TypeOK
      <2> QED
          BY <1>4, <2>1, <2>2, <2>3, <2>4, <2>5 DEF Move, Acquire
<1>5. CASE Crash
      BY <1>5, DiePc, DieData DEF Crash, TypeOK
<1> QED
    BY <1>1, <1>2, <1>3, <1>4, <1>5 DEF Next

\* The types of Appender.tla hold in every state: in particular every write
\* through PtrBuffer stays inside the block, whatever the threads interleave.
THEOREM TypeInvariant == Spec => []TypeOK
<1>1. Init => TypeOK
      BY TypeInit
<1>2. TypeOK /\ [Next]_vars => TypeOK'
      BY TypeStep
<1> QED
    BY <1>1, <1>2, PTL DEF Spec

-----------------------------------------------------------------------------
(* Flush and the end of the buffer. NoNullFlush is not inductive: it holds     *)
(* because a flusher that looked at sg_log_buff under the mutex keeps close    *)
(* out until it is done, and because close frees the buffer only after the own *)
(* thread, which looks before it takes the mutex, is gone.                     *)

\* The mutex is held where the code reads and writes the block.
BufHeld == \A t \in Threads : pc[t] \in {"AppendNotify", "FlushCopy", "FlushClear"} => bufLock = t

\* The owner of an appender with an own thread never runs the task itself, and is
\* in __log2file only on behalf of open.
OwnerPlaces ==
    /\ pc[Owner] \notin {"TaskCheck", "TaskLock", "FlushCopy", "FlushClear"}
    /\ pc[Owner] \in {"OpenSetMode", "FileLock", "FileWrite", "FileDone", "FileFailed", "FileAgain"}
       => ~close

\* close has joined the worker before it frees the buffer.
Joined == pc[Owner] = "CloseFree" => pc[Worker] = "exited"

\* The own thread between its NULL check and its flush.
CheckedBuffer == pc[Worker] = "TaskLock" => buff

FlushInv == TypeOK /\ BufHeld /\ OwnerPlaces /\ Joined /\ CheckedBuffer /\ NoNullFlush

OwnKind == ~UseShareThread /\ "setmode" \notin ClientOps

\* What clients do keeps the invariant about the buffer and who may flush it.
LEMMA ClientFlushStep ==
    ASSUME OwnKind, FlushInv, NEW t \in Clients,
           \/ AppendCall(t) \/ SetMode(t) \/ Flush(t) \/ FlushSyncCall(t)
           \/ AppendMode(t) \/ AppendNotify(t) \/ AppendWrite(t) \/ FlushSyncLock(t)
    PROVE  BufHeld' /\ OwnerPlaces' /\ Joined' /\ CheckedBuffer' /\ NoNullFlush'
<1> USE DEF FlushInv, BufHeld, OwnerPlaces, Joined, CheckedBuffer, NoNullFlush, TypeOK, PcOK,
            Threads, Goto, OwnKind, block0, locks, allButPc
<1>1. CASE AppendCall(t) BY <1>1 DEF AppendCall
<1>2. CASE SetMode(t) BY <1>2 DEF SetMode
<1>3. CASE Flush(t) BY <1>3 DEF Flush, WakeAndGoto, Notified, LoopTop
<1>4. CASE FlushSyncCall(t) BY <1>4 DEF FlushSyncCall, Step
<1>5. CASE AppendMode(t) BY <1>5 DEF AppendMode
<1>6. CASE AppendNotify(t)
      BY <1>6 DEF AppendNotify, WakeAndGoto, Notified, LoopTop
<1>7. CASE AppendWrite(t) BY <1>7 DEF AppendWrite, Free
<1>8. CASE FlushSyncLock(t) BY <1>8 DEF FlushSyncLock, Free
<1> QED
    BY <1>1, <1>2, <1>3, <1>4, <1>5, <1>6, <1>7, <1>8

\* So does a flush and a file write,
LEMMA TaskFlushStep ==
    ASSUME OwnKind, FlushInv, NEW t \in Threads,
           \/ TaskCheck(t) \/ TaskLock(t) \/ FlushCopy(t) \/ FlushClear(t)
           \/ NoLogDir(t) \/ FileLock(t) \/ FileWrite(t) \/ FileFailed(t) \/ FileDone(t)
    PROVE  BufHeld' /\ OwnerPlaces' /\ Joined' /\ CheckedBuffer' /\ NoNullFlush'
<1> USE DEF FlushInv, BufHeld, OwnerPlaces, Joined, CheckedBuffer, NoNullFlush, TypeOK, PcOK,
            Threads, Goto, OwnKind, block0, locks, allButPc, After
<1>1. CASE TaskCheck(t) BY <1>1 DEF TaskCheck, Step, ClientPc, TaskPc
<1>2. CASE TaskLock(t) BY <1>2 DEF TaskLock, Free, ClientPc, TaskPc
<1>3. CASE FlushCopy(t) BY <1>3 DEF FlushCopy
<1>4. CASE FlushClear(t) BY <1>4 DEF FlushClear
<1>5. CASE FileLock(t) BY <1>5 DEF FileLock
<1>6. CASE FileWrite(t) BY <1>6 DEF FileWrite
<1>7. CASE FileDone(t) BY <1>7 DEF FileDone
<1>8. CASE FileFailed(t) BY <1>8 DEF FileFailed
<1>9. CASE NoLogDir(t) BY <1>9 DEF NoLogDir
<1> QED
    BY <1>1, <1>2, <1>3, <1>4, <1>5, <1>6, <1>7, <1>8, <1>9

\* the loop of the own thread,
LEMMA WorkerFlushStep ==
    ASSUME OwnKind, FlushInv, OwnCheck \/ OwnClosed \/ Scan \/ BeforeWait \/ Timeout
    PROVE  BufHeld' /\ OwnerPlaces' /\ Joined' /\ CheckedBuffer' /\ NoNullFlush'
<1> USE DEF FlushInv, BufHeld, OwnerPlaces, Joined, CheckedBuffer, NoNullFlush, TypeOK, PcOK,
            Threads, Goto, Step, OwnKind, block0, locks, allButPc
<1>1. CASE OwnCheck BY <1>1 DEF OwnCheck
<1>2. CASE OwnClosed BY <1>2 DEF OwnClosed
<1>3. CASE Scan BY <1>3 DEF Scan
<1>4. CASE BeforeWait BY <1>4 DEF BeforeWait
<1>5. CASE Timeout BY <1>5 DEF Timeout, LoopTop
<1> QED
    BY <1>1, <1>2, <1>3, <1>4, <1>5

\* open and close,
LEMMA OwnerFlushStep ==
    ASSUME OwnKind, FlushInv,
           \/ OpenCall \/ OpenCopy \/ OpenClear \/ OpenPublish \/ OpenSetMode
           \/ CloseCall \/ CloseNotify \/ CloseJoin \/ CloseFree \/ CloseLog
    PROVE  BufHeld' /\ OwnerPlaces' /\ Joined' /\ CheckedBuffer' /\ NoNullFlush'
<1> USE DEF FlushInv, BufHeld, OwnerPlaces, Joined, CheckedBuffer, NoNullFlush, TypeOK, PcOK,
            Threads, Goto, OwnKind, block0, locks, allButPc
<1>1. CASE OpenCall BY <1>1 DEF OpenCall
<1>2. CASE OpenCopy BY <1>2 DEF OpenCopy
<1>3. CASE OpenClear BY <1>3 DEF OpenClear
<1>4. CASE OpenPublish BY <1>4 DEF OpenPublish
<1>5. CASE OpenSetMode
      BY <1>5 DEF OpenSetMode, SetModeEffect, WakeAndGoto, Started, Notified, LoopTop
<1>6. CASE CloseCall BY <1>6 DEF CloseCall
<1>7. CASE CloseNotify
      BY <1>7 DEF CloseNotify, WakeAndGoto, Notified, LoopTop, Drainer, Running
<1>8. CASE CloseJoin BY <1>8 DEF CloseJoin, Step, Running
<1>9. CASE CloseFree BY <1>9 DEF CloseFree, Free
<1>10. CASE CloseLog BY <1>10 DEF CloseLog
<1> QED
    BY <1>1, <1>2, <1>3, <1>4, <1>5, <1>6, <1>7, <1>8, <1>9, <1>10

\* the end of the process,
LEMMA DieFlush ==
    ASSUME Die PROVE BufHeld' /\ OwnerPlaces' /\ Joined' /\ CheckedBuffer' /\ NoNullFlush'
BY DEF Die, BufHeld, OwnerPlaces, Joined, CheckedBuffer, NoNullFlush, Threads

\* and so every step.
LEMMA FlushStep == OwnKind /\ FlushInv /\ [Next]_vars => FlushInv'
<1> SUFFICES ASSUME OwnKind, FlushInv, [Next]_vars PROVE FlushInv'
    OBVIOUS
<1> DEFINE P == BufHeld' /\ OwnerPlaces' /\ Joined' /\ CheckedBuffer' /\ NoNullFlush'
<1>1. TypeOK'
      BY TypeStep DEF FlushInv
<1>2. CASE UNCHANGED vars
      <2>1. P
            BY <1>2 DEF FlushInv, BufHeld, OwnerPlaces, Joined, CheckedBuffer, NoNullFlush, vars,
                        allButPc, block0, locks
      <2> QED
          BY <1>1, <2>1 DEF FlushInv
<1>3. ASSUME NEW t \in Clients, ClientCall(t) PROVE P
      BY <1>3, ClientFlushStep DEF ClientCall
<1>4. ASSUME OpenCall \/ CloseCall PROVE P
      BY <1>4, OwnerFlushStep
<1>5. ASSUME NEW t \in Threads, Move(t) \/ Acquire(t) PROVE P
      <2>1. CASE /\ t \in Clients
                 /\ AppendMode(t) \/ AppendNotify(t) \/ AppendWrite(t) \/ FlushSyncLock(t)
            BY <2>1, ClientFlushStep
      <2>2. CASE \/ TaskCheck(t) \/ TaskLock(t) \/ FlushCopy(t) \/ FlushClear(t)
                 \/ NoLogDir(t) \/ FileLock(t) \/ FileWrite(t) \/ FileFailed(t) \/ FileDone(t)
            BY <2>2, TaskFlushStep
      <2>3. CASE OwnCheck \/ OwnClosed \/ Scan \/ BeforeWait \/ Timeout
            BY <2>3, WorkerFlushStep
      <2>4. CASE \/ OpenCopy \/ OpenClear \/ OpenPublish \/ OpenSetMode
                 \/ CloseNotify \/ CloseJoin \/ CloseFree \/ CloseLog
            BY <2>4, OwnerFlushStep
      <2>5. CASE NullFlush(t)
            BY <2>5, DieFlush DEF NullFlush
      <2> QED
          BY <1>5, <2>1, <2>2, <2>3, <2>4, <2>5 DEF Move, Acquire
<1>6. ASSUME Crash PROVE P
      BY <1>6, DieFlush DEF Crash
<1>7. CASE Next
      <2>1. P
            BY <1>3, <1>4, <1>5, <1>6, <1>7 DEF Next
      <2> QED
          BY <1>1, <2>1 DEF FlushInv
<1> QED
    BY <1>2, <1>7

\* On an appender with its own thread whose clients leave the mode alone, Flush is
\* never called through a NULL sg_log_buff, however append, flush, flush_sync,
\* close and reopen interleave: close joins the thread before it frees the
\* buffer. (A client's setmode can start the thread again behind the join.)
THEOREM OwnThreadNeverFlushesNull == OwnKind => (Spec => []NoNullFlush)
<1> SUFFICES ASSUME OwnKind PROVE Spec => []NoNullFlush
    OBVIOUS
<1>1. Init => FlushInv
      BY TypeInit DEF Init, FlushInv, BufHeld, OwnerPlaces, Joined, CheckedBuffer, NoNullFlush,
                      Threads
<1>2. FlushInv /\ [Next]_vars => FlushInv'
      BY FlushStep
<1>3. FlushInv => NoNullFlush
      BY DEF FlushInv
<1> QED
    BY <1>1, <1>2, <1>3, PTL DEF Spec

-----------------------------------------------------------------------------
(* The log file. *)

\* Every open asks for async, and no client changes that.
AlwaysAsync == OpenModes \subseteq {"async"} /\ "setmode" \notin ClientOps

\* NoFileLeftOpen speaks of an appender at rest. In between, the log file is open
\* only where a thread is about to write and close it.
AboutToClose == {"FileWrite", "FileDone", "FileFailed"}
OpenInUse == logfile => \E t \in Threads : pc[t] \in AboutToClose

FileInv == TypeOK /\ mode = "async" /\ OpenInUse

\* A step that does not open the file, and takes no thread from that place, keeps this.
LEMMA InUseStays ==
    ASSUME OpenInUse, logfile' => logfile,
           \A t \in Threads : pc[t] \in AboutToClose => pc'[t] \in AboutToClose
    PROVE  OpenInUse'
BY DEF OpenInUse, Threads

\* So do the calls of a client up to the file lock,
LEMMA ClientFileStep ==
    ASSUME AlwaysAsync, FileInv, NEW t \in Clients,
           \/ AppendCall(t) \/ SetMode(t) \/ Flush(t) \/ FlushSyncCall(t)
           \/ AppendMode(t) \/ AppendNotify(t) \/ AppendWrite(t) \/ FlushSyncLock(t)
    PROVE  mode' = "async" /\ OpenInUse'
<1> USE DEF FileInv, AlwaysAsync, AboutToClose, TypeOK, PcOK, Threads, Goto, allButPc, files
<1>1. /\ mode' = mode /\ logfile' = logfile
      /\ \A u \in Threads : pc[u] \in AboutToClose => pc'[u] \in AboutToClose
      <2>1. CASE AppendCall(t) BY <2>1 DEF AppendCall
      <2>2. CASE SetMode(t) BY <2>2 DEF SetMode
      <2>3. CASE Flush(t) BY <2>3 DEF Flush, WakeAndGoto, Notified
      <2>4. CASE FlushSyncCall(t) BY <2>4 DEF FlushSyncCall, Step
      <2>5. CASE AppendMode(t) BY <2>5 DEF AppendMode
      <2>6. CASE AppendNotify(t)
            BY <2>6 DEF AppendNotify, WakeAndGoto, Notified, Running
      <2>7. CASE AppendWrite(t) BY <2>7 DEF AppendWrite
      <2>8. CASE FlushSyncLock(t) BY <2>8 DEF FlushSyncLock
      <2> QED
          BY <2>1, <2>2, <2>3, <2>4, <2>5, <2>6, <2>7, <2>8
<1> QED
    BY <1>1, InUseStays

\* the flushes, and the write: the thread that opens the file closes it,
LEMMA TaskFileStep ==
    ASSUME FileInv, NEW t \in Threads,
           \/ TaskCheck(t) \/ TaskLock(t) \/ FlushCopy(t) \/ FlushClear(t)
           \/ NoLogDir(t) \/ FileLock(t) \/ FileWrite(t) \/ FileFailed(t) \/ FileDone(t)
    PROVE  mode' = "async" /\ OpenInUse'
<1> USE DEF FileInv, AboutToClose, TypeOK, PcOK, Threads, Goto, allButPc, files
<1>1. CASE TaskCheck(t) \/ TaskLock(t) \/ FlushCopy(t) \/ FlushClear(t) \/ NoLogDir(t)
      <2>1. /\ mode' = mode /\ logfile' = logfile
            /\ \A u \in Threads : pc[u] \in AboutToClose => pc'[u] \in AboutToClose
            BY <1>1 DEF TaskCheck, TaskLock, FlushCopy, FlushClear, NoLogDir, Step
      <2> QED
          BY <2>1, InUseStays
<1>2. CASE FileLock(t)
      <2>1. mode' = mode /\ (Goto(t, "FileWrite") \/ logfile' = FALSE)
            BY <1>2 DEF FileLock
      <2> QED
          BY <2>1 DEF OpenInUse
<1>3. CASE FileWrite(t)
      <2>1. mode' = mode /\ logfile' = logfile
            BY <1>3 DEF FileWrite
      <2>2. \A u \in Threads : pc[u] \in AboutToClose => pc'[u] \in AboutToClose
            BY <1>3 DEF FileWrite
      <2> QED
          BY <2>1, <2>2, InUseStays
<1>4. CASE FileFailed(t)
      BY <1>4 DEF FileFailed, CloseIn, CloseLogFile, OpenInUse
<1>5. CASE FileDone(t) /\ pc[t] = "FileDone"
      BY <1>5 DEF FileDone, CloseIn, CloseLogFile, OpenInUse
<1>6. CASE FileDone(t) /\ pc[t] = "FileAgain"
      <2>1. mode' = mode /\ logfile' = logfile
            BY <1>6 DEF FileDone, CloseIn
      <2>2. \A u \in Threads : pc[u] \in AboutToClose => pc'[u] \in AboutToClose
            BY <1>6 DEF FileDone
      <2> QED
          BY <2>1, <2>2, InUseStays
<1>7. FileDone(t) => pc[t] \in {"FileDone", "FileAgain"}
      BY DEF FileDone
<1> QED
    BY <1>1, <1>2, <1>3, <1>4, <1>5, <1>6, <1>7

\* the loop of the thread, and
LEMMA WorkerFileStep ==
    ASSUME FileInv, OwnCheck \/ OwnClosed \/ Scan \/ BeforeWait \/ Timeout
    PROVE  mode' = "async" /\ OpenInUse'
<1> USE DEF FileInv, AboutToClose, TypeOK, PcOK, Threads, Goto, Step, allButPc, files
<1>1. /\ mode' = mode /\ logfile' = logfile
      /\ \A u \in Threads : pc[u] \in AboutToClose => pc'[u] \in AboutToClose
      BY DEF OwnCheck, OwnClosed, Scan, BeforeWait, Timeout
<1> QED
    BY <1>1, InUseStays

\* open and close.
LEMMA OwnerFileStep ==
    ASSUME AlwaysAsync, FileInv,
           \/ OpenCall \/ OpenCopy \/ OpenClear \/ OpenPublish \/ OpenSetMode
           \/ CloseCall \/ CloseNotify \/ CloseJoin \/ CloseFree \/ CloseLog
    PROVE  mode' = "async" /\ OpenInUse'
<1> USE DEF FileInv, AlwaysAsync, AboutToClose, TypeOK, PcOK, Threads, Goto, allButPc, files
<1>1. CASE CloseLog
      BY <1>1 DEF CloseLog, CloseLogFile, OpenInUse
<1>2. CASE \/ OpenCall \/ OpenCopy \/ OpenClear \/ OpenPublish \/ OpenSetMode
           \/ CloseCall \/ CloseNotify \/ CloseJoin \/ CloseFree
      <2>1. /\ mode' = "async" /\ logfile' = logfile
            /\ \A u \in Threads : pc[u] \in AboutToClose => pc'[u] \in AboutToClose
            <3>1. CASE OpenCall BY <3>1 DEF OpenCall
            <3>2. CASE OpenCopy BY <3>2 DEF OpenCopy
            <3>3. CASE OpenClear BY <3>3 DEF OpenClear
            <3>4. CASE OpenPublish BY <3>4 DEF OpenPublish
            <3>5. CASE OpenSetMode
                  BY <3>5 DEF OpenSetMode, SetModeEffect, WakeAndGoto, Started, Notified, Running
            <3>6. CASE CloseCall BY <3>6 DEF CloseCall
            <3>7. CASE CloseNotify BY <3>7 DEF CloseNotify, WakeAndGoto, Notified
            <3>8. CASE CloseJoin BY <3>8 DEF CloseJoin, Step
            <3>9. CASE CloseFree BY <3>9 DEF CloseFree
            <3> QED
                BY <1>2, <3>1, <3>2, <3>3, <3>4, <3>5, <3>6, <3>7, <3>8, <3>9
      <2> QED
          BY <2>1, InUseStays
<1> QED
    BY <1>1, <1>2

\* And so does every step.
LEMMA NoFileStep == AlwaysAsync /\ FileInv /\ [Next]_vars => FileInv'
<1> SUFFICES ASSUME AlwaysAsync, FileInv, [Next]_vars PROVE mode' = "async" /\ OpenInUse'
    BY TypeStep DEF FileInv
<1> DEFINE P == mode' = "async" /\ OpenInUse'
<1>1. ASSUME Die PROVE P
      BY <1>1 DEF Die, OpenInUse
<1>2. CASE UNCHANGED vars
      BY <1>2 DEF FileInv, OpenInUse, vars, allButPc, files
<1>3. ASSUME NEW t \in Clients, ClientCall(t) PROVE P
      BY <1>3, ClientFileStep DEF ClientCall
<1>4. ASSUME OpenCall \/ CloseCall PROVE P
      BY <1>4, OwnerFileStep
<1>5. ASSUME NEW t \in Threads, Move(t) \/ Acquire(t) PROVE P
      <2>1. CASE /\ t \in Clients
                 /\ AppendMode(t) \/ AppendNotify(t) \/ AppendWrite(t) \/ FlushSyncLock(t)
            BY <2>1, ClientFileStep
      <2>2. CASE \/ TaskCheck(t) \/ TaskLock(t) \/ FlushCopy(t) \/ FlushClear(t)
                 \/ NoLogDir(t) \/ FileLock(t) \/ FileWrite(t) \/ FileFailed(t) \/ FileDone(t)
            BY <2>2, TaskFileStep
      <2>3. CASE OwnCheck \/ OwnClosed \/ Scan \/ BeforeWait \/ Timeout
            BY <2>3, WorkerFileStep
      <2>4. CASE \/ OpenCopy \/ OpenClear \/ OpenPublish \/ OpenSetMode
                 \/ CloseNotify \/ CloseJoin \/ CloseFree \/ CloseLog
            BY <2>4, OwnerFileStep
      <2>5. CASE NullFlush(t)
            BY <1>1, <2>5 DEF NullFlush
      <2> QED
          BY <1>5, <2>1, <2>2, <2>3, <2>4, <2>5 DEF Move, Acquire
<1>6. ASSUME Crash PROVE P
      BY <1>1, <1>6 DEF Crash
<1> QED
    BY <1>2, <1>3, <1>4, <1>5, <1>6 DEF Next

\* An appender that is only ever opened in async mode keeps no log file open when it is
\* closed and nobody is inside, with any number of clients and either kind of thread, and
\* though a flush that began before close may write after the __closelogfile of close.
THEOREM ClosedLeavesNoFile == AlwaysAsync => (Spec => []NoFileLeftOpen)
<1> SUFFICES ASSUME AlwaysAsync PROVE Spec => []NoFileLeftOpen
    OBVIOUS
<1>1. Init => FileInv
      BY TypeInit DEF Init, FileInv, OpenInUse
<1>2. FileInv /\ [Next]_vars => FileInv'
      BY NoFileStep
<1>3. FileInv => NoFileLeftOpen
      BY DEF FileInv, OpenInUse, NoFileLeftOpen, AboutToClose
<1> QED
    BY <1>1, <1>2, <1>3, PTL DEF Spec
=============================================================================
