------------------------ MODULE AppenderRecordProofs ------------------------
(* No record vanishes: Accounted of Appender.tla, for every set of clients,   *)
(* block length and bound, with crashes and failures.                         *)
EXTENDS AppenderProofs, SequenceTheorems

USE AppenderAssumption

-----------------------------------------------------------------------------
(* The records in a row of bytes. *)

\* A row of nothing has no record,
LEMMA InNone == In(<< >>) = {}
BY DEF In

\* a single record is in its row,
LEMMA InOne == ASSUME NEW r \in Rec PROVE In(<<r>>) = {r}
<1>1. DOMAIN <<r>> = {1} /\ <<r>>[1] = r
      OBVIOUS
<1> QED
    BY <1>1 DEF In

\* and two rows together have the records of either.
LEMMA InJoined == ASSUME NEW s \in Seq(Slot), NEW u \in Seq(Slot)
    PROVE In(s \o u) = In(s) \cup In(u)
<1> DEFINE su == s \o u
<1>1. /\ su \in Seq(Slot) /\ Len(su) = Len(s) + Len(u)
      /\ \A i \in 1..Len(s) : su[i] = s[i]
      /\ \A i \in 1..Len(u) : su[Len(s) + i] = u[i]
      OBVIOUS
<1>2. DOMAIN su = 1..Len(su) /\ DOMAIN s = 1..Len(s) /\ DOMAIN u = 1..Len(u)
      BY <1>1
<1>3. Len(s) \in Nat /\ Len(u) \in Nat
      OBVIOUS
<1> HIDE DEF su
<1>4. ASSUME NEW r \in In(s) \cup In(u) PROVE r \in In(su)
      <2>1. CASE r \in In(s)
            <3>1. PICK i \in 1..Len(s) : s[i] = r
                  BY <2>1, <1>2 DEF In
            <3>2. i \in 1..Len(su) /\ su[i] = r
                  BY <3>1, <1>1, <1>3
            <3> QED
                BY <3>2, <2>1, <1>2 DEF In
      <2>2. CASE r \in In(u)
            <3>1. PICK i \in 1..Len(u) : u[i] = r
                  BY <2>2, <1>2 DEF In
            <3>2. Len(s) + i \in 1..Len(su) /\ su[Len(s) + i] = r
                  BY <3>1, <1>1, <1>3
            <3> QED
                BY <3>2, <2>2, <1>2 DEF In
      <2> QED
          BY <1>4, <2>1, <2>2
<1>5. ASSUME NEW r \in In(su) PROVE r \in In(s) \cup In(u)
      <2>1. PICK k \in 1..Len(su) : su[k] = r
            BY <1>5, <1>2 DEF In
      <2>2. CASE k <= Len(s)
            BY <2>1, <2>2, <1>1, <1>2, <1>3, <1>5 DEF In
      <2>3. CASE k > Len(s)
            <3>1. k - Len(s) \in 1..Len(u) /\ su[Len(s) + (k - Len(s))] = su[k]
                  BY <2>1, <2>3, <1>1, <1>3
            <3>2. u[k - Len(s)] = r
                  BY <3>1, <2>1, <1>1
            <3> QED
                BY <3>1, <3>2, <1>2, <1>5 DEF In
      <2> QED
          BY <2>1, <2>2, <2>3, <1>1, <1>3
<1> QED
    BY <1>4, <1>5 DEF su

\* A row that is cut in two is the two halves together,
LEMMA CutJoined ==
    ASSUME NEW s \in Seq(Slot), NEW k \in 0..Len(s)
    PROVE  /\ SubSeq(s, 1, k) \in Seq(Slot) /\ SubSeq(s, k + 1, Len(s)) \in Seq(Slot)
           /\ SubSeq(s, 1, k) \o SubSeq(s, k + 1, Len(s)) = s
<1>1. SubSeq(s, 1, k) \in Seq(Slot) /\ SubSeq(s, k + 1, Len(s)) \in Seq(Slot)
      BY SubSeqType
<1>2. 1 \in 1..(Len(s) + 1) /\ k \in (1 - 1)..Len(s) /\ Len(s) \in k..Len(s)
      OBVIOUS
<1>3. SubSeq(s, 1, k) \o SubSeq(s, k + 1, Len(s)) = s
      BY <1>2, ConcatAdjacentSubSeq, SubSeqFull
<1> QED
    BY <1>1, <1>3

\* and has the records of both.
LEMMA InCut ==
    ASSUME NEW s \in Seq(Slot), NEW k \in 0..Len(s)
    PROVE  In(s) = In(SubSeq(s, 1, k)) \cup In(SubSeq(s, k + 1, Len(s)))
BY CutJoined, InJoined

\* What Flush hands over of a block has the records of the block up to length_.
LEMMA InBlock ==
    ASSUME NEW b \in Block, NEW n \in 0..BlockLen
    PROVE  In(IF n = 0 \/ b[1] = Nul THEN << >> ELSE SubSeq(b, 1, n))
               = IF b[1] = Nul THEN {} ELSE {b[i] : i \in 1..n} \cap Rec
<1>1. CASE n = 0 \/ b[1] = Nul
      <2>1. n = 0 => 1..n = {}
            OBVIOUS
      <2>2. 1..n = {} => {b[i] : i \in 1..n} = {}
            OBVIOUS
      <2> QED
          BY <1>1, <2>1, <2>2, InNone
<1>2. CASE ~(n = 0 \/ b[1] = Nul)
      <2>1. b \in Seq(Slot) /\ Len(b) = BlockLen
            BY BlockIsSeq
      <2> DEFINE s == SubSeq(b, 1, n)
      <2>2. DOMAIN s = 1..n /\ \A i \in 1..n : s[i] = b[i]
            BY <1>2, <2>1
      <2>3. In(s) = {b[i] : i \in 1..n} \cap Rec
            <3> HIDE DEF s
            <3> QED
                BY <2>2 DEF In
      <2> QED
          BY <1>2, <2>3
<1> QED
    BY <1>1, <1>2

\* So the records of the block are those up to length_, if the first byte is not NUL,
LEMMA LiveIs ==
    ASSUME TypeOK
    PROVE  Live = IF buff /\ block[1] # Nul THEN {block[i] : i \in 1..len} \cap Rec ELSE {}
<1>1. block \in Block /\ len \in 0..BlockLen
      BY DEF TypeOK, DataOK, block
<1>2. In(Flushed) = IF block[1] = Nul THEN {} ELSE {block[i] : i \in 1..len} \cap Rec
      BY <1>1, InBlock DEF Flushed
<1> QED
    BY <1>2 DEF Live

\* before and after a step.
LEMMA LiveIsNext ==
    ASSUME TypeOK'
    PROVE  Live' = IF buff' /\ block'[1] # Nul THEN {block'[i] : i \in 1..len'} \cap Rec ELSE {}
<1>1. block' \in Block /\ len' \in 0..BlockLen
      BY DEF TypeOK, DataOK, block
<1>2. In(Flushed)' = IF block'[1] = Nul THEN {} ELSE {block'[i] : i \in 1..len'} \cap Rec
      BY <1>1, InBlock DEF Flushed
<1> QED
    BY <1>2 DEF Live

\* A thread takes bytes up or lets go of them; the others keep theirs.
LEMMA HeldIs ==
    ASSUME TypeOK, NEW t \in Threads, NEW s \in Seq(Slot), tmp' = [tmp EXCEPT ![t] = s]
    PROVE  Held' = In(s) \cup UNION {In(tmp[u]) : u \in Threads \ {t}}
<1>1. tmp'[t] = s /\ \A u \in Threads \ {t} : tmp'[u] = tmp[u]
      BY DEF TypeOK, DataOK
<1>2. Held' = UNION {In(tmp'[u]) : u \in Threads}
      BY DEF Held, In
<1>3. UNION {In(tmp'[u]) : u \in Threads}
        = In(tmp'[t]) \cup UNION {In(tmp'[u]) : u \in Threads \ {t}}
      OBVIOUS
<1> QED
    BY <1>1, <1>2, <1>3

\* What a thread that carried nothing takes up is added to what is held.
LEMMA HeldMore ==
    ASSUME TypeOK, NEW t \in Threads, NEW s \in Seq(Slot), tmp' = [tmp EXCEPT ![t] = s],
           tmp[t] = << >>
    PROVE  Held' = Held \cup In(s)
<1>1. Held = In(tmp[t]) \cup UNION {In(tmp[u]) : u \in Threads \ {t}}
      BY DEF Held
<1> QED
    BY <1>1, HeldIs, InNone

\* What a thread lets go of is all that can be missing afterwards.
LEMMA HeldLess ==
    ASSUME TypeOK, NEW t \in Threads, tmp' = [tmp EXCEPT ![t] = << >>]
    PROVE  Held \subseteq Held' \cup In(tmp[t]) /\ Held' \subseteq Held
<1>1. Held = In(tmp[t]) \cup UNION {In(tmp[u]) : u \in Threads \ {t}}
      BY DEF Held
<1>2. << >> \in Seq(Slot)
      OBVIOUS
<1> QED
    BY <1>1, <1>2, HeldIs, InNone

\* stdio and the file together keep what passes from the one to the other.
LEMMA DrainOnFile ==
    ASSUME TypeOK, NEW s \in Seq(Slot), Drain(s)
    PROVE  OnFile' = In(s) \cup In(disk)
<1>1. PICK k \in 0..Len(s) : disk' = disk \o SubSeq(s, 1, k) /\ stdio' = SubSeq(s, k + 1, Len(s))
      BY DEF Drain
<1>2. SubSeq(s, 1, k) \in Seq(Slot) /\ disk \in Seq(Slot)
      BY SubSeqType DEF TypeOK, DataOK
<1>3. In(disk') = In(disk) \cup In(SubSeq(s, 1, k))
      BY <1>1, <1>2, InJoined
<1>4. OnFile' = In(stdio') \cup In(disk')
      BY DEF OnFile, In
<1> QED
    BY <1>1, <1>3, <1>4, InCut

-----------------------------------------------------------------------------
(* The steps, by who takes them. *)

ClientStep(t) ==
    \/ AppendCall(t) \/ SetMode(t) \/ Flush(t) \/ FlushSyncCall(t)
    \/ AppendMode(t) \/ AppendNotify(t) \/ AppendWrite(t) \/ FlushSyncLock(t)

TaskStep(t) ==
    \/ TaskCheck(t) \/ TaskLock(t) \/ FlushCopy(t) \/ FlushClear(t)
    \/ NoLogDir(t) \/ FileLock(t) \/ FileWrite(t) \/ FileFailed(t) \/ FileDone(t)

WorkerStep == OwnCheck \/ OwnClosed \/ Scan \/ BeforeWait \/ Timeout

OwnerStep ==
    \/ OpenCall \/ OpenCopy \/ OpenClear \/ OpenPublish \/ OpenSetMode
    \/ CloseCall \/ CloseNotify \/ CloseJoin \/ CloseFree \/ CloseLog

\* Every step is one of a client, of a flush, of the worker's loop or of the owner,
\* or ends the process: it is killed, or flushes through NULL.
Ends == Die /\ (CanCrash \/ ~NoNullFlush)

LEMMA StepOf ==
    ASSUME Next
    PROVE  \/ \E t \in Clients : ClientStep(t)
           \/ \E t \in Threads : TaskStep(t)
           \/ WorkerStep \/ OwnerStep \/ Ends
<1>1. ASSUME NEW t \in Clients, ClientCall(t) PROVE ClientStep(t)
      BY <1>1 DEF ClientCall, ClientStep
<1>2. CASE OpenCall \/ CloseCall
      BY <1>2 DEF OwnerStep
<1>3. ASSUME NEW t \in Threads, NullFlush(t) PROVE Ends
      BY <1>3 DEF NullFlush, NoNullFlush, Ends
<1>4. ASSUME NEW t \in Threads, Move(t) \/ Acquire(t)
      PROVE  (t \in Clients /\ ClientStep(t)) \/ TaskStep(t) \/ WorkerStep \/ OwnerStep \/ Ends
      BY <1>3, <1>4 DEF Move, Acquire, ClientStep, TaskStep, WorkerStep, OwnerStep
<1>5. CASE Crash
      BY <1>5 DEF Crash, Ends
<1> QED
    BY <1>1, <1>2, <1>4, <1>5 DEF Next

-----------------------------------------------------------------------------
(* Where bytes can be: which places of the threads go with a block, with the   *)
(* buffer mutex and with bytes in hand.                                        *)

\* A block is mapped only while there is one.
MapHeld == mapped => buff

\* Where the owner is in close only, on the way to its __closelogfile.
Closing == {"CloseNotify", "CloseJoin", "TaskCheck", "TaskLock", "FlushCopy", "FlushClear",
            "CloseFree", "CloseLog"}

\* The owner attaches a block before it publishes the appender, and frees it in close.
OwnerBlock ==
    /\ pc[Owner] = "idle" /\ close => ~buff
    /\ pc[Owner] = "CloseLog" => ~buff
    /\ pc[Owner] \in Closing => close
    /\ pc[Owner] = "OpenSetMode" => ~close

\* The mutex is held where the code reads and writes the block, but for open's flush.
BlockHeld ==
    /\ BufHeld
    /\ \A t \in Threads : pc[t] = "FlushClear" => buff

\* Only a thread between the block and the file carries bytes.
TmpPlaces == \A t \in Threads : tmp[t] # << >> =>
    pc[t] \in {"FlushClear", "FileLock", "FileWrite", "OpenClear", "OpenPublish", "OpenSetMode"}

PlaceInv == MapHeld /\ OwnerBlock /\ BlockHeld /\ TmpPlaces

\* Clients keep it,
LEMMA ClientPlace == ASSUME TypeOK, PlaceInv, NEW t \in Clients, ClientStep(t) PROVE PlaceInv'
<1> USE DEF PlaceInv, MapHeld, OwnerBlock, Closing, BlockHeld, BufHeld, TmpPlaces, TypeOK, PcOK,
        DataOK,
            Threads, Goto, block0, locks, allButPc
<1>1. CASE AppendCall(t) BY <1>1 DEF AppendCall
<1>2. CASE SetMode(t)
      BY <1>2 DEF SetMode, SetModeEffect, WakeAndGoto, Started, Notified, Running, LoopTop
<1>3. CASE Flush(t)
      <2>1. MapHeld' /\ OwnerBlock'
            BY <1>3 DEF Flush, WakeAndGoto, Notified, LoopTop
      <2>2. BlockHeld'
            BY <1>3 DEF Flush, WakeAndGoto, Notified, LoopTop
      <2>3. TmpPlaces'
            BY <1>3 DEF Flush, WakeAndGoto, Notified, LoopTop
      <2> QED
          BY <2>1, <2>2, <2>3
<1>4. CASE FlushSyncCall(t) BY <1>4 DEF FlushSyncCall, Step
<1>5. CASE AppendMode(t)
      <2>1. MapHeld' /\ OwnerBlock'
            BY <1>5 DEF AppendMode
      <2>2. BlockHeld'
            BY <1>5 DEF AppendMode
      <2>3. TmpPlaces'
            <3>1. tmp[t] = << >>
                  BY <1>5 DEF AppendMode
            <3>2. \A u \in Threads \ {t} : pc'[u] = pc[u] /\ tmp'[u] = tmp[u]
                  BY <1>5 DEF AppendMode
            <3>3. pc'[t] = "FileLock" \/ tmp' = tmp
                  BY <1>5 DEF AppendMode
            <3> QED
                BY <3>1, <3>2, <3>3
      <2> QED
          BY <2>1, <2>2, <2>3
<1>6. CASE AppendNotify(t)
      <2>1. MapHeld' /\ OwnerBlock'
            BY <1>6 DEF AppendNotify, WakeAndGoto, Notified, LoopTop, Running
      <2>2. BlockHeld'
            BY <1>6 DEF AppendNotify, WakeAndGoto, Notified, LoopTop, Running
      <2>3. TmpPlaces'
            BY <1>6 DEF AppendNotify, WakeAndGoto, Notified, LoopTop, Running
      <2> QED
          BY <2>1, <2>2, <2>3
<1>7. CASE AppendWrite(t)
      <2>1. MapHeld' /\ OwnerBlock'
            BY <1>7 DEF AppendWrite, Free
      <2>2. BlockHeld'
            BY <1>7 DEF AppendWrite, Free
      <2>3. TmpPlaces'
            <3>1. tmp[t] = << >>
                  BY <1>7 DEF AppendWrite
            <3>2. tmp' = tmp /\ \A u \in Threads \ {t} : pc'[u] = pc[u]
                  BY <1>7 DEF AppendWrite
            <3> QED
                BY <3>1, <3>2
      <2> QED
          BY <2>1, <2>2, <2>3
<1>8. CASE FlushSyncLock(t) BY <1>8 DEF FlushSyncLock, Free
<1> QED
    BY <1>1, <1>2, <1>3, <1>4, <1>5, <1>6, <1>7, <1>8 DEF ClientStep

\* a flush and a file write keep it,
LEMMA TaskPlace == ASSUME TypeOK, PlaceInv, NEW t \in Threads, TaskStep(t) PROVE PlaceInv'
<1> USE DEF PlaceInv, MapHeld, OwnerBlock, Closing, BlockHeld, BufHeld, TmpPlaces, TypeOK, PcOK,
        DataOK,
            Threads, Goto, block0, locks, allButPc, After
<1>1. CASE TaskCheck(t) BY <1>1 DEF TaskCheck, Step
<1>2. CASE TaskLock(t) BY <1>2 DEF TaskLock, Free
<1>3. CASE FlushCopy(t) BY <1>3 DEF FlushCopy
<1>4. CASE FlushClear(t) BY <1>4 DEF FlushClear
<1>5. CASE FileLock(t) BY <1>5 DEF FileLock
<1>6. CASE FileWrite(t) BY <1>6 DEF FileWrite
<1>7. CASE FileDone(t) BY <1>7 DEF FileDone
<1>8. CASE FileFailed(t) BY <1>8 DEF FileFailed
<1>9. CASE NoLogDir(t) BY <1>9 DEF NoLogDir
<1> QED
    BY <1>1, <1>2, <1>3, <1>4, <1>5, <1>6, <1>7, <1>8, <1>9 DEF TaskStep

\* the worker's loop keeps it,
LEMMA WorkerPlace == ASSUME TypeOK, PlaceInv, WorkerStep PROVE PlaceInv'
<1> USE DEF PlaceInv, MapHeld, OwnerBlock, Closing, BlockHeld, BufHeld, TmpPlaces, TypeOK, PcOK,
        DataOK,
            Threads, Goto, Step, block0, locks, allButPc
<1>1. CASE OwnCheck BY <1>1 DEF OwnCheck
<1>2. CASE OwnClosed BY <1>2 DEF OwnClosed
<1>3. CASE Scan BY <1>3 DEF Scan
<1>4. CASE BeforeWait BY <1>4 DEF BeforeWait
<1>5. CASE Timeout BY <1>5 DEF Timeout, LoopTop
<1> QED
    BY <1>1, <1>2, <1>3, <1>4, <1>5 DEF WorkerStep

\* open and close keep it.
LEMMA OwnerPlace == ASSUME TypeOK, PlaceInv, OwnerStep PROVE PlaceInv'
<1> USE DEF PlaceInv, MapHeld, OwnerBlock, Closing, BlockHeld, BufHeld, TmpPlaces, TypeOK, PcOK,
        DataOK,
            Threads, Goto, block0, locks, allButPc
<1>1. CASE OpenCall BY <1>1 DEF OpenCall
<1>2. CASE OpenCopy BY <1>2 DEF OpenCopy
<1>3. CASE OpenClear BY <1>3 DEF OpenClear
<1>4. CASE OpenPublish BY <1>4 DEF OpenPublish
<1>5. CASE OpenSetMode
      BY <1>5 DEF OpenSetMode, SetModeEffect, WakeAndGoto, Started, Notified, LoopTop, Running
<1>6. CASE CloseCall BY <1>6 DEF CloseCall
<1>7. CASE CloseNotify BY <1>7 DEF CloseNotify, WakeAndGoto, Notified, LoopTop, Drainer
<1>8. CASE CloseJoin BY <1>8 DEF CloseJoin, Step
<1>9. CASE CloseFree
      <2>1. MapHeld' /\ OwnerBlock'
            <3>1. buff' = FALSE /\ mapped' = FALSE
                  BY <1>9 DEF CloseFree
            <3>2. pc'[Owner] = "CloseLog" /\ close'
                  BY <1>9 DEF CloseFree
            <3> QED
                BY <3>1, <3>2
      <2>2. BlockHeld'
            BY <1>9 DEF CloseFree, Free
      <2>3. TmpPlaces'
            BY <1>9 DEF CloseFree, Free
      <2> QED
          BY <2>1, <2>2, <2>3
<1>10. CASE CloseLog BY <1>10 DEF CloseLog
<1> QED
    BY <1>1, <1>2, <1>3, <1>4, <1>5, <1>6, <1>7, <1>8, <1>9, <1>10 DEF OwnerStep

\* A new process has no block and no bytes,
LEMMA DiePlace == ASSUME Die PROVE PlaceInv'
BY DEF Die, PlaceInv, MapHeld, OwnerBlock, Closing, BlockHeld, BufHeld, TmpPlaces, Threads

\* and so every step keeps it.
LEMMA PlaceStep == ASSUME TypeOK, PlaceInv, [Next]_vars PROVE PlaceInv'
<1>1. CASE UNCHANGED vars
      BY <1>1 DEF vars, allButPc, block0, locks, PlaceInv, MapHeld, OwnerBlock, Closing,
             BlockHeld, BufHeld,
                  TmpPlaces
<1>2. CASE Next
      BY <1>2, StepOf, ClientPlace, TaskPlace, WorkerPlace, OwnerPlace, DiePlace DEF Ends
<1> QED
    BY <1>1, <1>2

\* It holds at first.
LEMMA PlaceInit == Init => PlaceInv
BY DEF Init, PlaceInv, MapHeld, OwnerBlock, Closing, BlockHeld, BufHeld, TmpPlaces, Threads
-----------------------------------------------------------------------------
(* The block and the records: a record that counts as kept is in the block, in *)
(* the hands of a thread or in the log file - and what is about to be cleared   *)
(* or written over is not in the block alone.                                   *)

\* pos_ is length_, but between attach and the clear of open; a NUL in front means empty.
Cursors ==
    /\ buff => len = pos \/ (len = BlockLen /\ pc[Owner] \in {"OpenCopy", "OpenClear"})
    /\ buff /\ pos > 0 => block[1] # Nul

\* What an attached block still has beyond pos_, and what is in a heap block that is
\* so attached: nothing but uninitialised bytes.
AttachedTail == len = BlockLen /\ pos < BlockLen
HeapTail == buff /\ ~mapped /\ AttachedTail => In(heap) = {}

\* Between the copy and the clear everything in the block is in a copy.
Copied == \A r \in Live : fate[r] = "kept" => r \in Held \cup OnFile
CopiedFirst ==
    /\ (\E t \in Threads : pc[t] = "FlushClear") => Copied
    /\ pc[Owner] = "OpenClear" /\ AttachedTail => Copied

\* Where the records are: while the file is mapped, what counts of it is what
\* the cursors say.
Unmapped == IF mapped THEN {} ELSE Recoverable
Kept == \A r \in Rec : fate[r] = "kept" => r \in Live \cup Unmapped \cup Held \cup OnFile

BlockInv == Cursors /\ HeapTail
DataInv  == BlockInv /\ CopiedFirst /\ Kept

\* A step that leaves the block alone, and lets a record go out of the threads' hands
\* only into the log file or by giving it up, keeps all of this, unless it is one of
\* the two copies.
LEMMA FileSide ==
    ASSUME DataInv, UNCHANGED <<block0, bytes>>,
           \A t \in Threads : pc'[t] \in {"FlushClear", "OpenClear"} => pc[t] = pc'[t],
           pc[Owner] \in {"OpenCopy", "OpenClear"} => pc'[Owner] = pc[Owner],
           \A r \in Rec : fate'[r] = "kept" =>
               \/ fate[r] = "kept" /\ (r \in Held \cup OnFile => r \in Held' \cup OnFile')
               \/ r \in Held'
    PROVE  DataInv'
<1>1. Live' = Live /\ Unmapped' = Unmapped /\ In(heap)' = In(heap)
      BY DEF Live, Flushed, block, Unmapped, Recoverable, In, block0, bytes
<1>2. BlockInv'
      BY DEF DataInv, BlockInv, Cursors, HeapTail, AttachedTail, block, In, block0, bytes
<1>3. ASSUME Copied PROVE Copied'
      <2>1. Live \subseteq Rec
            BY DEF Live, In
      <2> QED
          BY <1>1, <1>3, <2>1 DEF Copied
<1>4. CopiedFirst'
      <2>1. AttachedTail' = AttachedTail
            BY DEF AttachedTail, bytes
      <2>2. Owner \in Threads
            BY DEF Threads
      <2> QED
          BY <1>3, <2>1, <2>2 DEF DataInv, CopiedFirst
<1>5. Kept'
      BY <1>1 DEF DataInv, Kept
<1> QED
    BY <1>2, <1>4, <1>5 DEF DataInv

\* So does one that only moves threads or takes a mutex.
LEMMA Quiet ==
    ASSUME DataInv, UNCHANGED <<tmp, block0, bytes, files, fate>>,
           \A t \in Threads : pc'[t] \in {"FlushClear", "OpenClear"} => pc[t] = pc'[t],
           pc[Owner] \in {"OpenCopy", "OpenClear"} => pc'[Owner] = pc[Owner]
    PROVE  DataInv'
<1>1. Held' = Held /\ OnFile' = OnFile /\ fate' = fate
      BY DEF Held, OnFile, In, files
<1> QED
    BY <1>1, FileSide

\* A client between its calls and around its write of the block is quiet,
LEMMA ClientQuiet ==
    ASSUME TypeOK, DataInv, NEW t \in Clients,
           \/ AppendCall(t) \/ SetMode(t) \/ Flush(t) \/ FlushSyncCall(t)
           \/ AppendNotify(t) \/ FlushSyncLock(t)
    PROVE  DataInv'
<1>1. UNCHANGED <<tmp, block0, bytes, files, fate>>
      BY DEF AppendCall, SetMode, SetModeEffect, Flush, FlushSyncCall, Step, AppendNotify,
             FlushSyncLock, allButPc, hist
<1>2. \A u \in Threads : pc'[u] \in {"FlushClear", "OpenClear"} => pc[u] = pc'[u]
      BY DEF AppendCall, SetMode, SetModeEffect, Flush, FlushSyncCall, Step, AppendNotify,
             FlushSyncLock, Goto, WakeAndGoto, Started, Notified, LoopTop, TypeOK, PcOK, Threads
<1>3. pc[Owner] \in {"OpenCopy", "OpenClear"} => pc'[Owner] = pc[Owner]
      BY DEF AppendCall, SetMode, SetModeEffect, Flush, FlushSyncCall, Step, AppendNotify,
             FlushSyncLock, Goto, WakeAndGoto, Started, Notified, LoopTop, TypeOK, PcOK, Threads
<1> QED
    BY <1>1, <1>2, <1>3, Quiet

\* and so are a flush before its copy, the worker's loop,
LEMMA TaskQuiet ==
    ASSUME TypeOK, DataInv, NEW t \in Threads, TaskCheck(t) \/ TaskLock(t)
    PROVE  DataInv'
<1> USE DEF TaskCheck, TaskLock, Step, allButPc, hist
<1>1. UNCHANGED <<tmp, block0, bytes, files, fate>>
      OBVIOUS
<1>2. \A u \in Threads : pc'[u] \in {"FlushClear", "OpenClear"} => pc[u] = pc'[u]
      BY DEF Goto, After, TypeOK, PcOK
<1>3. pc[Owner] \in {"OpenCopy", "OpenClear"} => pc'[Owner] = pc[Owner]
      BY DEF Goto, TypeOK, PcOK, Threads
<1> QED
    BY <1>1, <1>2, <1>3, Quiet

LEMMA WorkerQuiet == ASSUME TypeOK, DataInv, WorkerStep PROVE DataInv'
<1> USE DEF WorkerStep, OwnCheck, OwnClosed, Scan, BeforeWait, Timeout, Step, allButPc, hist
<1>1. UNCHANGED <<tmp, block0, bytes, files, fate>>
      OBVIOUS
<1>2. \A u \in Threads : pc'[u] \in {"FlushClear", "OpenClear"} => pc[u] = pc'[u]
      BY DEF Goto, LoopTop, TypeOK, PcOK, Threads
<1>3. pc[Owner] \in {"OpenCopy", "OpenClear"} => pc'[Owner] = pc[Owner]
      BY DEF Goto, TypeOK, PcOK, Threads
<1> QED
    BY <1>1, <1>2, <1>3, Quiet

\* and what open and close do beside the block.
LEMMA OwnerQuiet ==
    ASSUME TypeOK, DataInv, OpenPublish \/ OpenSetMode \/ CloseCall \/ CloseNotify \/ CloseJoin
    PROVE  DataInv'
<1> USE DEF OpenPublish, OpenSetMode, SetModeEffect, CloseCall, CloseNotify, CloseJoin, Step,
            allButPc, hist, marks
<1>1. UNCHANGED <<tmp, block0, bytes, files, fate>>
      OBVIOUS
<1>2. \A u \in Threads : pc'[u] \in {"FlushClear", "OpenClear"} => pc[u] = pc'[u]
      BY DEF Goto, WakeAndGoto, Started, Notified, LoopTop, Drainer, TypeOK, PcOK, Threads
<1>3. pc[Owner] \in {"OpenCopy", "OpenClear"} => pc'[Owner] = pc[Owner]
      OBVIOUS
<1> QED
    BY <1>1, <1>2, <1>3, Quiet

\* fclose: what stdio does not pass on is given up.
LEMMA FCloseKeeps ==
    ASSUME TypeOK, NEW rs, \E k \in Passed : FClose(k, rs), NEW r \in Rec, fate'[r] = "kept"
    PROVE  fate[r] = "kept" /\ r \notin rs /\ (r \in OnFile => r \in OnFile')
<1>0. stdio \in Seq(Slot) /\ disk \in Seq(Slot) /\ Len(stdio) \in 0..Len(stdio)
      BY DEF TypeOK, DataOK
<1>1. PICK k \in 0..Len(stdio) : FClose(k, rs)
      BY <1>0 DEF Passed
<1>2. stdio' = << >> /\ disk' = disk \o SubSeq(stdio, 1, k) /\ SubSeq(stdio, 1, k) \in Seq(Slot)
      <2>1. SubSeq(stdio, 1, k) \in Seq(Slot)
            BY <1>0, SubSeqType
      <2> QED
          BY <1>1, <2>1 DEF FClose
<1>3. OnFile' = In(disk) \cup In(SubSeq(stdio, 1, k))
      <2>1. OnFile' = In(stdio') \cup In(disk')
            BY DEF OnFile, In
      <2> QED
          BY <2>1, <1>0, <1>2, InJoined, InNone
<1>4. In(stdio) = In(SubSeq(stdio, 1, k)) \cup In(SubSeq(stdio, k + 1, Len(stdio)))
      BY <1>0, InCut
<1>5. fate[r] = "kept" /\ r \notin In(SubSeq(stdio, k + 1, Len(stdio))) \cup rs
      BY <1>1 DEF FClose, Mark
<1> QED
    BY <1>3, <1>4, <1>5 DEF OnFile

\* __closelogfile gives up no more,
LEMMA CloseInKeeps ==
    ASSUME TypeOK, NEW m, CloseIn(m) \/ CloseLogFile, NEW r \in Rec, fate'[r] = "kept"
    PROVE  fate[r] = "kept" /\ (r \in OnFile => r \in OnFile')
<1>1. CASE CloseLogFile
      BY <1>1, FCloseKeeps DEF CloseLogFile
<1>2. CASE UNCHANGED <<files, fate>>
      BY <1>2 DEF files, OnFile, In
<1> QED
    BY <1>1, <1>2 DEF CloseIn

\* __openlogfile no more than that and, when fopen fails, the thread's bytes.
LEMMA FileLockKeeps ==
    ASSUME TypeOK, NEW t \in Threads, FileLock(t), NEW r \in Rec, fate'[r] = "kept"
    PROVE  fate[r] = "kept" /\ (r \in Held \cup OnFile => r \in Held' \cup OnFile')
<1>1. CASE UNCHANGED <<tmp, files, fate>>
      BY <1>1 DEF files, OnFile, Held, In
<1>2. CASE tmp' = tmp /\ \E k \in Passed : FClose(k, {})
      <2>1. Held' = Held
            BY <1>2 DEF Held, In
      <2> QED
          BY <1>2, <2>1, FCloseKeeps
<1>3. CASE /\ tmp' = [tmp EXCEPT ![t] = << >>]
           /\ \E k \in Passed : FClose(k, In(tmp[t]))
      BY <1>3, HeldLess, FCloseKeeps
<1> QED
    BY <1>1, <1>2, <1>3 DEF FileLock

\* __writefile: what reaches neither stdio nor the file is given up.
LEMMA FileWriteKeeps ==
    ASSUME TypeOK, NEW t \in Threads, FileWrite(t), NEW r \in Rec, fate'[r] = "kept"
    PROVE  fate[r] = "kept" /\ (r \in Held \cup OnFile => r \in Held' \cup OnFile')
<1>0. stdio \in Seq(Slot) /\ disk \in Seq(Slot) /\ tmp[t] \in Seq(Slot)
      BY DEF TypeOK, DataOK
<1>1. Held \subseteq Held' \cup In(tmp[t])
      BY HeldLess DEF FileWrite
<1>2. OnFile = In(stdio) \cup In(disk)
      BY DEF OnFile
<1>3. CASE Drain(stdio \o tmp[t]) /\ fate' = fate
      <2>1. stdio \o tmp[t] \in Seq(Slot)
            BY <1>0
      <2>2. OnFile' = OnFile \cup In(tmp[t])
            BY <1>0, <1>3, <2>1, <1>2, DrainOnFile, InJoined
      <2> QED
          BY <1>1, <1>3, <2>2
<1>4. ASSUME NEW k \in 0..(Len(tmp[t]) - 1), Drain(stdio \o SubSeq(tmp[t], 1, k)),
             Mark(In(SubSeq(tmp[t], k + 1, Len(tmp[t]))), "failed")
      PROVE  fate[r] = "kept" /\ (r \in Held \cup OnFile => r \in Held' \cup OnFile')
      <2>1. k \in 0..Len(tmp[t]) /\ SubSeq(tmp[t], 1, k) \in Seq(Slot)
            BY <1>0, SubSeqType
      <2>2. stdio \o SubSeq(tmp[t], 1, k) \in Seq(Slot)
            BY <1>0, <2>1
      <2>3. OnFile' = OnFile \cup In(SubSeq(tmp[t], 1, k))
            BY <1>0, <1>4, <1>2, <2>1, <2>2, DrainOnFile, InJoined
      <2>4. In(tmp[t]) = In(SubSeq(tmp[t], 1, k)) \cup In(SubSeq(tmp[t], k + 1, Len(tmp[t])))
            BY <1>0, <2>1, InCut
      <2>5. fate[r] = "kept" /\ r \notin In(SubSeq(tmp[t], k + 1, Len(tmp[t])))
            BY <1>4 DEF Mark
      <2> QED
          BY <1>1, <2>3, <2>4, <2>5
<1> QED
    BY <1>3, <1>4 DEF FileWrite

\* The steps of __log2file,
LEMMA FileStep ==
    ASSUME TypeOK, DataInv, NEW t \in Threads,
           NoLogDir(t) \/ FileLock(t) \/ FileWrite(t) \/ FileFailed(t) \/ FileDone(t)
    PROVE  DataInv'
<1>1. UNCHANGED <<block0, bytes>>
      BY DEF NoLogDir, FileLock, FileWrite, FileFailed, FileDone
<1>2. PICK l \in TaskPc \cup {After(t)} :
          pc[t] \in TaskPc /\ Goto(t, l) /\ l # "FlushClear" /\ pc[t] # "FlushClear"
      BY DEF NoLogDir, FileLock, FileWrite, FileFailed, FileDone, TaskPc, After
<1>3. \A u \in Threads : pc'[u] \in {"FlushClear", "OpenClear"} => pc[u] = pc'[u]
      BY <1>2 DEF Goto, After, TaskPc, TypeOK, PcOK
<1>4. pc[Owner] \in {"OpenCopy", "OpenClear"} => pc'[Owner] = pc[Owner]
      BY <1>2 DEF Goto, TaskPc, TypeOK, PcOK, Threads
<1>5. ASSUME NEW r \in Rec, fate'[r] = "kept"
      PROVE  fate[r] = "kept" /\ (r \in Held \cup OnFile => r \in Held' \cup OnFile')
      <2>1. CASE NoLogDir(t)
            <3>1. fate[r] = "kept" /\ r \notin In(tmp[t])
                  BY <1>5, <2>1 DEF NoLogDir, Mark
            <3>2. OnFile' = OnFile
                  BY <2>1 DEF NoLogDir, OnFile, In, files
            <3> QED
                BY <2>1, <3>1, <3>2, HeldLess DEF NoLogDir
      <2>2. CASE FileLock(t)
            BY <1>5, <2>2, FileLockKeeps
      <2>3. CASE FileWrite(t)
            BY <1>5, <2>3, FileWriteKeeps
      <2>4. CASE FileFailed(t) \/ FileDone(t)
            <3>1. Held' = Held
                  BY <2>4 DEF FileFailed, FileDone, Held, In
            <3>2. PICK m \in Modes : CloseIn(m)
                  BY <2>4 DEF FileFailed, FileDone, Modes
            <3> QED
                BY <1>5, <3>1, <3>2, CloseInKeeps
      <2> QED
          BY <2>1, <2>2, <2>3, <2>4
<1> QED
    BY <1>1, <1>3, <1>4, <1>5, FileSide

\* the last of close,
LEMMA CloseLogStep == ASSUME TypeOK, DataInv, CloseLog PROVE DataInv'
<1>1. UNCHANGED <<block0, bytes>> /\ Held' = Held
      BY DEF CloseLog, Held, In
<1>2. \A u \in Threads : pc'[u] \in {"FlushClear", "OpenClear"} => pc[u] = pc'[u]
      BY DEF CloseLog, Goto, TypeOK, PcOK, Threads
<1>3. pc[Owner] \in {"OpenCopy", "OpenClear"} => pc'[Owner] = pc[Owner]
      BY DEF CloseLog
<1>4. ASSUME NEW r \in Rec, fate'[r] = "kept"
      PROVE  fate[r] = "kept" /\ (r \in Held \cup OnFile => r \in Held' \cup OnFile')
      BY <1>1, <1>4, CloseInKeeps DEF CloseLog
<1> QED
    BY <1>1, <1>2, <1>3, <1>4, FileSide

\* and the formatting of an append in sync mode, which a thread begins empty-handed.
LEMMA AppendModeStep ==
    ASSUME TypeOK, PlaceInv, DataInv, NEW t \in Clients, AppendMode(t)
    PROVE  DataInv'
<1>0. t \in Threads /\ rec[t] \in Rec /\ <<rec[t]>> \in Seq(Slot)
      BY DEF AppendMode, TypeOK, PcOK, Threads, Slot
<1>1. UNCHANGED <<block0, bytes, files>> /\ OnFile' = OnFile
      BY DEF AppendMode, files, OnFile, In
<1>2. \A u \in Threads : pc'[u] \in {"FlushClear", "OpenClear"} => pc[u] = pc'[u]
      BY DEF AppendMode, Goto, TypeOK, PcOK, Threads
<1>3. pc[Owner] \in {"OpenCopy", "OpenClear"} => pc'[Owner] = pc[Owner]
      BY DEF AppendMode, Goto, TypeOK, PcOK, Threads
<1>4. CASE mode = "sync"
      <2>1. tmp[t] = << >>
            BY <1>0 DEF AppendMode, PlaceInv, TmpPlaces
      <2>2. Held' = Held \cup {rec[t]}
            BY <1>0, <1>4, <2>1, HeldMore, InOne DEF AppendMode
      <2>3. \A r \in Rec : r # rec[t] => fate'[r] = fate[r]
            BY <1>4 DEF AppendMode, TypeOK, DataOK
      <2> QED
          BY <1>1, <1>2, <1>3, <2>2, <2>3, FileSide
<1>5. CASE mode # "sync"
      BY <1>1, <1>2, <1>3, <1>5, Quiet DEF AppendMode
<1> QED
    BY <1>4, <1>5

\* A copy: all that the block has is in the thread's hands as well.
LEMMA CopyStep ==
    ASSUME TypeOK, PlaceInv, DataInv, NEW t \in Threads,
           FlushCopy(t) \/ (t = Owner /\ OpenCopy)
    PROVE  DataInv'
<1>1. UNCHANGED <<block0, bytes, files, fate>> /\ tmp' = [tmp EXCEPT ![t] = Flushed]
      BY DEF FlushCopy, OpenCopy
<1>2. tmp[t] = << >>
      BY DEF FlushCopy, OpenCopy, PlaceInv, TmpPlaces
<1>3. Held' = Held \cup In(Flushed)
      BY <1>1, <1>2, FlushedType, HeldMore
<1>4. /\ Live' = Live /\ Unmapped' = Unmapped /\ In(heap)' = In(heap) /\ OnFile' = OnFile
      /\ fate' = fate /\ AttachedTail' = AttachedTail
      BY <1>1 DEF Live, Flushed, block, Unmapped, Recoverable, In, OnFile, AttachedTail, block0,
                  bytes, files
<1>5. Copied'
      BY <1>3, <1>4 DEF Live, Copied
<1>6. BlockInv'
      <2>1. pc[Owner] \in {"OpenCopy", "OpenClear"} => pc'[Owner] \in {"OpenCopy", "OpenClear"}
            BY DEF FlushCopy, OpenCopy, Goto, TypeOK, PcOK, Threads
      <2>2. Cursors'
            BY <1>1, <2>1 DEF DataInv, BlockInv, Cursors, block, block0, bytes
      <2>3. HeapTail'
            BY <1>1, <1>4 DEF DataInv, BlockInv, HeapTail, block0
      <2> QED
          BY <2>2, <2>3 DEF BlockInv
<1>7. Kept'
      BY <1>3, <1>4 DEF DataInv, Kept
<1> QED
    BY <1>5, <1>6, <1>7 DEF DataInv, CopiedFirst

\* The block is empty or gone after the step.
LEMMA Emptied ==
    ASSUME Live' = {}, Kept', buff' => pos' = 0 /\ len' = 0
    PROVE  DataInv'
<1>1. CopiedFirst'
      BY DEF CopiedFirst, Copied
<1>2. BlockInv'
      <2>1. buff' => ~AttachedTail'
            BY DEF AttachedTail
      <2> QED
          BY <2>1 DEF BlockInv, Cursors, HeapTail
<1> QED
    BY <1>1, <1>2 DEF DataInv

\* A clear, after the copy: what only the block still had is given up.
LEMMA ClearStep ==
    ASSUME TypeOK, TypeOK', DataInv, NEW t \in Threads,
           FlushClear(t) \/ (t = Owner /\ OpenClear)
    PROVE  DataInv'
<1>1. ClearBlock /\ UNCHANGED <<block0, tmp, files>>
      BY DEF FlushClear, OpenClear
<1>2. Held' = Held /\ OnFile' = OnFile
      BY <1>1 DEF Held, OnFile, In, files
<1>3. block' = [block EXCEPT ![1] = Nul]
      BY <1>1 DEF ClearBlock, SetBlock, block, block0
<1>4. Live' = {}
      <2>1. block'[1] = Nul
            BY <1>3 DEF TypeOK, DataOK, block, Block
      <2> QED
          BY <2>1, LiveIsNext
<1>5. Unmapped' = Unmapped
      BY <1>1 DEF ClearBlock, SetBlock, Unmapped, Recoverable, In, block0
<1>6. ASSUME NEW r \in Rec, fate'[r] = "kept"
      PROVE  fate[r] = "kept" /\ (r \in Live => r \in Held \cup OnFile)
      <2>1. CASE FlushClear(t)
            <3>1. Copied
                  BY <2>1 DEF FlushClear, DataInv, CopiedFirst
            <3>2. fate' = fate
                  BY <2>1 DEF FlushClear, hist
            <3> QED
                BY <1>6, <3>1, <3>2 DEF Copied
      <2>2. CASE OpenClear
            BY <1>6, <2>2 DEF OpenClear, Mark
      <2> QED
          BY <2>1, <2>2
<1>7. Kept'
      BY <1>2, <1>5, <1>6 DEF DataInv, Kept
<1> QED
    BY <1>1, <1>4, <1>7, Emptied DEF ClearBlock

\* The end of the buffer in close: the same, and the mapped file is zeroed.
LEMMA CloseFreeStep == ASSUME TypeOK, DataInv, CloseFree PROVE DataInv'
<1>1. Held' = Held /\ OnFile' = OnFile
      BY DEF CloseFree, Held, OnFile, In, files
<1>2. buff' = FALSE /\ mapped' = FALSE
      BY DEF CloseFree
<1>3. Live' = {}
      BY <1>2 DEF Live
<1>4. Unmapped \subseteq Unmapped'
      BY <1>2 DEF CloseFree, Unmapped, Recoverable, In
<1>5. \A r \in Rec : fate'[r] = "kept" => fate[r] = "kept" /\ (r \in Live => r \in Held \cup OnFile)
      BY DEF CloseFree, Mark
<1>6. Kept'
      BY <1>1, <1>4, <1>5 DEF DataInv, Kept
<1> QED
    BY <1>2, <1>3, <1>6, Emptied

\* The end of the process: what is left is in the two files.
LEMMA DieStep == ASSUME TypeOK, Die PROVE DataInv'
<1>1. buff' = FALSE /\ mapped' = FALSE
      BY DEF Die
<1>2. Live' = {}
      BY <1>1 DEF Live
<1>3. Unmapped' = Recoverable /\ In(disk) \subseteq OnFile'
      <2>1. OnFile' = In(stdio') \cup In(disk')
            BY DEF OnFile, In
      <2> QED
          BY <1>1, <2>1 DEF Die, Unmapped, Recoverable, In
<1>4. \A r \in Rec : fate'[r] = "kept" => r \in Recoverable \cup In(disk)
      BY DEF Die, Mark
<1>5. Kept'
      BY <1>3, <1>4 DEF Kept
<1> QED
    BY <1>1, <1>2, <1>5, Emptied

\* Attach: the mapped file counts as the block from now on; a heap block has nothing.
LEMMA OpenCallStep ==
    ASSUME TypeOK, TypeOK', PlaceInv, DataInv, OpenCall PROVE DataInv'
<1>1. ~buff /\ ~mapped
      BY DEF OpenCall, PlaceInv, OwnerBlock, MapHeld
<1>2. /\ Held' = Held /\ OnFile' = OnFile /\ fate' = fate
      /\ buff' = TRUE /\ pos' = 0 /\ len' = BlockLen /\ pc'[Owner] = "OpenCopy"
      BY DEF OpenCall, Held, OnFile, In, files, hist, AttachedLen, Goto, TypeOK, PcOK, Threads
<1>3. Live = {} /\ Unmapped = Recoverable
      BY <1>1 DEF Live, Unmapped
<1>4. \A t \in Threads : pc'[t] # "FlushClear"
      BY <1>1 DEF OpenCall, PlaceInv, BlockHeld, Goto, TypeOK, PcOK
<1>5. CopiedFirst'
      BY <1>2, <1>4 DEF CopiedFirst
<1>6. Cursors'
      BY <1>2 DEF Cursors
<1>7. CASE mapped'
      <2>1. block' = mfile /\ mfile \in Block
            BY <1>7 DEF OpenCall, block, TypeOK, DataOK
      <2>2. Live' = Recoverable
            <3>1. In(mfile) = {mfile[i] : i \in 1..BlockLen} \cap Rec
                  BY <2>1 DEF In, Block
            <3> QED
                BY <1>2, <2>1, <3>1, LiveIsNext DEF Recoverable
      <2>3. Kept'
            BY <1>2, <1>3, <2>2 DEF DataInv, Kept
      <2>4. HeapTail'
            BY <1>7 DEF HeapTail
      <2> QED
          BY <1>5, <1>6, <2>3, <2>4 DEF DataInv, BlockInv
<1>8. CASE ~mapped'
      <2>1. heap' \in Block /\ \A i \in 1..BlockLen : heap'[i] \notin Rec
            <3>1. heap' \in {Blank, [i \in 1..BlockLen |-> Junk]} /\ Nul \notin Rec
                    /\ Junk \notin Rec
                  BY <1>8 DEF OpenCall
            <3> QED
                BY <3>1 DEF Blank, TypeOK, DataOK
      <2>2. In(heap)' = {}
            BY <2>1 DEF In, Block
      <2>3. Unmapped' = Unmapped
            BY <1>1, <1>8 DEF OpenCall, Unmapped, Recoverable, In
      <2>4. Kept'
            BY <1>2, <1>3, <2>3 DEF DataInv, Kept
      <2>5. HeapTail'
            BY <2>2 DEF HeapTail
      <2> QED
          BY <1>5, <1>6, <2>4, <2>5 DEF DataInv, BlockInv
<1> QED
    BY <1>7, <1>8

\* Four fifths of the block is no more than the block.
LEMMA FourFifths == (BlockLen * 4) \div 5 <= BlockLen
OBVIOUS

\* Where a write lands: behind everything the block has, or, in a block that open
\* has not cleared yet, on one slot of what the last process left.
LEMMA WriteLands ==
    ASSUME TypeOK, Cursors, buff, UNCHANGED block0, NEW c \in Slot, c # Nul,
           SetBlock(Written(c)), pos' = NewPos, len' = NewLen
    PROVE  /\ block' = Written(c) /\ block'[1] # Nul
           /\ len = pos => len' = pos' /\ len <= len' /\ \A i \in 1..len : block'[i] = block[i]
           /\ len = pos /\ len < BlockLen => len' = len + 1 /\ block'[len'] = c
           /\ len # pos => /\ AttachedTail /\ len' = len /\ pos' = pos + 1 /\ block'[pos + 1] = c
                           /\ \A i \in 1..BlockLen : i # pos + 1 => block'[i] = block[i]
<1>0. /\ pos \in 0..BlockLen /\ len \in 0..BlockLen /\ pos <= len
      /\ BlockLen \in Nat \ {0} /\ block \in Block
      BY DEF TypeOK, DataOK, block
<1>1. block' = Written(c)
      BY DEF SetBlock, block, block0
<1>2. \A i \in 1..BlockLen :
          block'[i] = IF i = pos + 1 THEN c
                      ELSE IF i = pos + 2 /\ NewLen < BlockLen THEN Nul ELSE block[i]
      BY <1>1 DEF Written
<1>3. block'[1] # Nul
      <2>1. CASE pos = 0
            BY <1>0, <1>2, <2>1
      <2>2. CASE pos > 0
            BY <1>0, <1>2, <2>2 DEF Cursors
      <2> QED
          BY <1>0, <2>1, <2>2
<1>4. len = pos => len' = pos' /\ len <= len' /\ \A i \in 1..len : block'[i] = block[i]
      BY <1>0, <1>2 DEF NewPos, NewLen
<1>5. len = pos /\ len < BlockLen => len' = len + 1 /\ block'[len'] = c
      BY <1>0, <1>2 DEF NewPos, NewLen
<1>6. ASSUME len # pos
      PROVE  /\ AttachedTail /\ len' = len /\ pos' = pos + 1 /\ block'[pos + 1] = c
             /\ \A i \in 1..BlockLen : i # pos + 1 => block'[i] = block[i]
      <2>1. len = BlockLen /\ pos < BlockLen
            BY <1>0, <1>6 DEF Cursors
      <2>2. NewPos = pos + 1 /\ NewLen = len
            BY <1>0, <2>1 DEF NewPos, NewLen
      <2> QED
          BY <1>0, <1>2, <2>1, <2>2 DEF AttachedTail
<1> QED
    BY <1>1, <1>3, <1>4, <1>5, <1>6

\* What that does to the records of the block.
LEMMA WriteKeeps ==
    ASSUME TypeOK, TypeOK', Cursors, buff, UNCHANGED block0, NEW c \in Slot, c # Nul,
           SetBlock(Written(c)), pos' = NewPos, len' = NewLen
    PROVE  /\ len = pos => Live \subseteq Live'
           /\ len = pos /\ len < BlockLen /\ c \in Rec => c \in Live'
           /\ len # pos => \A r \in Live : r # block[pos + 1] => r \in Live'
<1> DEFINE Slots(b, n) == {b[i] : i \in 1..n} \cap Rec
<1>0. pos \in 0..BlockLen /\ len \in 0..BlockLen /\ len' \in 0..BlockLen
      BY DEF TypeOK, DataOK
<1>1. Live \subseteq Slots(block, len)
      BY LiveIs
<1>2. Live' = Slots(block', len')
      BY LiveIsNext, WriteLands DEF block0
<1>3. ASSUME len = pos PROVE Live \subseteq Live'
      <2>1. len <= len' /\ \A i \in 1..len : block'[i] = block[i]
            BY <1>3, WriteLands
      <2>2. Slots(block, len) \subseteq Slots(block', len')
            BY <1>0, <2>1
      <2> QED
          BY <1>1, <1>2, <2>2
<1>4. ASSUME len = pos, len < BlockLen, c \in Rec PROVE c \in Live'
      <2>1. len' = len + 1 /\ block'[len'] = c
            BY <1>4, WriteLands
      <2>2. len' \in 1..len'
            BY <1>0, <2>1
      <2> QED
          BY <1>2, <1>4, <2>1, <2>2
<1>5. ASSUME len # pos, NEW r \in Live, r # block[pos + 1] PROVE r \in Live'
      <2>1. len = BlockLen /\ len' = len /\ \A i \in 1..BlockLen : i # pos + 1 =>
                block'[i] = block[i]
            BY <1>5, WriteLands DEF AttachedTail
      <2>2. PICK i \in 1..len : block[i] = r
            BY <1>1, <1>5
      <2> QED
          BY <1>1, <1>2, <1>5, <2>1, <2>2
<1> QED
    BY <1>3, <1>4, <1>5

\* append into a block: the record finds its place behind the others, or is refused;
\* what a late append writes over has been given up or is in open's copy.
LEMMA AppendWriteStep ==
    ASSUME TypeOK, TypeOK', PlaceInv, DataInv, NEW t \in Clients, AppendWrite(t)
    PROVE  DataInv'
<1> DEFINE c == IF NearlyFull THEN Overflow ELSE rec[t]
<1>0. /\ pos \in 0..BlockLen /\ len \in 0..BlockLen /\ pos <= len /\ BlockLen \in Nat \ {0}
      /\ t \in Threads /\ Owner \in Threads /\ t # Owner /\ Cursors
      BY DEF TypeOK, DataOK, DataInv, BlockInv, Threads
<1>1. \A u \in Threads \ {t} : pc'[u] = pc[u]
      BY DEF AppendWrite, Goto, TypeOK, PcOK
<1>2. pc'[t] \in {"AppendNotify", "idle"} /\ pc'[Owner] = pc[Owner]
      BY <1>0, <1>1 DEF AppendWrite, Goto, TypeOK, PcOK
<1>3. \A u \in Threads : pc'[u] # "FlushClear" /\ pc[u] # "FlushClear"
      BY <1>1, <1>2 DEF AppendWrite, Free, PlaceInv, BlockHeld, BufHeld
<1>4. CASE ~buff
      <2>1. UNCHANGED <<tmp, block0, bytes, files, fate>>
            BY <1>4 DEF AppendWrite
      <2>2. \A u \in Threads : pc'[u] \in {"FlushClear", "OpenClear"} => pc[u] = pc'[u]
            BY <1>0, <1>1, <1>2
      <2> QED
          BY <1>2, <2>1, <2>2, Quiet
<1>5. CASE buff
      <2>1. rec[t] \in Rec /\ c \in Slot /\ c # Nul
            <3>1. rec[t] \in Rec
                  BY DEF AppendWrite, TypeOK, PcOK, Threads
            <3>2. Nul \notin Rec /\ Nul # Overflow
                  OBVIOUS
            <3> QED
                BY <3>1, <3>2, RecIsSlot
      <2>2. SetBlock(Written(c)) /\ pos' = NewPos /\ len' = NewLen /\ UNCHANGED block0
            BY <1>5 DEF AppendWrite
      <2>3. Held' = Held /\ OnFile' = OnFile
            BY DEF AppendWrite, Held, OnFile, In, files
      <2>4. \A r \in Rec : fate'[r] = IF r = rec[t] THEN (IF NearlyFull THEN "overflow" ELSE "kept")
                ELSE IF r \in Overwritten /\ fate[r] = "kept" THEN "overwritten" ELSE fate[r]
            BY <1>5 DEF AppendWrite, AppendFate
      <2>5. Unmapped' = Unmapped
            BY <2>2 DEF SetBlock, Unmapped, Recoverable, In, block0
      <2> HIDE DEF c
      <2>6. /\ block' = Written(c) /\ block'[1] # Nul
            /\ len = pos => len' = pos' /\ len <= len' /\ \A i \in 1..len : block'[i] = block[i]
            /\ len # pos => /\ AttachedTail /\ len' = len /\ pos' = pos + 1 /\ block'[pos + 1] = c
                            /\ \A i \in 1..BlockLen : i # pos + 1 => block'[i] = block[i]
            BY <1>0, <1>5, <2>1, <2>2, WriteLands
      <2>7. /\ len = pos => Live \subseteq Live'
            /\ len = pos /\ len < BlockLen /\ c \in Rec => c \in Live'
            /\ len # pos => \A r \in Live : r # block[pos + 1] => r \in Live'
            BY <1>0, <1>5, <2>1, <2>2, WriteKeeps
      <2>8. Cursors'
            <3>1. len = pos => len' = pos'
                  BY <2>6
            <3>2. len # pos => len' = BlockLen /\ pc'[Owner] \in {"OpenCopy", "OpenClear"}
                  BY <1>0, <1>2, <1>5, <2>6 DEF Cursors, AttachedTail
            <3> QED
                BY <2>6, <3>1, <3>2 DEF Cursors
      <2>9. CASE ~NearlyFull
            <3>1. len < BlockLen
                  BY <1>0, <2>9, FourFifths DEF NearlyFull
            <3>2. len = pos /\ len' = pos'
                  BY <3>1, <1>0, <2>6 DEF AttachedTail
            <3>3. rec[t] \in Live' /\ Live \subseteq Live'
                  BY <2>1, <2>7, <2>9, <3>1, <3>2 DEF c
            <3>4. Kept'
                  BY <2>3, <2>4, <2>5, <3>3 DEF DataInv, Kept
            <3>5. ~AttachedTail'
                  BY <1>0, <3>2 DEF AttachedTail
            <3> QED
                BY <1>3, <2>8, <3>4, <3>5 DEF DataInv, BlockInv, HeapTail, CopiedFirst
      <2>10. CASE NearlyFull /\ len = pos
            <3>1. Kept'
                  BY <2>3, <2>4, <2>5, <2>7, <2>10 DEF DataInv, Kept
            <3>2. ~AttachedTail'
                  BY <1>0, <2>6, <2>10 DEF AttachedTail
            <3> QED
                BY <1>3, <2>8, <3>1, <3>2 DEF DataInv, BlockInv, HeapTail, CopiedFirst
      <2>11. CASE NearlyFull /\ len # pos
            <3>1. c = Overflow /\ Overflow \notin Rec /\ AttachedTail /\ len = BlockLen
                  BY <2>6, <2>11 DEF c, AttachedTail
            <3>2. pc[Owner] \in {"OpenCopy", "OpenClear"}
                  BY <1>5, <2>11 DEF DataInv, BlockInv, Cursors
            <3>3. ASSUME NEW r \in Rec, fate'[r] = "kept", r = block[pos + 1], r \in Live
                  PROVE  r \in Held \cup OnFile
                  <4>1. fate[r] = "kept" /\ r \notin Overwritten
                        BY <2>4, <2>11, <3>3
                  <4>2. block \in Seq(Slot) /\ Len(block) = BlockLen
                        BY BlockIsSeq DEF TypeOK, DataOK, block
                  <4>3. NewPos = pos + 1 /\ pos + 1 \in 1..BlockLen
                        BY <1>0, <3>1 DEF NewPos, AttachedTail
                  <4> DEFINE s == SubSeq(block, pos + 1, pos + 1)
                  <4>4. 1 \in DOMAIN s /\ s[1] = block[pos + 1]
                        BY <4>2, <4>3
                  <4> HIDE DEF s
                  <4>5. r \in In(SubSeq(block, pos + 1, NewPos))
                        BY <3>3, <4>3, <4>4 DEF In, s
                  <4> QED
                      BY <2>11, <4>1, <4>5 DEF Overwritten
            <3>4. Kept'
                  BY <2>3, <2>4, <2>5, <2>7, <2>11, <3>3 DEF DataInv, Kept
            <3>5. HeapTail'
                  <4>1. CASE mapped
                        BY <2>2, <4>1 DEF HeapTail, block0
                  <4>2. CASE ~mapped
                        <5>1. In(heap) = {} /\ block = heap /\ heap' = block'
                              BY <1>5, <2>2, <3>1, <4>2
                                   DEF DataInv, BlockInv, HeapTail, block, block0
                        <5>2. heap \in Block /\ heap' \in Block
                              BY DEF TypeOK, DataOK
                        <5>3. \A i \in 1..BlockLen : heap[i] \notin Rec
                              BY <5>1, <5>2 DEF In, Block
                        <5>4. \A i \in 1..BlockLen : heap'[i] \notin Rec
                              BY <2>6, <2>11, <3>1, <5>1, <5>3
                        <5>5. In(heap') = {}
                              BY <5>2, <5>4 DEF In, Block
                        <5> QED
                            BY <5>5 DEF HeapTail, In
                  <4> QED
                      BY <4>1, <4>2
            <3>6. pc[Owner] = "OpenClear" => Copied'
                  <4> SUFFICES ASSUME pc[Owner] = "OpenClear", NEW r \in Live', fate'[r] = "kept"
                               PROVE  r \in Held \cup OnFile
                      BY <2>3 DEF Copied
                  <4>1. r \in Rec /\ fate[r] = "kept"
                        <5>1. r \in Rec
                              BY DEF Live, In
                        <5> QED
                            BY <2>4, <2>11, <5>1
                  <4>2. CASE r \in Live
                        BY <3>1, <4>1, <4>2 DEF DataInv, CopiedFirst, Copied
                  <4>3. CASE r \notin Live
                        <5>1. PICK i \in 1..len : block'[i] = r
                              BY <2>6, <2>11, LiveIsNext
                        <5>2. block[i] = r
                              BY <2>6, <2>11, <3>1, <4>1, <5>1
                        <5>3. block[1] = Nul
                              BY <1>5, <4>1, <4>3, <5>2, LiveIs
                        <5>4. CASE mapped
                              BY <4>1, <4>3, <5>4 DEF DataInv, Kept, Unmapped
                        <5>5. CASE ~mapped
                              <6>1. In(heap) = {} /\ block = heap /\ heap \in Block
                                    BY <1>5, <3>1, <5>5 DEF DataInv, BlockInv, HeapTail, block,
                                           TypeOK, DataOK
                              <6> QED
                                  BY <3>1, <4>1, <5>1, <5>2, <6>1 DEF In, Block
                        <5> QED
                            BY <5>4, <5>5
                  <4> QED
                      BY <4>2, <4>3
            <3>7. CopiedFirst'
                  BY <1>2, <1>3, <3>6 DEF CopiedFirst
            <3> QED
                BY <2>8, <3>4, <3>5, <3>7 DEF DataInv, BlockInv
      <2> QED
          BY <2>9, <2>10, <2>11
<1> QED
    BY <1>4, <1>5

-----------------------------------------------------------------------------
RecordInv == TypeOK /\ PlaceInv /\ DataInv

\* The invariant holds at first, with what an earlier process left in the mapped file,
LEMMA RecordInit == Init => RecordInv
<1> SUFFICES ASSUME Init PROVE RecordInv
    OBVIOUS
<1>1. TypeOK /\ PlaceInv
      BY TypeInit, PlaceInit
<1>2. BlockInv /\ CopiedFirst
      <2>1. ~buff /\ \A t \in Threads : pc[t] \notin {"FlushClear", "OpenClear"}
            BY DEF Init
      <2>2. Owner \in Threads
            BY DEF Threads
      <2> QED
          BY <2>1, <2>2 DEF BlockInv, Cursors, HeapTail, CopiedFirst
<1>3. Kept
      <2>1. PICK n \in LeftOver : /\ mfile = [i \in 1..BlockLen |-> IF i <= n THEN i ELSE Nul]
                                 /\ fate = [r \in Rec |-> IF r <= n THEN "kept" ELSE "none"]
            BY DEF Init
      <2>2. n \in Nat /\ n <= BlockLen /\ BlockLen \in Nat \ {0}
            OBVIOUS
      <2>3. ASSUME NEW r \in Rec, fate[r] = "kept" PROVE r \in Recoverable
            <3>1. r <= n /\ r \in 1..BlockLen /\ mfile[r] = r /\ 1 <= n
                  BY <2>1, <2>2, <2>3 DEF Rec
            <3>2. mfile[1] = 1 /\ 1 \in Rec
                  BY <2>1, <2>2, <3>1 DEF Rec
            <3>3. DOMAIN mfile = 1..BlockLen
                  BY <2>1
            <3> QED
                BY <3>1, <3>2, <3>3 DEF Recoverable, In
      <2> QED
          BY <2>3 DEF Init, Kept, Unmapped
<1> QED
    BY <1>1, <1>2, <1>3 DEF RecordInv, DataInv

\* and every step keeps it.
LEMMA RecordStep == RecordInv /\ [Next]_vars => RecordInv'
<1> SUFFICES ASSUME RecordInv, [Next]_vars PROVE RecordInv'
    OBVIOUS
<1>1. TypeOK /\ PlaceInv /\ DataInv /\ TypeOK' /\ PlaceInv'
      BY TypeStep, PlaceStep DEF RecordInv
<1>2. CASE UNCHANGED vars
      <2>1. UNCHANGED <<tmp, block0, bytes, files, fate, pc>>
            BY <1>2 DEF vars, allButPc, hist
      <2> QED
          BY <1>1, <2>1, Quiet DEF RecordInv
<1>3. ASSUME NEW t \in Clients, ClientStep(t) PROVE DataInv'
      BY <1>1, <1>3, ClientQuiet, AppendModeStep, AppendWriteStep DEF ClientStep
<1>4. ASSUME NEW t \in Threads, TaskStep(t) PROVE DataInv'
      BY <1>1, <1>4, TaskQuiet, CopyStep, ClearStep, FileStep DEF TaskStep
<1>5. CASE WorkerStep
      BY <1>1, <1>5, WorkerQuiet DEF RecordInv
<1>6. ASSUME OwnerStep PROVE DataInv'
      <2>1. Owner \in Threads
            BY DEF Threads
      <2> QED
          BY <1>1, <1>6, <2>1, OwnerQuiet, OpenCallStep, CopyStep, ClearStep, CloseFreeStep,
             CloseLogStep DEF OwnerStep
<1>7. CASE Die
      BY <1>1, <1>7, DieStep DEF RecordInv
<1>8. CASE Next
      BY <1>1, <1>3, <1>4, <1>5, <1>6, <1>7, <1>8, StepOf DEF RecordInv, Ends
<1> QED
    BY <1>2, <1>8

\* No record vanishes, for any number of clients, any block and any bounds, under
\* both kinds of thread and with crashes and failing files: what append accepted is
\* in the block, in the hands of a thread in __log2file, in stdio or in one of the
\* files, until something that Accounted names takes it.
THEOREM NoRecordVanishes == Spec => []Accounted
<1>1. RecordInv => Accounted
      BY DEF RecordInv, DataInv, Kept, Unmapped, Accounted
<1> QED
    BY <1>1, RecordInit, RecordStep, PTL DEF Spec
=============================================================================
