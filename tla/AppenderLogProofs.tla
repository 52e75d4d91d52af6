-------------------------- MODULE AppenderLogProofs -------------------------
(* What gets to the log file, and in which order. On an appender of the shared *)
(* thread, whoever else flushes, the flush of close itself leaves nothing      *)
(* behind that was appended before it. (With a thread of its own close relies  *)
(* on that thread, and the property fails.) With a thread of its own a         *)
(* client's records are written in the order of its calls. (On a shared one    *)
(* close writes beside the thread, and the property fails.)                    *)
EXTENDS AppenderDeliveryProofs

USE AppenderAssumption

-----------------------------------------------------------------------------
(* The way of the owner. *)

\* Where the owner is between the beginning of close and the end of its flush.
WriteBack == {"CloseNotify", "CloseJoin", "TaskCheck", "TaskLock", "FlushCopy", "FlushClear"}

\* The appender is closed, and the flush of close is over.
Drained == close /\ pc[Owner] \notin WriteBack

\* There is a block while the appender is open, and until close has flushed it.
BlockThere == (~close \/ pc[Owner] \in WriteBack => buff) /\ pc[Owner] # "CloseJoin"

\* The records that close promised are older than every append that is under way.
PromisedOld == \A r \in promised : r < next /\ \A c \in Clients : rec[c] # r

\* A step ends the write-back of close by clearing the block, or not at all.
LEMMA OwnerMoves ==
    ASSUME UseShareThread, TypeOK, PlaceInv, Opened, BlockThere, Next
    PROVE  /\ BlockThere'
           /\ Drained' => Drained \/ FlushClear(Owner) \/ Die
           /\ promised' = promised \/ Die \/ CloseCall
<1> USE DEF WriteBack, Drained, BlockThere, TypeOK, PcOK, DataOK, Threads, Goto, block0, marks,
        hist,
            allButPc
<1> DEFINE P == /\ BlockThere' /\ (Drained' => Drained \/ FlushClear(Owner) \/ Die)
                /\ promised' = promised \/ Die \/ CloseCall
<1>1. ASSUME NEW t \in Clients, ClientStep(t) PROVE P
      <2>1. UNCHANGED <<buff, close, promised>>
            BY <1>1 DEF ClientStep, AppendCall, SetMode, Flush, FlushSyncCall, Step,
                        AppendMode, AppendNotify, AppendWrite, FlushSyncLock
      <2>2. pc'[Owner] = pc[Owner]
            BY <1>1 DEF ClientStep, AppendCall, SetMode, SetModeEffect, Flush, FlushSyncCall, Step,
                        AppendMode, AppendNotify, AppendWrite, FlushSyncLock, WakeAndGoto
      <2> QED
          BY <2>1, <2>2
<1>2. ASSUME NEW t \in Threads, TaskStep(t) PROVE P
      <2>1. UNCHANGED <<buff, close, promised>>
            BY <1>2 DEF TaskStep, TaskCheck, TaskLock, FlushCopy, FlushClear, NoLogDir,
                        FileLock, FileWrite, FileFailed, FileDone, Step
      <2>2. t # Owner => pc'[Owner] = pc[Owner]
            BY <1>2 DEF TaskStep, TaskCheck, TaskLock, FlushCopy, FlushClear, NoLogDir,
                        FileLock, FileWrite, FileFailed, FileDone, Step
      <2>3. CASE t = Owner
            <3>1. CASE TaskCheck(t) \/ TaskLock(t) \/ FlushCopy(t)
                  BY <2>1, <2>3, <3>1 DEF TaskCheck, TaskLock, FlushCopy, Step, PlaceInv,
                         OwnerBlock,
                                          Closing
            <3>2. CASE FlushClear(t)
                  BY <2>1, <2>3, <3>2 DEF FlushClear, After
            <3>3. CASE NoLogDir(t) \/ FileLock(t) \/ FileWrite(t) \/ FileFailed(t) \/ FileDone(t)
                  BY <2>1, <2>3, <3>3 DEF NoLogDir, FileLock, FileWrite, FileFailed, FileDone, After
            <3> QED
                BY <1>2, <3>1, <3>2, <3>3 DEF TaskStep
      <2> QED
          BY <2>1, <2>2, <2>3
<1>3. ASSUME WorkerStep PROVE P
      BY <1>3 DEF WorkerStep, OwnCheck, OwnClosed, Scan, BeforeWait, Timeout, Step
<1>4. ASSUME OwnerStep PROVE P
      <2>1. CASE OpenCall BY <2>1 DEF OpenCall
      <2>2. CASE OpenCopy \/ OpenClear
            BY <2>2 DEF OpenCopy, OpenClear
      <2>3. CASE OpenPublish \/ OpenSetMode
            BY <2>3 DEF OpenPublish, OpenSetMode, SetModeEffect, WakeAndGoto, Opened, Opening
      <2>4. CASE CloseCall
            BY <2>4 DEF CloseCall
      <2>5. CASE CloseNotify \/ CloseJoin
            BY <2>5 DEF CloseNotify, CloseJoin, Step, WakeAndGoto, Drainer, PlaceInv,
                   OwnerBlock, Closing
      <2>6. CASE CloseFree \/ CloseLog
            BY <2>6 DEF CloseFree, CloseLog, PlaceInv, OwnerBlock, Closing
      <2> QED
          BY <1>4, <2>1, <2>2, <2>3, <2>4, <2>5, <2>6 DEF OwnerStep
<1>5. CASE Die
      BY <1>5 DEF Die
<1> QED
    BY <1>1, <1>2, <1>3, <1>4, <1>5, StepOf DEF Ends

\* What was promised stays older than what is appended.
LEMMA PromisedOldStep == ASSUME DeliveryInv, PromisedOld, Next,
                                promised' = promised \/ Die \/ CloseCall
                         PROVE  PromisedOld'
<1>0. /\ TypeOK /\ next \in Nat /\ promised \subseteq Rec /\ Numbers
      /\ \A c \in Clients : c \in Threads
      BY DEF DeliveryInv, RecordInv, TypeOK, DataOK, Threads
<1>1. CASE CloseCall
      <2>1. /\ next' = next /\ rec' = rec
            /\ promised' = {r \in Rec : fate[r] = "kept" /\ \A c \in Clients : rec[c] # r}
            BY <1>1 DEF CloseCall, bounds
      <2>2. \A r \in promised' : r < next
            BY <1>0, <2>1 DEF Numbers, Rec
      <2> QED
          BY <2>1, <2>2 DEF PromisedOld
<1>2. CASE Die
      BY <1>2 DEF Die, PromisedOld
<1>3. ASSUME promised' = promised, NEW t \in Clients, AppendCall(t) PROVE PromisedOld'
      <2>1. next' = next + 1 /\ rec' = [rec EXCEPT ![t] = next]
            BY <1>3 DEF AppendCall
      <2>2. \A c \in Clients : rec'[c] = IF c = t THEN next ELSE rec[c]
            BY <1>0, <2>1 DEF TypeOK, PcOK
      <2>3. \A r \in promised : r \in Nat
            BY <1>0 DEF Rec
      <2> QED
          BY <1>0, <1>3, <2>1, <2>2, <2>3 DEF PromisedOld
<1>4. CASE promised' = promised /\ ~\E t \in Clients : AppendCall(t)
      <2>1. next' = next /\ \A c \in Clients : rec'[c] = rec[c] \/ rec'[c] = 0
            BY <1>0, <1>4, RecMoves
      <2>2. \A r \in promised : r # 0
            BY <1>0 DEF Rec
      <2> QED
          BY <1>4, <2>1, <2>2 DEF PromisedOld
<1> QED
    BY <1>1, <1>2, <1>3, <1>4

-----------------------------------------------------------------------------
(* What a late append leaves in front of what open has attached.               *)

\* Messages, no records: the attached block counts as full.
OverTail == buff /\ len # pos => \A i \in 1..pos : block[i] \notin Rec

LEMMA OverPut ==
    ASSUME DeliveryInv, OverTail, NEW t \in Clients, Put(t), len # pos
    PROVE  AttachedTail /\ len' = len /\ pos' = pos + 1
             /\ \A i \in 1..(pos + 1) : block'[i] \notin Rec
<1> DEFINE c == IF NearlyFull THEN Overflow ELSE rec[t]
<1>1. /\ SetBlock(Written(c)) /\ pos' = NewPos /\ len' = NewLen /\ UNCHANGED block0 /\ buff
      BY DEF Put, AppendWrite
<1>2. c \in Slot /\ c # Nul /\ Overflow \notin Rec /\ (NearlyFull => c = Overflow)
      <2>1. rec[t] \in Rec
            BY DEF DeliveryInv, RecordInv, Put, AppendWrite, TypeOK, PcOK, Threads
      <2>2. Nul \notin Rec /\ Nul # Overflow /\ Overflow \notin Rec
            OBVIOUS
      <2> QED
          BY <2>1, <2>2, RecIsSlot
<1> HIDE DEF c
<1>3. /\ TypeOK /\ Cursors /\ BlockLen \in Nat \ {0}
      /\ pos \in 0..BlockLen /\ len \in 0..BlockLen
      BY DEF DeliveryInv, RecordInv, DataInv, BlockInv, TypeOK, DataOK
<1>4. /\ AttachedTail /\ len' = len /\ pos' = pos + 1 /\ block'[pos + 1] = c
      /\ \A i \in 1..BlockLen : i # pos + 1 => block'[i] = block[i]
      BY <1>1, <1>2, <1>3, WriteLands
<1>5. c = Overflow
      BY <1>2, <1>3, <1>4, FourFifths DEF AttachedTail, NearlyFull
<1>6. ASSUME NEW i \in 1..(pos + 1) PROVE block'[i] \notin Rec
      <2>1. CASE i = pos + 1
            BY <1>2, <1>4, <1>5, <2>1
      <2>2. CASE i # pos + 1
            <3>1. i \in 1..pos /\ i \in 1..BlockLen
                  BY <1>3, <2>2
            <3> QED
                BY <1>1, <1>4, <2>2, <3>1 DEF OverTail
      <2> QED
          BY <2>1, <2>2
<1> QED
    BY <1>4, <1>6

LEMMA OverTailStep == ASSUME DeliveryInv, TypeOK', OverTail, Next PROVE OverTail'
<1>0. TypeOK /\ PlaceInv /\ DataInv
      BY DEF DeliveryInv, RecordInv
<1>1. ASSUME UNCHANGED <<block0, bytes>> PROVE OverTail'
      <2>1. block' = block /\ pos' = pos /\ len' = len /\ buff' = buff
            BY <1>1 DEF block, block0, bytes
      <2> QED
          BY <2>1 DEF OverTail
<1>2. ASSUME NEW t \in Clients, Put(t) PROVE OverTail'
      <2>1. CASE len = pos
            <3>1. len' = pos'
                  BY <1>0, <1>2, <2>1 DEF Put, AppendWrite, NewPos, NewLen, TypeOK, DataOK
            <3> QED
                BY <3>1 DEF OverTail
      <2>2. CASE len # pos
            <3>1. pos' = pos + 1 /\ \A i \in 1..(pos + 1) : block'[i] \notin Rec
                  BY <1>2, <2>2, OverPut
            <3> QED
                BY <3>1 DEF OverTail
      <2> QED
          BY <2>1, <2>2
<1>3. ASSUME NEW t \in Threads, Clear(t) PROVE OverTail'
      <2>1. len' = pos'
            BY <1>3 DEF Clear, FlushClear, OpenClear, ClearBlock
      <2> QED
          BY <2>1 DEF OverTail
<1>4. CASE OpenCall
      <2>1. pos' = 0
            BY <1>4 DEF OpenCall
      <2> QED
          BY <2>1 DEF OverTail
<1>5. CASE CloseFree \/ Die
      BY <1>5 DEF CloseFree, Die, OverTail
<1>6. ASSUME NEW t \in Clients, AppendSync(t) PROVE OverTail'
      BY <1>0, <1>1, <1>6, AppendSyncIs
<1>7. ASSUME NEW t \in Threads, Copy(t) PROVE OverTail'
      BY <1>0, <1>1, <1>7, CopyIs DEF DeliveryInv
<1>8. ASSUME NEW t \in Threads, NEW why \in Reasons, HandOn(t, why) PROVE OverTail'
      BY <1>1, <1>8 DEF HandOn
<1>9. CASE NoBytes
      BY <1>1, <1>9 DEF NoBytes
<1> QED
    BY <1>0, <1>2, <1>3, <1>4, <1>5, <1>6, <1>7, <1>8, <1>9, StepKinds DEF Ends

-----------------------------------------------------------------------------
(* What close has written back does not come back into the block.              *)

\* In a block that is attached once the flush of close is over there is nothing that
\* close promised, but what the flush of open is about to copy.
Out == \A r \in promised : r \in Live /\ fate[r] = "kept" => r \in Held \cup OnFile
PromisedOut == Drained => AttachedTail \/ Out

CloseInv == BlockThere /\ PromisedOld /\ OverTail /\ PromisedOut /\ CloseKeepsPromised

\* A step that adds nothing to the block and loses no copy.
LEMMA OutStays ==
    ASSUME DeliveryInv, Out, promised' = promised, Live' \subseteq Live \cup (Rec \ promised),
           \A r \in Rec : fate'[r] = "kept" /\ r \in promised => fate[r] = "kept",
           \A r \in Held \cup OnFile : fate'[r] = "kept" => r \in Held' \cup OnFile'
    PROVE  Out'
<1>1. promised \subseteq Rec
      BY DEF DeliveryInv, RecordInv, TypeOK, DataOK
<1> QED
    BY <1>1 DEF Out

LEMMA EmptyOut == ASSUME Live' = {} PROVE Out'
BY DEF Out

LEMMA PromisedOutStep ==
    ASSUME DeliveryInv, DeliveryInv', PromisedOld, OverTail, AttachedTail \/ Out,
           promised' = promised, Next
    PROVE  AttachedTail' \/ Out'
<1>0. TypeOK /\ TypeOK' /\ PlaceInv /\ DataInv /\ promised \subseteq Rec
      BY DEF DeliveryInv, RecordInv, TypeOK, DataOK
<1>1. CASE NoBytes
      <2>1. /\ AttachedTail' = AttachedTail /\ Live' = Live /\ fate' = fate
            /\ Held' = Held /\ OnFile' = OnFile
            BY <1>1, SameBlock, SameFiles DEF NoBytes
      <2> QED
          BY <2>1, OutStays
<1>2. ASSUME NEW t \in Threads, NEW why \in Reasons, HandOn(t, why) PROVE AttachedTail' \/ Out'
      <2>1. PICK taken, filed, given : Handed(taken, filed, given, why)
            BY <1>0, <1>2, HandOnIs
      <2>2. AttachedTail' = AttachedTail /\ Live' = Live
            BY <1>2, SameBlock DEF HandOn
      <2>3. \A r \in Rec : /\ fate'[r] = "kept" => fate[r] = "kept"
                           /\ fate'[r] = "kept" => r \notin given
            BY <2>1 DEF Handed, Mark, Reasons
      <2>4. Held \cup OnFile \subseteq Held' \cup OnFile' \cup given
            BY <2>1 DEF Handed, OnFile
      <2>5. Held \cup OnFile \subseteq Rec
            BY DEF Held, OnFile, In
      <2> QED
          BY <2>2, <2>3, <2>4, <2>5, OutStays
<1>3. ASSUME NEW t \in Threads, Copy(t) PROVE AttachedTail' \/ Out'
      <2>1. UNCHANGED <<block0, bytes, files, fate>> /\ Held' = Held \cup Live
            BY <1>0, <1>3, CopyIs DEF DeliveryInv
      <2>2. AttachedTail' = AttachedTail /\ Live' = Live /\ OnFile' = OnFile
            BY <2>1, SameBlock DEF OnFile, In, files
      <2> QED
          BY <2>1, <2>2, OutStays
<1>4. ASSUME NEW t \in Threads, Clear(t) PROVE Out'
      BY <1>0, <1>4, ClearIs, EmptyOut
<1>5. ASSUME NEW t \in Clients, AppendSync(t) PROVE AttachedTail' \/ Out'
      <2>1. /\ UNCHANGED <<block0, bytes, files>> /\ Held' = Held \cup {rec[t]}
                 /\ rec[t] \notin promised
            /\ fate' = [fate EXCEPT ![rec[t]] = "kept"]
            BY <1>0, <1>5, AppendSyncIs DEF PromisedOld
      <2>2. AttachedTail' = AttachedTail /\ Live' = Live /\ OnFile' = OnFile
            BY <2>1, SameBlock DEF OnFile, In, files
      <2>3. \A r \in Rec : r \in promised => fate'[r] = fate[r]
            BY <1>0, <2>1 DEF TypeOK, DataOK
      <2> QED
          BY <2>1, <2>2, <2>3, OutStays
<1>6. ASSUME NEW t \in Clients, Put(t) PROVE AttachedTail' \/ Out'
      <2>1. /\ Held' = Held /\ OnFile' = OnFile /\ fate' = AppendFate(t) /\ rec[t] \in Rec
            /\ rec[t] \notin promised /\ buff /\ buff' = buff
            BY <1>0, <1>6, PutBeside DEF PromisedOld, block0
      <2>2. \A r \in promised : fate'[r] = "kept" => fate[r] = "kept"
            BY <1>0, <2>1 DEF AppendFate
      <2>3. CASE len = pos
            <3>1. ~AttachedTail /\ Live' \subseteq Live \cup {rec[t]}
                  BY <1>0, <1>6, <2>3, PutIs DEF PutLast, PutOver
            <3> QED
                BY <2>1, <2>2, <3>1, OutStays
      <2>4. CASE len # pos
            <3>1. AttachedTail /\ len' = len /\ pos' = pos + 1
                    /\ \A i \in 1..(pos + 1) : block'[i] \notin Rec
                  BY <1>6, <2>4, OverPut
            <3>2. /\ pos \in Nat /\ BlockLen \in Nat /\ pos' \in 0..BlockLen
                  /\ len' \in 0..BlockLen /\ block' \in Block
                  BY <1>0 DEF TypeOK, DataOK, block
            <3>3. CASE pos + 1 < BlockLen
                  BY <3>1, <3>3 DEF AttachedTail
            <3>4. CASE pos + 1 = BlockLen
                  <4>1. \A i \in 1..len' : i \in 1..BlockLen
                        BY <3>2
                  <4>2. Live' \subseteq {block'[i] : i \in 1..BlockLen} \cap Rec
                        BY <1>0, <4>1, LiveIsNext
                  <4>3. Live' = {}
                        BY <3>1, <3>4, <4>2
                  <4> QED
                      BY <4>3, EmptyOut
            <3> QED
                BY <3>1, <3>2, <3>3, <3>4
      <2> QED
          BY <2>3, <2>4
<1>7. CASE OpenCall
      BY <1>0, <1>7, OpenCallIs
<1>8. CASE CloseFree \/ Die
      BY <1>0, <1>8, CloseFreeIs, DieIs, EmptyOut
<1> QED
    BY <1>0, <1>1, <1>2, <1>3, <1>4, <1>5, <1>6, <1>7, <1>8, StepKinds DEF Ends

\* Only the clear in open and the end of the buffer in close wipe a record, and they find
\* what was promised written back, or copied.
LEMMA NothingPromisedWiped ==
    ASSUME DeliveryInv, CloseInv, Next, promised' = promised \/ Die \/ CloseCall
    PROVE  CloseKeepsPromised'
<1>0. TypeOK /\ PlaceInv /\ DataInv /\ Opened /\ promised \subseteq Rec
      BY DEF DeliveryInv, RecordInv, TypeOK, DataOK
<1>1. ASSUME NEW rs, NEW f, Mark(rs, f), f # "wiped", promised' = promised PROVE CloseKeepsPromised'
      BY <1>0, <1>1 DEF Mark, CloseInv, CloseKeepsPromised
<1>2. ASSUME OpenClear \/ CloseFree PROVE CloseKeepsPromised'
      <2>1. Mark(Live \ (Held \cup OnFile), "wiped") /\ promised' = promised
            BY <1>2 DEF OpenClear, CloseFree, marks
      <2>2. Drained
            BY <1>0, <1>2 DEF OpenClear, CloseFree, Drained, WriteBack, Opened, Opening, PlaceInv,
                              OwnerBlock, Closing
      <2>3. Out
            <3>1. CASE ~AttachedTail
                  BY <2>2, <3>1 DEF CloseInv, PromisedOut
            <3>2. CASE OpenClear /\ AttachedTail
                  BY <1>0, <3>2 DEF OpenClear, DataInv, CopiedFirst, Copied, Out
            <3>3. CASE CloseFree /\ AttachedTail
                  <4>1. ~buff
                        <5>1. len # pos
                              BY <1>0, <3>3 DEF AttachedTail, TypeOK, DataOK
                        <5> QED
                            BY <1>0, <3>3, <5>1 DEF CloseFree, DataInv, BlockInv, Cursors
                  <4> QED
                      BY <4>1 DEF Out, Live
            <3> QED
                BY <1>2, <3>1, <3>2, <3>3
      <2> QED
          BY <1>0, <2>1, <2>3 DEF Out, Mark, CloseInv, CloseKeepsPromised
<1>3. CASE CloseCall
      BY <1>3 DEF CloseCall, CloseKeepsPromised
<1>4. CASE Die
      BY <1>4 DEF Die, CloseKeepsPromised
<1>5. ASSUME promised' = promised, fate' = fate PROVE CloseKeepsPromised'
      BY <1>5 DEF CloseInv, CloseKeepsPromised
<1>6. ASSUME NEW t \in Threads, NEW why \in Reasons, HandOn(t, why), promised' = promised
      PROVE  CloseKeepsPromised'
      <2>1. PICK taken, filed, given : Handed(taken, filed, given, why)
            BY <1>0, <1>6, HandOnIs
      <2> QED
          BY <1>1, <1>6, <2>1 DEF Handed, Reasons
<1>7. ASSUME NEW t \in Clients, AppendSync(t), promised' = promised PROVE CloseKeepsPromised'
      <2>1. fate' = [fate EXCEPT ![rec[t]] = "kept"]
            BY <1>0, <1>7, AppendSyncIs
      <2> QED
          BY <1>0, <1>7, <2>1 DEF CloseInv, CloseKeepsPromised, TypeOK, DataOK
<1>8. ASSUME NEW t \in Clients, Put(t), promised' = promised PROVE CloseKeepsPromised'
      <2>1. fate' = AppendFate(t)
            BY <1>0, <1>8, PutBeside
      <2> QED
          BY <1>0, <1>8, <2>1 DEF AppendFate, CloseInv, CloseKeepsPromised
<1>9. ASSUME NEW t \in Threads, Copy(t) \/ FlushClear(t), promised' = promised
    PROVE CloseKeepsPromised'
      BY <1>5, <1>9 DEF Copy, FlushCopy, OpenCopy, FlushClear, hist
<1>10. (NoBytes \/ OpenCall) /\ promised' = promised => CloseKeepsPromised'
       BY <1>5 DEF NoBytes, OpenCall, hist
<1> QED
    BY <1>0, <1>2, <1>3, <1>4, <1>6, <1>7, <1>8, <1>9, <1>10, StepKinds DEF Clear, Ends

\* All of it together.
LEMMA CloseInit == Init => CloseInv
<1> SUFFICES ASSUME Init PROVE CloseInv
    OBVIOUS
<1>1. close /\ ~buff /\ promised = {} /\ pc[Owner] = "idle"
      BY DEF Init, Threads
<1> QED
    BY <1>1 DEF CloseInv, BlockThere, WriteBack, PromisedOld, OverTail, PromisedOut, Out,
                CloseKeepsPromised

LEMMA CloseStep ==
    ASSUME UseShareThread, DeliveryInv, DeliveryInv', CloseInv, Next PROVE CloseInv'
<1>0. TypeOK /\ TypeOK' /\ PlaceInv /\ Opened
      BY DEF DeliveryInv, RecordInv
<1>1. /\ BlockThere'
      /\ Drained' => Drained \/ FlushClear(Owner) \/ Die
      /\ promised' = promised \/ Die \/ CloseCall
      BY <1>0, OwnerMoves DEF CloseInv
<1>2. PromisedOld' /\ OverTail' /\ CloseKeepsPromised'
      BY <1>0, <1>1, PromisedOldStep, OverTailStep, NothingPromisedWiped DEF CloseInv
<1>3. PromisedOut'
      <2>1. CASE FlushClear(Owner)
            <3>1. Live' = {}
                  BY <1>0, <2>1, ClearIs DEF Clear, Threads
            <3> QED
                BY <3>1, EmptyOut DEF PromisedOut
      <2>2. CASE Die
            BY <1>0, <2>2, DieIs, EmptyOut DEF PromisedOut
      <2>3. CASE CloseCall
            <3>1. ~Drained'
                  BY <1>0, <2>3 DEF CloseCall, Goto, Drained, WriteBack, TypeOK, PcOK, Threads
            <3> QED
                BY <3>1 DEF PromisedOut
      <2>4. CASE Drained /\ promised' = promised
            BY <2>4, PromisedOutStep DEF CloseInv, PromisedOut
      <2> QED
          BY <1>1, <2>1, <2>2, <2>3, <2>4 DEF PromisedOut
<1> QED
    BY <1>1, <1>2, <1>3 DEF CloseInv

\* close of an appender of the shared thread writes back what was appended before it: for
\* every number of clients that go on appending and flushing, any block and any bounds,
\* with crashes and failing files, no record whose append had returned when close was
\* called is wiped with the block, by this close or by the open after it.
THEOREM CloseWritesBack == UseShareThread => (Spec => []CloseKeepsPromised)
<1> SUFFICES ASSUME UseShareThread PROVE Spec => []CloseKeepsPromised
    OBVIOUS
<1>1. CloseInv => CloseKeepsPromised
      BY DEF CloseInv
<1>2. DeliveryInv /\ DeliveryInv' /\ CloseInv /\ [Next]_vars => CloseInv'
      <2> SUFFICES ASSUME DeliveryInv, DeliveryInv', CloseInv, [Next]_vars PROVE CloseInv'
          OBVIOUS
      <2>1. CASE Next
            BY <2>1, CloseStep
      <2>2. CASE UNCHANGED vars
            <3>1. /\ UNCHANGED <<pc, rec, close, block0, bytes, next, fate, promised, tmp, files>>
                  BY <2>2 DEF vars, allButPc, hist, marks, bounds
            <3>2. /\ block' = block /\ Live' = Live /\ AttachedTail' = AttachedTail
                  /\ Held' = Held /\ OnFile' = OnFile
                  BY <3>1, SameBlock, SameFiles DEF block, block0, bytes
            <3>3. BlockThere' /\ Drained' = Drained /\ PromisedOld' /\ OverTail'
                  BY <3>1, <3>2 DEF block0, bytes, CloseInv, BlockThere, Drained, PromisedOld,
                         OverTail
            <3>4. PromisedOut' /\ CloseKeepsPromised'
                  BY <3>1, <3>2, <3>3 DEF CloseInv, PromisedOut, Out, CloseKeepsPromised
            <3> QED
                BY <3>3, <3>4 DEF CloseInv
      <2> QED
          BY <2>1, <2>2
<1> QED
    BY <1>1, <1>2, CloseInit, OnceHolds, PTL DEF Spec

-----------------------------------------------------------------------------
(* Order, on an appender with a thread of its own: OrderKept is about what one *)
(* client appends to an appender that nobody kills and that finds nothing of   *)
(* an earlier process in the mapped file. (A setmode can start the own thread  *)
(* behind the back of close, sync appends overtake what is in the block, and   *)
(* what open finds in the file it writes beside the thread it has started.)    *)

OneOwnClient ==
    /\ OwnKind /\ AlwaysAsync /\ ~CanCrash /\ LeftOver \subseteq {0}
    /\ \A c, d \in Clients : c = d

\* The records of a row are in the order of their calls,
Rising(s) == \A i, j \in DOMAIN s : i < j /\ {s[i], s[j]} \subseteq Rec => s[i] < s[j]

\* and those of one place were appended before those of another.
Before(Q, R) == \A q \in Q, r \in R : q < r

\* A row without records is in order,
LEMMA RisingNone == ASSUME NEW s, In(s) = {} PROVE Rising(s)
BY DEF Rising, In

\* and two rows in order, one before the other, are joined to one in order.
LEMMA RisingJoined ==
    ASSUME NEW s \in Seq(Slot), NEW u \in Seq(Slot)
    PROVE  Rising(s \o u) <=> Rising(s) /\ Rising(u) /\ Before(In(s), In(u))
<1> DEFINE su == s \o u
<1>1. /\ DOMAIN su = 1..(Len(s) + Len(u)) /\ DOMAIN s = 1..Len(s) /\ DOMAIN u = 1..Len(u)
      /\ \A i \in 1..Len(s) : su[i] = s[i]
      /\ \A i \in 1..Len(u) : su[Len(s) + i] = u[i]
      /\ Len(s) \in Nat /\ Len(u) \in Nat
      OBVIOUS
<1> HIDE DEF su
<1>2. ASSUME Rising(su) PROVE Rising(s) /\ Rising(u) /\ Before(In(s), In(u))
      <2>1. Rising(s)
            BY <1>1, <1>2 DEF Rising
      <2>2. ASSUME NEW i \in 1..Len(u), NEW j \in 1..Len(u), i < j, {u[i], u[j]} \subseteq Rec
            PROVE  u[i] < u[j]
            <3>1. /\ Len(s) + i \in DOMAIN su /\ Len(s) + j \in DOMAIN su
                  /\ Len(s) + i < Len(s) + j
                  BY <1>1, <2>2
            <3>2. su[Len(s) + i] = u[i] /\ su[Len(s) + j] = u[j]
                  BY <1>1
            <3> QED
                BY <1>2, <2>2, <3>1, <3>2 DEF Rising
      <2>3. ASSUME NEW q \in In(s), NEW r \in In(u) PROVE q < r
            <3>1. PICK i \in 1..Len(s) : s[i] = q
                  BY <1>1 DEF In
            <3>2. PICK j \in 1..Len(u) : u[j] = r
                  BY <1>1 DEF In
            <3>3. i \in DOMAIN su /\ Len(s) + j \in DOMAIN su /\ i < Len(s) + j
                  BY <1>1
            <3>4. su[i] = q /\ su[Len(s) + j] = r /\ q \in Rec /\ r \in Rec
                  BY <1>1, <3>1, <3>2 DEF In
            <3> QED
                BY <1>2, <3>3, <3>4 DEF Rising
      <2>4. Rising(u)
            BY <1>1, <2>2 DEF Rising
      <2> QED
          BY <2>1, <2>3, <2>4 DEF Before
<1>3. ASSUME Rising(s), Rising(u), Before(In(s), In(u)) PROVE Rising(su)
      <2> SUFFICES ASSUME NEW i \in DOMAIN su, NEW j \in DOMAIN su, i < j,
                          su[i] \in Rec, su[j] \in Rec
                   PROVE  su[i] < su[j]
          BY DEF Rising
      <2>1. CASE j <= Len(s)
            <3>1. i \in DOMAIN s /\ j \in DOMAIN s /\ su[i] = s[i] /\ su[j] = s[j]
                  BY <1>1, <2>1
            <3> QED
                BY <1>3, <3>1 DEF Rising
      <2>2. CASE i > Len(s)
            <3>1. i - Len(s) \in 1..Len(u) /\ j - Len(s) \in 1..Len(u)
                  BY <1>1, <2>2
            <3>2. /\ su[Len(s) + (i - Len(s))] = u[i - Len(s)]
                  /\ su[Len(s) + (j - Len(s))] = u[j - Len(s)]
                  BY <1>1, <3>1
            <3>3. Len(s) + (i - Len(s)) = i /\ Len(s) + (j - Len(s)) = j
                    /\ i - Len(s) < j - Len(s)
                  BY <1>1
            <3>4. su[i] = u[i - Len(s)] /\ su[j] = u[j - Len(s)]
                  BY <3>2, <3>3
            <3> QED
                BY <1>1, <1>3, <3>1, <3>3, <3>4 DEF Rising
      <2>3. CASE i <= Len(s) /\ j > Len(s)
            <3>1. i \in DOMAIN s /\ su[i] = s[i] /\ j - Len(s) \in DOMAIN u
                  BY <1>1, <2>3
            <3>2. su[Len(s) + (j - Len(s))] = u[j - Len(s)] /\ Len(s) + (j - Len(s)) = j
                  BY <1>1, <3>1
            <3>3. su[i] \in In(s) /\ su[j] \in In(u)
                  BY <3>1, <3>2 DEF In
            <3> QED
                BY <1>3, <3>3 DEF Before
      <2> QED
          BY <1>1, <2>1, <2>2, <2>3
<1> QED
    BY <1>2, <1>3 DEF su

\* The part of a row in order is in order, wherever it goes behind what was before it.
LEMMA PassedInOrder ==
    ASSUME NEW d \in Seq(Slot), NEW f \in Seq(Slot), NEW s \in Seq(Slot),
           NEW a \in Seq(Slot), NEW b \in Seq(Slot), NEW c \in Seq(Slot),
           (a \o b) \o c = f \o s,
           Rising(d \o f), Rising(s), Before(In(d) \cup In(f), In(s))
    PROVE  Rising((d \o a) \o b)
<1>1. Rising(d) /\ Rising(f) /\ Before(In(d), In(f))
      BY RisingJoined
<1>2. Rising(f \o s)
      BY <1>1, RisingJoined DEF Before
<1>3. Rising(a) /\ Rising(b) /\ Before(In(a), In(b))
      <2>1. a \o b \in Seq(Slot) /\ Rising((a \o b) \o c)
            BY <1>2
      <2>2. Rising(a \o b)
            BY <2>1, RisingJoined
      <2> QED
          BY <2>2, RisingJoined
<1>4. In(a) \cup In(b) \subseteq In(f) \cup In(s)
      <2>1. a \o b \in Seq(Slot)
            OBVIOUS
      <2>2. In((a \o b) \o c) = In(a) \cup In(b) \cup In(c)
            BY <2>1, InJoined
      <2>3. In(f \o s) = In(f) \cup In(s)
            BY InJoined
      <2> QED
          BY <2>2, <2>3
<1>5. Before(In(d), In(a)) /\ Before(In(d) \cup In(a), In(b))
      BY <1>1, <1>3, <1>4 DEF Before
<1>6. d \o a \in Seq(Slot) /\ In(d \o a) = In(d) \cup In(a) /\ Rising(d \o a)
      BY <1>1, <1>3, <1>5, InJoined, RisingJoined
<1>7. Before(In(d \o a), In(b))
      BY <1>5, <1>6
<1> DEFINE da == d \o a
<1>8. da \in Seq(Slot) /\ Rising(da) /\ Before(In(da), In(b))
      BY <1>6, <1>7
<1> HIDE DEF da
<1>9. Rising(da \o b)
      BY <1>3, <1>8, RisingJoined
<1> QED
    BY <1>9 DEF da

\* What is passed on behind the log file in order leaves the log file in order.
LEMMA PassesInOrder ==
    ASSUME TypeOK, NEW s \in Seq(Slot), NEW why, Passes(s, why), Rising(disk \o stdio), Rising(s),
           Before(OnFile, In(s))
    PROVE  Rising(disk' \o stdio') /\ OnFile' \subseteq OnFile \cup In(s)
<1>0. stdio \in Seq(Slot) /\ disk \in Seq(Slot)
      BY DEF TypeOK, DataOK
<1>1. PICK a, b, c \in Seq(Slot) :
          (a \o b) \o c = stdio \o s /\ disk' = disk \o a /\ stdio' = b
      BY DEF Passes
<1>2. Before(In(disk) \cup In(stdio), In(s))
      BY DEF OnFile, Before
<1>3. Rising((disk \o a) \o b)
      BY <1>0, <1>1, <1>2, PassedInOrder
<1>4. PICK x, z : /\ In(disk') = In(disk) \cup x
                  /\ x \cup In(stdio') \cup z = In(stdio) \cup In(s)
      BY PassesIn
<1>5. OnFile' = In(disk') \cup In(stdio')
      BY DEF OnFile, In
<1> QED
    BY <1>1, <1>3, <1>4, <1>5 DEF OnFile

-----------------------------------------------------------------------------
(* Who moves when.                                                             *)

\* While the appender is closed, and close is past its join, the own thread is gone.
Gone == close /\ pc[Owner] \notin {"CloseNotify", "CloseJoin"} => pc[Worker] = "exited"

\* Nobody takes a number while an append has not written.
Latest == \A c \in Clients : pc[c] \in BeforeWrite => rec[c] + 1 = next

\* Where open flushes.
Attaching == {"OpenCopy", "OpenClear"}

\* A step keeps it, begins a flush of open only in a call of open, and forgets no lap.
LEMMA GoneStep ==
    ASSUME OwnKind, FlushInv, PlaceInv, Gone, Next, NoNullFlush, ~CanCrash
    PROVE  /\ Gone'
           /\ pc'[Owner] \in Attaching => OpenCall \/ pc[Owner] \in Attaching
           /\ lapped => lapped'
<1> USE DEF OwnKind, FlushInv, OwnerPlaces, Gone, Attaching, TypeOK, PcOK, DataOK, Threads, Goto,
            marks, hist, allButPc
<1> DEFINE P == /\ Gone'
                /\ pc'[Owner] \in Attaching => OpenCall \/ pc[Owner] \in Attaching
                /\ lapped => lapped'
<1>1. ASSUME NEW t \in Clients, ClientStep(t) PROVE P
      <2>1. UNCHANGED <<close, lapped>>
            BY <1>1 DEF ClientStep, AppendCall, SetMode, Flush, FlushSyncCall, Step,
                        AppendMode, AppendNotify, AppendWrite, FlushSyncLock
      <2>2. pc'[Owner] = pc[Owner] /\ (pc[Worker] = "exited" => pc'[Worker] = "exited")
            BY <1>1 DEF ClientStep, AppendCall, SetMode, Flush, FlushSyncCall, Step,
                        AppendMode, AppendNotify, AppendWrite, FlushSyncLock, WakeAndGoto, Notified
      <2> QED
          BY <2>1, <2>2
<1>2. ASSUME NEW t \in Threads, TaskStep(t) PROVE P
      <2>1. close' = close /\ (lapped => lapped')
            BY <1>2 DEF TaskStep, TaskCheck, TaskLock, FlushCopy, FlushClear, NoLogDir,
                        FileLock, FileWrite, FileFailed, FileDone, Step
      <2>2. t # Owner => pc'[Owner] = pc[Owner]
            BY <1>2 DEF TaskStep, TaskCheck, TaskLock, FlushCopy, FlushClear, NoLogDir,
                        FileLock, FileWrite, FileFailed, FileDone, Step
      <2>3. pc[Worker] = "exited" => pc'[Worker] = "exited"
            BY <1>2 DEF TaskStep, TaskCheck, TaskLock, FlushCopy, FlushClear, NoLogDir,
                        FileLock, FileWrite, FileFailed, FileDone, Step
      <2>4. CASE t = Owner
            <3>1. ~close /\ pc'[Owner] \notin Attaching
                  BY <1>2, <2>4 DEF TaskStep, TaskCheck, TaskLock, FlushCopy, FlushClear, NoLogDir,
                                    FileLock, FileWrite, FileFailed, FileDone, Step, After
            <3> QED
                BY <2>1, <3>1
      <2> QED
          BY <2>1, <2>2, <2>3, <2>4
<1>3. ASSUME WorkerStep PROVE P
      <2>1. UNCHANGED <<close, lapped>> /\ pc'[Owner] = pc[Owner] /\ pc[Worker] # "exited"
            BY <1>3 DEF WorkerStep, OwnCheck, OwnClosed, Scan, BeforeWait, Timeout, Step
      <2> QED
          BY <2>1
<1>4. ASSUME OwnerStep PROVE P
      <2>1. CASE OpenCall BY <2>1 DEF OpenCall
      <2>2. CASE OpenCopy \/ OpenClear BY <2>2 DEF OpenCopy, OpenClear
      <2>3. CASE OpenPublish BY <2>3 DEF OpenPublish
      <2>4. CASE OpenSetMode
            BY <2>4 DEF OpenSetMode, SetModeEffect, WakeAndGoto, PlaceInv, OwnerBlock
      <2>5. CASE CloseCall BY <2>5 DEF CloseCall
      <2>6. CASE CloseNotify BY <2>6 DEF CloseNotify, WakeAndGoto, Notified, Drainer, Running
      <2>7. CASE CloseJoin BY <2>7 DEF CloseJoin, Step, Running
      <2>8. CASE CloseFree BY <2>8 DEF CloseFree
      <2>9. CASE CloseLog BY <2>9 DEF CloseLog
      <2> QED
          BY <1>4, <2>1, <2>2, <2>3, <2>4, <2>5, <2>6, <2>7, <2>8, <2>9 DEF OwnerStep
<1> QED
    BY <1>1, <1>2, <1>3, <1>4, StepOf DEF Ends

\* The next call of append begins only when this one has written.
LEMMA LatestStep ==
    ASSUME \A c, d \in Clients : c = d, TypeOK, Latest, Next PROVE Latest'
<1>1. ASSUME NEW t \in Clients, AppendCall(t) PROVE Latest'
      <2>1. next' = next + 1 /\ rec'[t] = next
            BY <1>1 DEF AppendCall, TypeOK, PcOK, Threads
      <2> QED
          BY <2>1 DEF Latest
<1>2. ASSUME next' = next, \A c \in Clients : pc'[c] \in BeforeWrite =>
                               pc[c] \in BeforeWrite /\ rec'[c] = rec[c]
      PROVE  Latest'
      BY <1>2 DEF Latest
<1> QED
    BY <1>1, <1>2, RecMoves

-----------------------------------------------------------------------------
(* What open finds.                                                            *)

\* close blanks the mapped file before it unmaps it, so that a file that is not mapped has
\* no record,
NoneLeft == ~mapped => In(mfile) = {}

\* and while open flushes what it has attached there is none in the block: the append of a
\* client that was late for close finds the block full, and the client can do nothing else.
AttachedEmpty == pc[Owner] \in Attaching =>
    /\ In(block) = {}
    /\ len = BlockLen \/ \A c \in Clients : pc[c] \notin BeforeWrite

\* So open has no record in hand.
OwnerNone == In(tmp[Owner]) = {}

Apt == Gone /\ Latest /\ NoneLeft /\ AttachedEmpty /\ OwnerNone

\* A late append to the block that open has attached leaves a message there.
LEMMA PutAttached ==
    ASSUME OneOwnClient, TypeOK, TypeOK', DataInv, AttachedEmpty, NEW t \in Clients, Put(t),
           pc[Owner] \in Attaching
    PROVE  In(block)' = {} /\ \A c \in Clients : pc'[c] \notin BeforeWrite
<1>1. pc[t] \in BeforeWrite /\ pc'[t] = "AppendNotify"
      BY DEF Put, AppendWrite, Goto, BeforeWrite, TypeOK, PcOK, Threads
<1>2. \A c \in Clients : c = t
      BY DEF OneOwnClient
<1>3. len = BlockLen /\ In(block) = {}
      BY <1>1 DEF AttachedEmpty
<1>4. NearlyFull
      BY <1>3, FourFifths DEF NearlyFull
<1>5. /\ SetBlock(Written(Overflow)) /\ pos' = NewPos /\ len' = NewLen /\ UNCHANGED block0 /\ buff
      BY <1>4 DEF Put, AppendWrite
<1>6. Overflow \in Slot /\ Overflow # Nul /\ Overflow \notin Rec /\ Nul \notin Rec
      BY RecIsSlot
<1>7. block' = Written(Overflow)
      BY <1>5, <1>6, WriteLands DEF DataInv, BlockInv
<1>8. block \in Block /\ block' \in Block
      BY DEF TypeOK, DataOK, block
<1>9. \A i \in 1..BlockLen : block'[i] \in {Overflow, Nul, block[i]}
      BY <1>7 DEF Written
<1>10. \A i \in 1..BlockLen : block[i] \notin Rec
       BY <1>3, <1>8, InSlots
<1>11. In(block') = {}
       BY <1>6, <1>8, <1>9, <1>10, InSlots
<1> QED
    BY <1>1, <1>2, <1>11 DEF In, BeforeWrite

\* The clear of a flush puts no record anywhere.
LEMMA ClearAttached ==
    ASSUME TypeOK, TypeOK', NEW t \in Threads, Clear(t), In(block) = {} PROVE In(block)' = {}
<1>1. block' = [block EXCEPT ![1] = Nul] /\ block \in Block /\ block' \in Block
      BY DEF Clear, FlushClear, OpenClear, ClearBlock, SetBlock, block, block0, TypeOK, DataOK
<1>2. \A i \in 1..BlockLen : block'[i] \in {Nul, block[i]}
      BY <1>1 DEF Block
<1>3. \A i \in 1..BlockLen : block[i] \notin Rec
      BY <1>1, InSlots
<1>4. Nul \notin Rec
      OBVIOUS
<1>5. \A i \in 1..BlockLen : block'[i] \notin Rec
      BY <1>2, <1>3, <1>4
<1>6. In(block') = {}
      <2>1. block' \in Block
            BY <1>1
      <2> QED
          BY ONLY <1>5, <2>1, InSlots
<1> QED
    BY <1>6 DEF In

\* Every step leaves it so,
LEMMA AttachedStep ==
    ASSUME OneOwnClient, DeliveryInv, TypeOK', FlushInv, mode = "async", Apt, Next
    PROVE  NoneLeft' /\ AttachedEmpty'
<1>0. /\ TypeOK /\ PlaceInv /\ DataInv /\ Opened /\ NoNullFlush /\ ~CanCrash /\ OwnKind
      /\ Gone /\ NoneLeft /\ AttachedEmpty
      BY DEF DeliveryInv, RecordInv, FlushInv, OneOwnClient, Apt
<1>1. ASSUME pc'[Owner] \in Attaching, ~OpenCall
      PROVE  /\ pc[Owner] \in Attaching /\ In(block) = {} /\ pc[Worker] = "exited"
             /\ len = BlockLen \/ \A c \in Clients : pc'[c] \notin BeforeWrite
      <2>1. pc[Owner] \in Attaching
            BY <1>0, <1>1, GoneStep
      <2>2. close
            BY <1>0, <2>1 DEF Opened, Opening, Attaching
      <2>3. pc[Worker] = "exited"
            BY <1>0, <2>1, <2>2 DEF Gone, Attaching
      <2>4. \A t \in Clients : ~AppendCall(t)
            BY <2>2 DEF AppendCall
      <2>5. \A c \in Clients : pc'[c] \in BeforeWrite => pc[c] \in BeforeWrite
            BY <1>0, <2>4, RecMoves
      <2> QED
          BY <1>0, <2>1, <2>3, <2>5 DEF AttachedEmpty
<1>2. ASSUME UNCHANGED <<block0, bytes>>, ~OpenCall PROVE NoneLeft' /\ AttachedEmpty'
      <2>1. In(block)' = In(block) /\ len' = len /\ mapped' = mapped /\ In(mfile)' = In(mfile)
            BY <1>2 DEF block, block0, bytes, In
      <2> QED
          BY <1>0, <1>1, <1>2, <2>1 DEF NoneLeft, AttachedEmpty
<1>3. ASSUME NEW t \in Clients, Put(t) PROVE NoneLeft' /\ AttachedEmpty'
      <2>1. PutBlock(t) /\ mapped' = mapped
            BY <1>0, <1>3, PutIs, PutBeside DEF block0
      <2>2. NoneLeft'
            BY <1>0, <2>1 DEF NoneLeft, PutBlock, In
      <2>3. opens' = opens
            BY <1>0, <1>3, PutBeside
      <2>4. ~OpenCall
            BY <1>0, <2>3 DEF OpenCall, TypeOK, DataOK
      <2> QED
          BY <1>0, <1>1, <1>3, <2>2, <2>4, PutAttached DEF AttachedEmpty
<1>4. ASSUME NEW t \in Threads, Clear(t) PROVE NoneLeft' /\ AttachedEmpty'
      <2>1. mapped' = mapped /\ (~mapped => mfile' = mfile) /\ opens' = opens
            BY <1>0, <1>4, ClearIs DEF block0
      <2>2. NoneLeft'
            BY <1>0, <2>1 DEF NoneLeft, In
      <2>3. ~OpenCall
            BY <1>0, <2>1 DEF OpenCall, TypeOK, DataOK
      <2>4. ASSUME pc'[Owner] \in Attaching
            PROVE  In(block)' = {} /\ \A c \in Clients : pc'[c] \notin BeforeWrite
            <3>1. pc[Owner] \in Attaching /\ In(block) = {} /\ pc[Worker] = "exited"
                  BY <1>1, <2>3, <2>4
            <3>2. t # Worker
                  BY <1>4, <3>1 DEF Clear, FlushClear, Threads
            <3>3. t # Owner
                  BY <1>0, <1>4, <2>4, <3>1 DEF Clear, FlushClear, OpenClear, Attaching, Goto,
                                                TypeOK, PcOK, Threads
            <3>4. t \in Clients
                  BY <3>2, <3>3 DEF Threads
            <3>5. pc'[t] \notin BeforeWrite
                  BY <1>0, <1>4, <3>2, <3>3 DEF Clear, FlushClear, OpenClear, Goto, After,
                                                BeforeWrite, TypeOK, PcOK
            <3> QED
                BY <1>0, <1>4, <3>1, <3>4, <3>5, ClearAttached DEF OneOwnClient
      <2> QED
          BY <2>2, <2>4 DEF AttachedEmpty
<1>5. CASE OpenCall
      <2>1. /\ ~mapped /\ AttachedTail' /\ In(mfile)' = In(mfile)
            /\ ~mapped' => In(heap)' = {}
            BY <1>0, <1>5, OpenCallIs
      <2>2. In(mfile)' = {}
            BY <1>0, <2>1 DEF NoneLeft
      <2>3. In(block)' = {}
            BY <2>1, <2>2 DEF block, In
      <2> QED
          BY <2>1, <2>2, <2>3 DEF NoneLeft, AttachedEmpty, AttachedTail
<1>6. CASE CloseFree
      <2>1. In(mfile)' = {}
            BY <1>0, <1>6, CloseFreeIs DEF NoneLeft, In
      <2>2. pc'[Owner] = "CloseLog"
            BY <1>0, <1>6 DEF CloseFree, Goto, TypeOK, PcOK, Threads
      <2> QED
          BY <2>1, <2>2 DEF NoneLeft, AttachedEmpty, Attaching
<1>7. ASSUME NEW t \in Threads, (\E why \in Reasons : HandOn(t, why)) \/ Copy(t), ~OpenCall
      PROVE  NoneLeft' /\ AttachedEmpty'
      BY <1>0, <1>2, <1>7, CopyIs DEF HandOn
<1>8. CASE NoBytes /\ ~OpenCall
      BY <1>2, <1>8 DEF NoBytes
<1>9. \A t \in Clients : ~AppendSync(t)
      BY DEF AppendSync
<1> QED
    BY <1>0, <1>3, <1>4, <1>5, <1>6, <1>7, <1>8, <1>9, StepKinds DEF Ends

\* and the owner without a record in hand.
LEMMA OwnerNoneStep ==
    ASSUME OneOwnClient, DeliveryInv, FlushInv, mode = "async", Apt, Next PROVE OwnerNone'
<1>0. TypeOK /\ PlaceInv /\ Opened /\ OwnerNone /\ NoNullFlush /\ ~CanCrash /\ Owner \in Threads
      BY DEF DeliveryInv, RecordInv, FlushInv, OneOwnClient, Apt, Threads
<1>1. tmp \in [Threads -> Seq(Slot)]
      BY <1>0 DEF TypeOK, DataOK
<1>2. tmp' = tmp \/ tmp'[Owner] = << >> => OwnerNone'
      BY <1>0, InNone DEF OwnerNone, In
<1>3. ASSUME NEW t \in Threads, t # Owner \/ t \notin Threads, NEW s, tmp' = [tmp EXCEPT ![t] = s]
      PROVE  OwnerNone'
      <2>1. tmp'[Owner] = tmp[Owner]
            BY <1>0, <1>1, <1>3
      <2> QED
          BY <1>0, <2>1 DEF OwnerNone, In
<1>4. ASSUME NEW t \in Threads, NEW why \in Reasons, HandOn(t, why) PROVE OwnerNone'
      <2>1. CASE t = Owner
            BY <1>0, <1>1, <1>2, <1>4, <2>1 DEF HandOn
      <2>2. CASE t # Owner
            BY <1>2, <1>3, <1>4, <2>2 DEF HandOn
      <2> QED
          BY <2>1, <2>2
<1>5. ASSUME NEW t \in Threads, Copy(t) PROVE OwnerNone'
      <2>1. tmp' = [tmp EXCEPT ![t] = Flushed] /\ In(Flushed) = Live
            BY <1>0, <1>5, CopyIs
      <2>2. CASE t = Owner
            <3>1. pc[Owner] \in Attaching
                  BY <1>5, <2>2 DEF Copy, FlushCopy, OpenCopy, Attaching, FlushInv, OwnerPlaces
            <3>2. Live = {}
                  BY <1>0, <3>1, LiveInBlock DEF Apt, AttachedEmpty
            <3>3. tmp'[Owner] = Flushed
                  BY <1>0, <1>1, <2>1, <2>2
            <3> QED
                BY <2>1, <3>2, <3>3 DEF OwnerNone, In
      <2>3. CASE t # Owner
            BY <1>3, <2>1, <2>3
      <2> QED
          BY <2>2, <2>3
<1>6. ASSUME NEW t \in Threads, Clear(t) PROVE OwnerNone'
      BY <1>2, <1>6 DEF Clear, FlushClear, OpenClear
<1>7. ASSUME NEW t \in Clients, Put(t) PROVE OwnerNone'
      BY <1>2, <1>7 DEF Put, AppendWrite
<1>8. CASE NoBytes \/ OpenCall \/ CloseFree
      BY <1>2, <1>8 DEF NoBytes, OpenCall, CloseFree
<1>9. \A t \in Clients : ~AppendSync(t)
      BY DEF AppendSync
<1> QED
    BY <1>0, <1>4, <1>5, <1>6, <1>7, <1>8, <1>9, StepKinds DEF Ends

-----------------------------------------------------------------------------
(* The way of the records: in the block, in the copy of whoever flushes it, in *)
(* the log file, the older ones ahead of the younger ones.                     *)

LogFirst ==
    /\ Rising(disk \o stdio)
    /\ \A t \in Threads : Rising(tmp[t]) /\ Before(OnFile, In(tmp[t]))

OneCarries == \A t, u \in Threads : In(tmp[t]) # {} /\ In(tmp[u]) # {} => t = u

BlockLast ==
    /\ buff => Rising(Flushed)
    /\ Before(OnFile, Live)
    /\ \A t \in Settled : Before(In(tmp[t]), Live)

Queue == LogFirst /\ OneCarries /\ BlockLast

\* An append that has not written has the youngest record there is.
LEMMA Youngest ==
    ASSUME OneOwnClient, DeliveryInv, Latest, NEW c \in Clients, pc[c] \in BeforeWrite
    PROVE  \A r \in Stored : r \in Rec => r < rec[c]
<1>1. /\ rec[c] + 1 = next /\ fate[rec[c]] = "none" /\ rec[c] \in Rec
      BY DEF Latest, DeliveryInv, RecordInv, Numbers, TypeOK, PcOK, BeforeWrite, Threads
<1>2. ASSUME NEW r \in Stored, r \in Rec PROVE r < rec[c]
      <2>1. fate[r] # "none" /\ rec[c] \notin Stored
            BY <1>1, <1>2 DEF DeliveryInv, FateInv, Fresh
      <2>2. r < next /\ r # rec[c] /\ r \in Nat /\ rec[c] \in Nat
            BY <1>1, <1>2, <2>1 DEF DeliveryInv, RecordInv, Numbers, TypeOK, DataOK, Rec
      <2> QED
          BY <1>1, <2>2
<1> QED
    BY <1>2

\* A block without records is behind everything.
LEMMA EmptyLast == ASSUME Live' = {} PROVE BlockLast'
<1>1. buff' => In(Flushed)' = {}
      BY DEF Live
<1>2. buff' => Rising(Flushed)'
      BY <1>1, RisingNone DEF In, Rising
<1> QED
    BY <1>2 DEF BlockLast, Before

\* A step that leaves the bytes of the threads and files alone leaves their order alone.
LEMMA SameQueue ==
    ASSUME UNCHANGED <<tmp, files>> PROVE (LogFirst => LogFirst') /\ (OneCarries => OneCarries')
<1>1. disk' = disk /\ stdio' = stdio /\ tmp' = tmp /\ OnFile' = OnFile
      BY SameFiles DEF files
<1> QED
    BY <1>1 DEF LogFirst, OneCarries, Rising, Before, In

\* __log2file moves the records that a thread carries to the end of the log file,
LEMMA HandOnOrder ==
    ASSUME TypeOK, Queue, NEW t \in Threads, NEW why \in Reasons, HandOn(t, why) PROVE Queue'
<1>0. tmp \in [Threads -> Seq(Slot)] /\ << >> \in Seq(Slot) /\ tmp[t] \in Seq(Slot)
      BY DEF TypeOK, DataOK
<1>1. /\ UNCHANGED <<block0, bytes>> /\ Live' = Live /\ Flushed' = Flushed /\ buff' = buff
      /\ Settled' = Settled /\ t \in Settled /\ Settled \subseteq Threads
      BY SameBlock DEF HandOn, block0, Settled
<1>2. ASSUME NEW s \in Seq(Slot), Passes(s, why), s = << >> \/ s = tmp[t],
             \A u \in Threads : tmp'[u] = tmp[u] \/ tmp'[u] = << >>,
             s = tmp[t] => tmp'[t] = << >>
      PROVE  Queue'
      <2>1. Rising(s) /\ Before(OnFile, In(s)) /\ Before(In(s), Live)
            <3>1. CASE s = << >>
                  BY <3>1, InNone, RisingNone DEF Before
            <3>2. CASE s = tmp[t]
                  BY <1>1, <3>2 DEF Queue, LogFirst, BlockLast
            <3> QED
                BY <1>2, <3>1, <3>2
      <2>2. Rising(disk' \o stdio') /\ OnFile' \subseteq OnFile \cup In(s)
            BY <1>2, <2>1, PassesInOrder DEF Queue, LogFirst
      <2>3. ASSUME NEW u \in Threads
            PROVE  /\ Rising(tmp'[u]) /\ Before(OnFile', In(tmp'[u]))
                   /\ In(tmp'[u]) \subseteq In(tmp[u])
            <3>1. CASE tmp'[u] = << >>
                  BY <3>1, InNone, RisingNone DEF Before
            <3>2. CASE tmp'[u] = tmp[u] /\ tmp[u] # << >>
                  <4>1. In(s) = {} \/ In(tmp[u]) = {}
                        BY <1>2, <3>2, InNone DEF Queue, OneCarries
                  <4> QED
                      BY <2>2, <3>2, <4>1 DEF Queue, LogFirst, Before
            <3> QED
                BY <1>2, <3>1, <3>2
      <2>4. LogFirst'
            BY <2>2, <2>3 DEF LogFirst, Rising, Before, In
      <2>5. OneCarries'
            <3>1. \A u \in Threads : In(tmp[u])' \subseteq In(tmp[u])
                  BY <2>3 DEF In
            <3> QED
                BY <3>1 DEF Queue, OneCarries
      <2>6. BlockLast'
            <3>1. \A u \in Threads : In(tmp[u])' \subseteq In(tmp[u])
                  BY <2>3 DEF In
            <3>2. Before(OnFile, Live)'
                  BY <1>1, <2>1, <2>2 DEF Queue, BlockLast, Before
            <3>3. \A u \in Settled' : Before(In(tmp[u]), Live)'
                  BY <1>1, <3>1 DEF Queue, BlockLast, Before
            <3>4. buff' => Rising(Flushed)'
                  BY <1>1 DEF Queue, BlockLast, Rising
            <3> QED
                BY <3>2, <3>3, <3>4 DEF BlockLast
      <2> QED
          BY <2>4, <2>5, <2>6 DEF Queue
<1>3. CASE tmp' = tmp /\ Passes(<< >>, why)
      <2>1. << >> = tmp[t] => tmp'[t] = << >>
            BY <1>3
      <2> QED
          BY <1>0, <1>2, <1>3, <2>1
<1>4. CASE tmp' = [tmp EXCEPT ![t] = << >>] /\ Passes(tmp[t], why)
      <2>1. tmp'[t] = << >> /\ \A u \in Threads : tmp'[u] = tmp[u] \/ tmp'[u] = << >>
            BY <1>0, <1>4
      <2> QED
          BY <1>0, <1>2, <1>4, <2>1
<1> QED
    BY <1>3, <1>4 DEF HandOn

\* append puts its record, the youngest, behind the others in the block,
LEMMA PutOrder ==
    ASSUME OneOwnClient, DeliveryInv, TypeOK', Apt, Queue, NEW t \in Clients, Put(t)
    PROVE  Queue'
<1>0. /\ TypeOK /\ PlaceInv /\ DataInv /\ Latest /\ AttachedEmpty
      /\ Flushed \in Seq(Slot)
      BY FlushedType DEF DeliveryInv, RecordInv, Apt
<1>1. /\ UNCHANGED <<tmp, files>> /\ buff /\ buff' = buff /\ OnFile' = OnFile /\ Settled' = Settled
      /\ rec[t] \in Rec /\ pc[t] \in BeforeWrite
      BY <1>0, PutBeside DEF block0
<1>2. LogFirst' /\ OneCarries'
      BY <1>1, SameQueue DEF Queue
<1>3. CASE PutLast(t)
      <2>1. OnFile \subseteq Stored \cap Rec /\ Live \subseteq Stored \cap Rec
            BY <1>0, LiveInBlock DEF Stored, OnFile, Live, In
      <2>2. \A u \in Threads : In(tmp[u]) \subseteq Stored \cap Rec
            BY DEF Stored, Held, In
      <2>3. \A r \in Stored : r \in Rec => r < rec[t]
            BY <1>0, <1>1, Youngest
      <2>4. Live' \subseteq Live \cup {rec[t]} /\ In(Flushed) = Live
            BY <1>1, <1>3 DEF PutLast, Live
      <2>5. Before(OnFile, Live')
            BY <2>1, <2>3, <2>4 DEF Queue, BlockLast, Before
      <2>6. \A u \in Settled : Before(In(tmp[u]), Live')
            BY <2>2, <2>3, <2>4 DEF Queue, BlockLast, Before, Settled
      <2>7. ASSUME NEW c \in Slot, c = rec[t] \/ c \notin Rec, Flushed' = Flushed \o <<c>>
            PROVE  Rising(Flushed')
            <3>1. <<c>> \in Seq(Slot) /\ DOMAIN <<c>> = {1} /\ <<c>>[1] = c
                  BY <2>7
            <3>2. In(<<c>>) \subseteq {rec[t]} /\ Rising(<<c>>)
                  BY <2>7, <3>1 DEF In, Rising
            <3>3. Before(In(Flushed), In(<<c>>))
                  BY <2>1, <2>3, <2>4, <3>2 DEF Before
            <3> QED
                BY <1>0, <1>1, <2>7, <3>1, <3>2, <3>3, RisingJoined DEF Queue, BlockLast
      <2>8. Rising(Flushed')
            <3>1. Overflow \in Slot /\ Overflow \notin Rec /\ rec[t] \in Slot
                  BY <1>1, RecIsSlot
            <3>2. CASE Flushed' = Flushed
                  BY <1>1, <3>2 DEF Queue, BlockLast
            <3> QED
                BY <1>3, <2>7, <3>1, <3>2 DEF PutLast
      <2>9. BlockLast'
            <3>1. \A u \in Threads : In(tmp[u])' = In(tmp[u])
                  BY <1>1 DEF In
            <3>2. Rising(Flushed)'
                  BY <2>8 DEF Rising
            <3>3. Before(OnFile, Live)'
                  BY <1>1, <2>5 DEF Before
            <3>4. \A u \in Settled' : Before(In(tmp[u]), Live)'
                  BY <1>1, <2>6, <3>1 DEF Before, Settled
            <3> QED
                BY <3>2, <3>3, <3>4 DEF BlockLast
      <2> QED
          BY <1>2, <2>9 DEF Queue
<1>4. CASE PutOver(t)
      <2>1. pc[Owner] \in Attaching
            BY <1>0, <1>1, <1>4 DEF PutOver, DataInv, BlockInv, Cursors, Attaching
      <2>2. Live' = {}
            BY <1>0, <1>4, <2>1 DEF PutOver, AttachedEmpty
      <2> QED
          BY <1>2, <2>2, EmptyLast DEF Queue
<1> QED
    BY <1>0, <1>3, <1>4, PutIs

\* and a flush copies the block while nobody else is under way, if it is not lapped.
LEMMA CopyOrder ==
    ASSUME OneOwnClient, DeliveryInv, FlushInv, Apt, Queue, NEW t \in Threads, Copy(t), ~lapped',
           OwnerNone'
    PROVE  Queue'
<1>0. TypeOK /\ PlaceInv /\ Opened /\ tmp \in [Threads -> Seq(Slot)]
      BY DEF DeliveryInv, RecordInv, TypeOK, DataOK
<1>1. /\ UNCHANGED <<block0, bytes, files>> /\ buff
      /\ tmp' = [tmp EXCEPT ![t] = Flushed] /\ In(Flushed) = Live /\ Settled' = Settled \ {t}
      BY <1>0, CopyIs
<1>2. /\ Live' = Live /\ Flushed' = Flushed /\ buff' = buff /\ disk' = disk /\ stdio' = stdio
      /\ OnFile' = OnFile
      BY <1>1, SameBlock DEF block0, files, OnFile, In
<1>3. tmp'[t] = Flushed /\ \A u \in Threads \ {t} : tmp'[u] = tmp[u]
      BY <1>0, <1>1
<1>4. \A u \in Threads : In(tmp[u])' = IF u = t THEN Live ELSE In(tmp[u])
      BY <1>1, <1>3 DEF In
<1>5. LogFirst'
      <2>1. \A u \in Threads : Rising(tmp'[u]) /\ Before(OnFile, In(tmp[u])')
            BY <1>1, <1>3, <1>4 DEF Queue, LogFirst, BlockLast
      <2>2. Rising(disk' \o stdio')
            BY <1>2 DEF Queue, LogFirst
      <2> QED
          BY <1>2, <2>1, <2>2 DEF LogFirst, Rising, Before
<1>6. ASSUME NEW u \in Threads, In(tmp[u])' # {}, In(tmp[t])' # {} PROVE u = t
      <2> SUFFICES ASSUME u # t PROVE FALSE
          OBVIOUS
      <2>1. tmp[u] # << >>
            BY <1>4, <1>6, InNone
      <2>2. u # Owner /\ t # Owner
            BY <1>6 DEF OwnerNone
      <2>3. {t, u} \cap Clients # {}
            BY <2>2 DEF Threads
      <2>4. Beside(t)
            BY <2>1, <2>3 DEF Beside, OneOwnClient, OwnKind
      <2> QED
          BY <2>2, <2>4 DEF Copy, FlushCopy
<1>7. OneCarries'
      BY <1>4, <1>6 DEF Queue, OneCarries
<1>8. BlockLast'
      <2>1. \A u \in Settled' : Before(In(tmp[u])', Live)
            BY <1>1, <1>4 DEF Queue, BlockLast, Settled
      <2>2. Rising(Flushed)'
            BY <1>1, <1>2 DEF Queue, BlockLast, Rising
      <2> QED
          BY <1>2, <2>1, <2>2 DEF Queue, BlockLast, Before
<1> QED
    BY <1>5, <1>7, <1>8 DEF Queue

\* Every step keeps the order while no flush_sync is lapped.
LEMMA QueueStep ==
    ASSUME OneOwnClient, DeliveryInv, TypeOK', FlushInv, mode = "async", Apt, OwnerNone', Queue,
           ~lapped', Next
    PROVE  Queue'
<1>0. TypeOK /\ PlaceInv /\ NoNullFlush /\ ~CanCrash /\ NoneLeft
      BY DEF DeliveryInv, RecordInv, FlushInv, OneOwnClient, Apt
<1>1. CASE NoBytes
      <2>1. /\ UNCHANGED <<tmp, files, block0, bytes>> /\ Live' = Live /\ Flushed' = Flushed
            /\ buff' = buff /\ OnFile' = OnFile /\ Settled' = Settled
            BY <1>1, SameBlock, SameFiles DEF NoBytes, block0
      <2>2. LogFirst' /\ OneCarries'
            BY <2>1, SameQueue DEF Queue
      <2>3. BlockLast'
            BY <2>1 DEF Queue, BlockLast, Rising, Before, In
      <2> QED
          BY <2>2, <2>3 DEF Queue
<1>2. ASSUME UNCHANGED <<tmp, files>>, Live' = {} PROVE Queue'
      BY <1>2, SameQueue, EmptyLast DEF Queue
<1>3. ASSUME NEW t \in Threads, (\E why \in Reasons : HandOn(t, why)) \/ Copy(t) PROVE Queue'
      BY <1>0, <1>3, HandOnOrder, CopyOrder
<1>4. ASSUME NEW t \in Threads, Clear(t) PROVE Queue'
      BY <1>0, <1>2, <1>4, ClearIs
<1>5. ASSUME NEW t \in Clients, Put(t) PROVE Queue'
      BY <1>5, PutOrder
<1>6. CASE OpenCall
      <2>1. UNCHANGED <<tmp, files>> /\ (Live' = Recoverable \/ Live' = {}) /\ ~mapped
            BY <1>0, <1>6, OpenCallIs
      <2>2. Recoverable = {}
            BY <1>0, <2>1 DEF Recoverable, NoneLeft
      <2> QED
          BY <1>2, <2>1, <2>2
<1>7. CASE CloseFree
      BY <1>0, <1>2, <1>7, CloseFreeIs
<1>8. \A t \in Clients : ~AppendSync(t)
      BY DEF AppendSync
<1> QED
    BY <1>0, <1>1, <1>3, <1>4, <1>5, <1>6, <1>7, <1>8, StepKinds DEF Ends

\* All of it together.
OrderInv == FlushInv /\ FileInv /\ Apt /\ (~lapped => Queue)

LEMMA OrderInit == OneOwnClient /\ Init => OrderInv
<1> SUFFICES ASSUME OneOwnClient, Init PROVE OrderInv
    OBVIOUS
<1>1. FlushInv /\ FileInv
      BY TypeInit DEF Init, FlushInv, BufHeld, OwnerPlaces, Joined, CheckedBuffer, NoNullFlush,
                      Threads, FileInv, OpenInUse
<1>2. mfile = [i \in 1..BlockLen |-> Nul]
      <2>1. PICK n \in LeftOver : mfile = [i \in 1..BlockLen |-> IF i <= n THEN i ELSE Nul]
            BY DEF Init
      <2>2. n = 0
            BY <2>1 DEF OneOwnClient
      <2> QED
          BY <2>1, <2>2
<1>3. In(mfile) = {}
      <2>1. Nul \notin Rec
            OBVIOUS
      <2> QED
          BY <1>2, <2>1 DEF In
<1>4. \A t \in Threads : tmp[t] = << >> /\ In(tmp[t]) = {}
      BY InNone DEF Init
<1>5. disk = << >> /\ stdio = << >> /\ OnFile = {} /\ Live = {} /\ ~buff
      BY InNone DEF Init, OnFile, Live
<1>6. Apt
      BY <1>3, <1>4 DEF Init, Apt, Gone, Latest, BeforeWrite, NoneLeft, AttachedEmpty, Attaching,
                        OwnerNone, Threads
<1>7. Queue
      <2>1. In(disk \o stdio) = {}
            BY <1>5, InNone
      <2>2. Rising(disk \o stdio) /\ \A t \in Threads : Rising(tmp[t])
            BY <1>4, <2>1, RisingNone
      <2> QED
          BY <1>4, <1>5, <2>2 DEF Queue, LogFirst, OneCarries, BlockLast, Before
<1> QED
    BY <1>1, <1>6, <1>7 DEF OrderInv

LEMMA OrderStep ==
    ASSUME OneOwnClient, DeliveryInv, DeliveryInv', OrderInv, [Next]_vars PROVE OrderInv'
<1>0. /\ OwnKind /\ AlwaysAsync /\ TypeOK /\ TypeOK' /\ PlaceInv /\ NoNullFlush /\ ~CanCrash
      /\ mode = "async" /\ FlushInv /\ Apt
      BY DEF OneOwnClient, DeliveryInv, RecordInv, OrderInv, FlushInv, FileInv
<1>1. FlushInv' /\ FileInv'
      BY <1>0, FlushStep, NoFileStep DEF OrderInv
<1>2. CASE Next
      <2>1. Gone' /\ Latest' /\ (lapped => lapped')
            BY <1>0, <1>2, GoneStep, LatestStep DEF Apt, OneOwnClient
      <2>2. NoneLeft' /\ AttachedEmpty'
            BY <1>0, <1>2, AttachedStep
      <2>3. OwnerNone'
            BY <1>0, <1>2, OwnerNoneStep
      <2>4. ~lapped' => Queue'
            BY <1>0, <1>2, <2>1, <2>3, QueueStep DEF OrderInv
      <2> QED
          BY <1>1, <2>1, <2>2, <2>3, <2>4 DEF OrderInv, Apt
<1>3. CASE UNCHANGED vars
      <2>1. UNCHANGED <<pc, tmp, rec, close, block0, bytes, files, next, lapped>>
            BY <1>3 DEF vars, allButPc, bounds, hist, marks
      <2>2. Apt'
            BY <1>0, <2>1 DEF Apt, Gone, Latest, NoneLeft, AttachedEmpty, OwnerNone, block, block0,
                              bytes, In
      <2>3. /\ Live' = Live /\ Flushed' = Flushed /\ OnFile' = OnFile /\ buff' = buff
            /\ Settled' = Settled
            BY <2>1, SameBlock, SameFiles DEF block0, Settled
      <2>4. Queue => Queue'
            BY <2>1, <2>3, SameQueue DEF Queue, BlockLast, Rising, Before, In
      <2> QED
          BY <1>1, <2>1, <2>2, <2>4 DEF OrderInv
<1> QED
    BY <1>2, <1>3

\* On an appender with a thread of its own that is only opened in async mode, and that one
\* client uses, the records reach the log file in the order of the calls of append, for any
\* block and any bounds, over flush, flush_sync, close and reopen and with failing files,
\* until a flush_sync has had bytes in hand beside another flush.
THEOREM OwnThreadKeepsOrder == OneOwnClient => (Spec => []OrderKept)
<1> SUFFICES ASSUME OneOwnClient PROVE Spec => []OrderKept
    OBVIOUS
<1>1. Init => OrderInv
      BY OrderInit
<1>2. DeliveryInv /\ DeliveryInv' /\ OrderInv /\ [Next]_vars => OrderInv'
      BY OrderStep
<1>3. OrderInv => OrderKept
      BY DEF OrderInv, Queue, LogFirst, Rising, OrderKept
<1> QED
    BY <1>1, <1>2, <1>3, OnceHolds, PTL DEF Spec
=============================================================================
