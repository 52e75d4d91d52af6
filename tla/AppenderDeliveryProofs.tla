----------------------- MODULE AppenderDeliveryProofs -----------------------
(* Appender.tla implements Delivery.tla, and writes no record twice, for      *)
(* every set of clients, block length and bound, with crashes and failures.   *)
EXTENDS AppenderRecordProofs, FiniteSetTheorems

USE AppenderAssumption

-----------------------------------------------------------------------------
(* The steps, by what they do to the bytes. *)

\* The threads whose bytes, if any, are no longer in the block.
Copying == {"FlushClear", "OpenClear"}
Settled == {t \in Threads : pc[t] \notin Copying}

\* Nothing, though the appender may be published or closed.
NoBytes ==
    /\ UNCHANGED <<tmp, block0, bytes, files, fate, opens>> /\ Settled' = Settled
    /\ \/ dir' = dir /\ (close => close')
       \/ pc[Owner] = "OpenPublish" /\ dir' /\ ~close'

\* Bytes pass through stdio to the file, in order, and a rest may be given up: the file
\* system refuses it, or the name of the file is not known yet.
Reasons == {"failed", "dropped"}

Passes(taken, why) ==
    \E a, b, c \in Seq(Slot) :
        /\ (a \o b) \o c = stdio \o taken
        /\ disk' = disk \o a /\ stdio' = b
        /\ Mark(In(c), why) /\ (c # << >> => why = "dropped" \/ CanFail)

\* Where the mutex of the log file is held by __log2file.
Filing == {"FileWrite", "FileDone", "FileFailed", "FileAgain"}

HandOn(t, why) ==
    /\ UNCHANGED <<block0, bytes, close, dir, opens>>
    /\ \/ why = "failed" /\ (dir \/ pc[t] \in Filing \cup {"CloseLog"})
       \/ why = "dropped" /\ ~dir /\ UNCHANGED files
    /\ t \in Settled /\ Settled' = Settled
    /\ \/ tmp' = tmp /\ Passes(<< >>, why)
       \/ tmp' = [tmp EXCEPT ![t] = << >>] /\ Passes(tmp[t], why)

\* The others are actions as they are.
AppendSync(t) == AppendMode(t) /\ mode = "sync"
Put(t)   == AppendWrite(t) /\ buff
Copy(t)  == FlushCopy(t) \/ (t = Owner /\ OpenCopy)
Clear(t) == FlushClear(t) \/ (t = Owner /\ OpenClear)

\* Rows are joined in any order.
LEMMA JoinAssoc ==
    ASSUME NEW x \in Seq(Slot), NEW y \in Seq(Slot), NEW z \in Seq(Slot)
    PROVE  (x \o y) \o z = x \o (y \o z)
BY ConcatAssociative

\* To give up nothing changes no fate.
LEMMA MarkNone == ASSUME TypeOK, fate' = fate, NEW why PROVE Mark(In(<< >>), why)
<1>1. fate \in [Rec -> Fates]
      BY DEF TypeOK, DataOK
<1> QED
    BY <1>1, InNone DEF Mark

\* __writefile passes the bytes of the thread on,
LEMMA FileWritePasses ==
    ASSUME TypeOK, NEW t \in Threads, FileWrite(t) PROVE Passes(tmp[t], "failed")
<1>0. stdio \in Seq(Slot) /\ tmp[t] \in Seq(Slot) /\ << >> \in Seq(Slot)
      BY DEF TypeOK, DataOK
<1>1. ASSUME NEW k \in 0..Len(tmp[t]), Drain(stdio \o SubSeq(tmp[t], 1, k)),
             Mark(In(SubSeq(tmp[t], k + 1, Len(tmp[t]))), "failed"),
             SubSeq(tmp[t], k + 1, Len(tmp[t])) # << >> => CanFail
      PROVE  Passes(tmp[t], "failed")
      <2> DEFINE s == SubSeq(tmp[t], 1, k)
                 c == SubSeq(tmp[t], k + 1, Len(tmp[t]))
                 u == stdio \o s
      <2>1. s \in Seq(Slot) /\ c \in Seq(Slot) /\ s \o c = tmp[t]
            BY <1>0, CutJoined
      <2>2. u \in Seq(Slot) /\ u \o c = stdio \o tmp[t]
            <3> HIDE DEF s, c
            <3>1. stdio \o s \in Seq(Slot)
                  BY <1>0, <2>1
            <3>2. stdio \in Seq(Slot) /\ s \in Seq(Slot) /\ c \in Seq(Slot)
                  BY <1>0, <2>1
            <3>3. (stdio \o s) \o c = stdio \o (s \o c)
                  BY ONLY <3>2, JoinAssoc
            <3> QED
                BY <2>1, <3>1, <3>3
      <2>3. PICK j \in 0..Len(u) : disk' = disk \o SubSeq(u, 1, j)
              /\ stdio' = SubSeq(u, j + 1, Len(u))
            BY <1>1 DEF Drain
      <2> DEFINE a == SubSeq(u, 1, j)
                 b == SubSeq(u, j + 1, Len(u))
      <2> HIDE DEF s, c, u
      <2>4. a \in Seq(Slot) /\ b \in Seq(Slot) /\ a \o b = u
            BY <2>2, CutJoined
      <2>5. (a \o b) \o c = stdio \o tmp[t] /\ disk' = disk \o a /\ stdio' = b
            BY <2>2, <2>3, <2>4
      <2>6. Mark(In(c), "failed") /\ (c # << >> => CanFail)
            BY <1>1 DEF c
      <2> HIDE DEF a, b
      <2> QED
          BY <2>1, <2>4, <2>5, <2>6 DEF Passes
<1>2. CASE Drain(stdio \o tmp[t]) /\ fate' = fate
      <2>1. SubSeq(tmp[t], 1, Len(tmp[t])) = tmp[t] /\ Len(tmp[t]) \in 0..Len(tmp[t])
            BY <1>0, SubSeqFull
      <2>2. SubSeq(tmp[t], Len(tmp[t]) + 1, Len(tmp[t])) = << >>
            BY <1>0, SubSeqEmpty
      <2> QED
          BY <1>1, <1>2, <2>1, <2>2, MarkNone
<1>3. ASSUME NEW k \in 0..(Len(tmp[t]) - 1), Drain(stdio \o SubSeq(tmp[t], 1, k)),
             Mark(In(SubSeq(tmp[t], k + 1, Len(tmp[t]))), "failed"), CanFail
      PROVE  Passes(tmp[t], "failed")
      <2>1. k \in 0..Len(tmp[t])
            BY <1>0
      <2> QED
          BY <1>1, <1>3, <2>1
<1> QED
    BY <1>2, <1>3 DEF FileWrite

\* fclose those of stdio, while the thread's are refused or stay where they are,
LEMMA FClosePasses ==
    ASSUME TypeOK, NEW s \in Seq(Slot), s # << >> => CanFail,
           NEW k \in Passed, FClose(k, In(s))
    PROVE  Passes(s, "failed")
<1>0. stdio \in Seq(Slot) /\ << >> \in Seq(Slot)
      BY DEF TypeOK, DataOK
<1> DEFINE a == SubSeq(stdio, 1, k)
           c == SubSeq(stdio, k + 1, Len(stdio))
<1>2. k \in 0..Len(stdio) /\ (k = Len(stdio) \/ CanFail)
      BY <1>0 DEF Passed
<1>3. a \in Seq(Slot) /\ c \in Seq(Slot) /\ a \o c = stdio
      BY <1>0, <1>2, CutJoined
<1>4. c # << >> => CanFail
      BY <1>0, <1>2, SubSeqEmpty
<1>6. disk' = disk \o a /\ stdio' = << >> /\ Mark(In(c) \cup In(s), "failed")
      BY DEF FClose
<1> HIDE DEF a, c
<1>5. (a \o << >>) \o (c \o s) = stdio \o s
      <2>1. a \o << >> = a
            BY <1>3, ConcatEmptySeq
      <2>2. (a \o c) \o s = a \o (c \o s)
            BY ONLY <1>3, JoinAssoc, s \in Seq(Slot)
      <2> QED
          BY <1>3, <2>1, <2>2
<1>7. c \o s \in Seq(Slot) /\ In(c \o s) = In(c) \cup In(s)
      BY <1>3, InJoined
<1>8. c \o s # << >> => CanFail
      BY <1>3, <1>4, ConcatEmptySeq
<1>9. Mark(In(c \o s), "failed")
      BY <1>6, <1>7
<1> QED
    BY <1>0, <1>3, <1>5, <1>6, <1>7, <1>8, <1>9 DEF Passes

\* as __closelogfile does, or leaving the file open.
LEMMA ClosePasses == ASSUME TypeOK, CloseLogFile PROVE Passes(<< >>, "failed")
<1>1. PICK k \in Passed : FClose(k, In(<< >>))
      BY InNone DEF CloseLogFile
<1> QED
    BY <1>1, FClosePasses, << >> \in Seq(Slot)

LEMMA KeepPasses == ASSUME TypeOK, UNCHANGED <<files, fate>> PROVE Passes(<< >>, "failed")
<1>0. stdio \in Seq(Slot) /\ disk \in Seq(Slot) /\ << >> \in Seq(Slot)
      BY DEF TypeOK, DataOK
<1>1. (<< >> \o stdio) \o << >> = stdio \o << >> /\ disk \o << >> = disk
      BY <1>0, ConcatEmptySeq
<1>2. Mark(In(<< >>), "failed") /\ disk' = disk /\ stdio' = stdio
      BY MarkNone DEF files
<1> QED
    BY <1>0, <1>1, <1>2 DEF Passes

\* What cannot be written is given up.
LEMMA DropPasses ==
    ASSUME TypeOK, UNCHANGED files, NEW s \in Seq(Slot), Mark(In(s), "dropped")
    PROVE  Passes(s, "dropped")
<1>0. stdio \in Seq(Slot) /\ disk \in Seq(Slot) /\ << >> \in Seq(Slot)
      BY DEF TypeOK, DataOK
<1>1. (<< >> \o stdio) \o s = stdio \o s /\ disk \o << >> = disk
      BY <1>0, ConcatEmptySeq
<1>2. disk' = disk /\ stdio' = stdio
      BY DEF files
<1> QED
    BY <1>0, <1>1, <1>2 DEF Passes

\* What that means for the records: they are on the file side or given up.
LEMMA PassesIn ==
    ASSUME TypeOK, NEW s \in Seq(Slot), NEW why, Passes(s, why)
    PROVE  \E x, z : /\ In(disk') = In(disk) \cup x
                     /\ x \cup In(stdio') \cup z = In(stdio) \cup In(s)
                     /\ Mark(z, why) /\ (z # {} => why = "dropped" \/ CanFail)
<1>0. stdio \in Seq(Slot) /\ disk \in Seq(Slot)
      BY DEF TypeOK, DataOK
<1>1. PICK a, b, c \in Seq(Slot) :
          /\ (a \o b) \o c = stdio \o s
          /\ disk' = disk \o a /\ stdio' = b
          /\ Mark(In(c), why) /\ (c # << >> => why = "dropped" \/ CanFail)
      BY DEF Passes
<1>2. In(disk') = In(disk) \cup In(a)
      BY <1>0, <1>1, InJoined
<1>3. In((a \o b) \o c) = In(a) \cup In(b) \cup In(c)
      <2>1. a \o b \in Seq(Slot)
            OBVIOUS
      <2> QED
          BY <2>1, InJoined
<1>4. In(stdio \o s) = In(stdio) \cup In(s)
      BY <1>0, InJoined
<1>5. In(c) # {} => why = "dropped" \/ CanFail
      BY <1>1, InNone
<1> QED
    BY <1>1, <1>2, <1>3, <1>4, <1>5

\* A step that moves no thread over a copy leaves the settled threads the same.
LEMMA SettledStays ==
    ASSUME \A t \in Threads : pc'[t] # pc[t] => pc[t] \notin Copying /\ pc'[t] \notin Copying
    PROVE  Settled' = Settled
BY DEF Settled

\* Every step is of one of these kinds.
LEMMA StepKinds ==
    ASSUME TypeOK, Next
    PROVE  \/ NoBytes
           \/ \E t \in Threads : (\E why \in Reasons : HandOn(t, why)) \/ Copy(t) \/ Clear(t)
           \/ \E t \in Clients : AppendSync(t) \/ Put(t)
           \/ OpenCall \/ CloseFree \/ Ends
<1> USE DEF allButPc, bounds, hist, marks, Step
<1> DEFINE Still == \A t \in Threads : pc'[t] # pc[t] =>
        pc[t] \notin Copying /\ pc'[t] \notin Copying
<1>1. ASSUME NEW t \in Clients, ClientStep(t) PROVE NoBytes \/ AppendSync(t) \/ Put(t)
      <2>1. Still
            BY <1>1 DEF ClientStep, AppendCall, SetMode, SetModeEffect, Flush, FlushSyncCall,
                        AppendMode, AppendNotify, AppendWrite, FlushSyncLock, Goto, WakeAndGoto,
                        Started, Notified, Running, LoopTop, Copying, TypeOK, PcOK, Threads
      <2>2. \/ UNCHANGED <<tmp, block0, bytes, files, fate, opens, close, dir>>
            \/ AppendSync(t) \/ Put(t)
            BY <1>1 DEF ClientStep, AppendCall, SetMode, SetModeEffect, Flush, FlushSyncCall,
                        AppendMode, AppendNotify, AppendWrite, FlushSyncLock, AppendSync, Put
      <2> QED
          BY <2>1, <2>2, SettledStays DEF NoBytes
<1>2. ASSUME NEW t \in Threads, TaskStep(t)
      PROVE  NoBytes \/ (\E why \in Reasons : HandOn(t, why)) \/ Copy(t) \/ Clear(t)
      <2>1. CASE TaskCheck(t) \/ TaskLock(t)
            <3>1. Still
                  BY <2>1 DEF TaskCheck, TaskLock, Goto, After, Copying, TypeOK, PcOK
            <3>2. UNCHANGED <<tmp, block0, bytes, files, fate, opens, close, dir>>
                  BY <2>1 DEF TaskCheck, TaskLock
            <3> QED
                BY <3>1, <3>2, SettledStays DEF NoBytes
      <2>2. CASE NoLogDir(t)
            <3>1. Still /\ t \in Settled
                  BY <2>2 DEF NoLogDir, Goto, After, Copying, TypeOK, PcOK, Settled
            <3>2. UNCHANGED <<block0, bytes, close, dir, opens, files>> /\ ~dir
                  BY <2>2 DEF NoLogDir
            <3>3. tmp' = [tmp EXCEPT ![t] = << >>] /\ Passes(tmp[t], "dropped")
                  BY <2>2, DropPasses DEF NoLogDir, TypeOK, DataOK
            <3> QED
                BY <3>1, <3>2, <3>3, SettledStays DEF HandOn, Reasons
      <2>3. CASE FileLock(t)
            <3>1. Still /\ t \in Settled
                  BY <2>3 DEF FileLock, Goto, Copying, TypeOK, PcOK, Settled
            <3>2. UNCHANGED <<block0, bytes, close, dir, opens>> /\ dir
                  BY <2>3 DEF FileLock
            <3>3. \/ tmp' = tmp /\ Passes(<< >>, "failed")
                  \/ tmp' = [tmp EXCEPT ![t] = << >>] /\ Passes(tmp[t], "failed")
                  <4>1. << >> \in Seq(Slot) /\ In(<< >>) = {} /\ tmp[t] \in Seq(Slot)
                        BY InNone DEF TypeOK, DataOK
                  <4>2. CASE tmp' = tmp /\ UNCHANGED <<files, fate>>
                        BY <4>2, KeepPasses
                  <4>3. CASE tmp' = tmp /\ \E k \in Passed : FClose(k, {})
                        BY <4>1, <4>3, FClosePasses
                  <4>4. CASE /\ tmp' = [tmp EXCEPT ![t] = << >>] /\ CanFail
                             /\ \E k \in Passed : FClose(k, In(tmp[t]))
                        BY <4>1, <4>4, FClosePasses
                  <4> QED
                      BY <2>3, <4>2, <4>3, <4>4 DEF FileLock
            <3> QED
                BY <3>1, <3>2, <3>3, SettledStays DEF HandOn, Reasons
      <2>4. CASE FileWrite(t) \/ FileFailed(t) \/ FileDone(t)
            <3>1. Still /\ t \in Settled
                  BY <2>4 DEF FileWrite, FileFailed, FileDone, Goto, After, Copying, TypeOK, PcOK,
                              Settled
            <3>2. UNCHANGED <<block0, bytes, close, dir, opens>> /\ pc[t] \in Filing
                  BY <2>4 DEF FileWrite, FileFailed, FileDone, Filing
            <3>3. FileWrite(t) => tmp' = [tmp EXCEPT ![t] = << >>] /\ Passes(tmp[t], "failed")
                  BY FileWritePasses DEF FileWrite
            <3>4. FileFailed(t) \/ FileDone(t) => tmp' = tmp /\ Passes(<< >>, "failed")
                  BY ClosePasses, KeepPasses DEF FileFailed, FileDone, CloseIn
            <3> QED
                BY <2>4, <3>1, <3>2, <3>3, <3>4, SettledStays DEF HandOn, Reasons
      <2> QED
          BY <1>2, <2>1, <2>2, <2>3, <2>4 DEF TaskStep, Copy, Clear
<1>3. ASSUME WorkerStep PROVE NoBytes
      <2>1. Still
            BY <1>3 DEF WorkerStep, OwnCheck, OwnClosed, Scan, BeforeWait, Timeout, LoopTop, Goto,
                        Copying, TypeOK, PcOK, Threads
      <2>2. UNCHANGED <<tmp, block0, bytes, files, fate, opens, close, dir>>
            BY <1>3 DEF WorkerStep, OwnCheck, OwnClosed, Scan, BeforeWait, Timeout
      <2> QED
          BY <2>1, <2>2, SettledStays DEF NoBytes
<1>4. ASSUME OwnerStep
      PROVE  \/ NoBytes \/ (\E why \in Reasons : HandOn(Owner, why))
             \/ Copy(Owner) \/ Clear(Owner) \/ OpenCall \/ CloseFree
      <2>1. CASE OpenPublish \/ OpenSetMode \/ CloseCall \/ CloseNotify \/ CloseJoin
            <3>1. Still
                  BY <2>1 DEF OpenPublish, OpenSetMode, SetModeEffect, CloseCall, CloseNotify,
                              CloseJoin, Goto, WakeAndGoto, Started, Notified, Running, LoopTop,
                              Drainer, Copying, TypeOK, PcOK, Threads
            <3>2. UNCHANGED <<tmp, block0, bytes, files, fate, opens>>
                  BY <2>1 DEF OpenPublish, OpenSetMode, CloseCall, CloseNotify, CloseJoin
            <3>3. \/ dir' = dir /\ (close => close')
                  \/ pc[Owner] = "OpenPublish" /\ dir' /\ ~close'
                  BY <2>1 DEF OpenPublish, OpenSetMode, CloseCall, CloseNotify, CloseJoin
            <3> QED
                BY <3>1, <3>2, <3>3, SettledStays DEF NoBytes
      <2>2. CASE CloseLog
            <3>1. Still /\ Owner \in Settled
                  BY <2>2 DEF CloseLog, Goto, Copying, TypeOK, PcOK, Threads, Settled
            <3>2. UNCHANGED <<block0, bytes, tmp, close, dir, opens>> /\ Passes(<< >>, "failed")
                  BY <2>2, ClosePasses DEF CloseLog
            <3>3. pc[Owner] = "CloseLog"
                  BY <2>2 DEF CloseLog
            <3> QED
                BY <3>1, <3>2, <3>3, SettledStays DEF HandOn, Reasons
      <2> QED
          BY <1>4, <2>1, <2>2 DEF OwnerStep, Copy, Clear
<1> QED
    <2>1. Owner \in Threads
          BY DEF Threads
    <2> QED
        BY <1>1, <1>2, <1>3, <1>4, <2>1, StepOf

-----------------------------------------------------------------------------
(* The numbers of the records, and what may go on before open has returned. *)

BeforeWrite == {"AppendMode", "AppendWrite"}
Opening == {"OpenCopy", "OpenClear", "OpenPublish"}

\* The record of an append that has not written yet is its own, and new.
Numbers ==
    /\ \A r \in Rec : r >= next => fate[r] = "none"
    /\ \A c \in Clients : rec[c] < next /\ (pc[c] \in BeforeWrite => fate[rec[c]] = "none")
    /\ \A c, d \in Clients :
        pc[c] \in BeforeWrite /\ pc[d] \in BeforeWrite /\ rec[c] = rec[d] => c = d

\* Until the first open has published the appender nobody appends to it.
Unpublished == opens = 0 \/ (opens = 1 /\ pc[Owner] \in Opening)
Opened ==
    /\ pc[Owner] \in Opening => close /\ buff
    /\ opens = 0 => ~buff /\ pc[Owner] = "idle"
    /\ Unpublished => close /\ \A c \in Clients : pc[c] \notin BeforeWrite

\* A step that gives a record its first fate is the write of its append.
LEMMA FateMoves ==
    ASSUME TypeOK, Next, NEW r \in Rec
    PROVE  /\ fate'[r] = "none" => fate[r] = "none"
           /\ fate[r] = "none" /\ fate'[r] # "none" =>
                \E c \in Clients : pc[c] \in BeforeWrite /\ rec[c] = r /\ pc'[c] \notin BeforeWrite
<1> USE DEF BeforeWrite
<1> DEFINE P == /\ fate'[r] = "none" => fate[r] = "none"
                /\ fate[r] = "none" /\ fate'[r] # "none" =>
                     \E c \in Clients : pc[c] \in BeforeWrite /\ rec[c] = r
                       /\ pc'[c] \notin BeforeWrite
<1>0. \A rs, f : Mark(rs, f) /\ f # "none" => P
      BY DEF Mark
<1>1. fate' = fate => P
      OBVIOUS
<1>2. NoBytes \/ OpenCall \/ CloseFree \/ Die => P
      BY <1>0, <1>1 DEF NoBytes, OpenCall, CloseFree, Die, hist
<1>3. ASSUME NEW t \in Threads, (\E why \in Reasons : HandOn(t, why)) \/ Copy(t) \/ Clear(t)
      PROVE  P
      <2>1. CASE \E why \in Reasons : HandOn(t, why)
            BY <1>0, <2>1 DEF HandOn, Passes, Reasons
      <2>2. CASE Copy(t) \/ Clear(t)
            BY <1>0, <1>1, <2>2 DEF Copy, Clear, FlushCopy, OpenCopy, FlushClear, OpenClear, hist
      <2> QED
          BY <1>3, <2>1, <2>2
<1>4. ASSUME NEW t \in Clients, AppendSync(t) \/ Put(t) PROVE P
      <2>1. pc[t] \in BeforeWrite /\ pc'[t] \notin BeforeWrite
            BY <1>4 DEF AppendSync, Put, AppendMode, AppendWrite, Goto, TypeOK, PcOK, Threads
      <2>2. r # rec[t] => fate'[r] = fate[r] \/ (fate[r] = "kept" /\ fate'[r] # "none")
            BY <1>4 DEF AppendSync, Put, AppendMode, AppendWrite, AppendFate, TypeOK, DataOK
      <2>3. r = rec[t] => fate'[r] # "none"
            BY <1>4 DEF AppendSync, Put, AppendMode, AppendWrite, AppendFate, TypeOK, DataOK
      <2> QED
          BY <2>1, <2>2, <2>3
<1> QED
    BY <1>2, <1>3, <1>4, StepKinds DEF Ends

\* A call of append takes the next number; any other step leaves a client with its
\* record or without one.
LEMMA RecMoves ==
    ASSUME TypeOK, Next
    PROVE  \/ \E t \in Clients : AppendCall(t)
           \/ /\ next' = next
              /\ \A c \in Clients : /\ rec'[c] = rec[c] \/ rec'[c] = 0
                                    /\ pc'[c] \in BeforeWrite =>
                                           pc[c] \in BeforeWrite /\ rec'[c] = rec[c]
<1> USE DEF BeforeWrite, TypeOK, PcOK, Threads, allButPc, bounds
<1>1. ASSUME NEW t \in Clients, ClientStep(t), ~AppendCall(t)
      PROVE  /\ next' = next
             /\ \A c \in Clients : /\ rec'[c] = rec[c] \/ rec'[c] = 0
                                   /\ pc'[c] \in BeforeWrite =>
                                          pc[c] \in BeforeWrite /\ rec'[c] = rec[c]
      BY <1>1 DEF ClientStep, SetMode, SetModeEffect, Flush, FlushSyncCall, AppendMode,
             AppendNotify,
                  AppendWrite, FlushSyncLock, Goto, WakeAndGoto, Step
<1>2. ASSUME NEW t \in Threads, TaskStep(t)
      PROVE  /\ next' = next
             /\ \A c \in Clients : /\ rec'[c] = rec[c] \/ rec'[c] = 0
                                   /\ pc'[c] \in BeforeWrite =>
                                          pc[c] \in BeforeWrite /\ rec'[c] = rec[c]
      BY <1>2 DEF TaskStep, TaskCheck, TaskLock, FlushCopy, FlushClear, NoLogDir, FileLock,
                  FileWrite, FileFailed, FileDone, Goto, After, Step
<1>3. ASSUME WorkerStep \/ OwnerStep \/ Die
      PROVE  /\ next' = next
             /\ \A c \in Clients : /\ rec'[c] = rec[c] \/ rec'[c] = 0
                                   /\ pc'[c] \in BeforeWrite =>
                                          pc[c] \in BeforeWrite /\ rec'[c] = rec[c]
      <2>1. CASE WorkerStep
            BY <2>1 DEF WorkerStep, OwnCheck, OwnClosed, Scan, BeforeWait, Timeout, Goto, Step
      <2>2. CASE OwnerStep
            BY <2>2 DEF OwnerStep, OpenCall, OpenCopy, OpenClear, OpenPublish, OpenSetMode,
                        SetModeEffect, CloseCall, CloseNotify, CloseJoin, CloseFree, CloseLog, Goto,
                        WakeAndGoto, Step
      <2>3. CASE Die
            BY <2>3 DEF Die
      <2> QED
          BY <1>3, <2>1, <2>2, <2>3
<1> QED
    BY <1>1, <1>2, <1>3, StepOf DEF Ends

\* The numbers stay in order,
LEMMA NumbersStep == ASSUME TypeOK, Numbers, Next PROVE Numbers'
<1>1. next \in Nat /\ \A c \in Clients : rec[c] \in Rec \cup {0} /\ rec[c] \in Nat /\ c \in Threads
      BY DEF TypeOK, PcOK, DataOK, Rec, Threads
<1>2. CASE \E t \in Clients : AppendCall(t)
      <2>1. PICK t \in Clients : AppendCall(t)
            BY <1>2
      <2>2. /\ next' = next + 1 /\ next \in Rec /\ fate' = fate /\ rec'[t] = next
            /\ \A c \in Clients \ {t} : pc'[c] = pc[c] /\ rec'[c] = rec[c]
            <3>1. next' = next + 1 /\ fate' = fate /\ next \in Rec
                  BY <1>1, <2>1 DEF AppendCall, hist, Rec, TypeOK, DataOK
            <3>2. rec'[t] = next /\ \A c \in Clients \ {t} : rec'[c] = rec[c]
                  BY <1>1, <2>1 DEF AppendCall, TypeOK, PcOK
            <3>3. \A c \in Clients \ {t} : pc'[c] = pc[c]
                  BY <1>1, <2>1 DEF AppendCall, Goto, TypeOK, PcOK
            <3> QED
                BY <3>1, <3>2, <3>3
      <2>3. \A r \in Rec : r >= next' => fate'[r] = "none"
            BY <1>1, <2>2 DEF Numbers, Rec
      <2>4. ASSUME NEW c \in Clients
            PROVE  rec'[c] < next' /\ (pc'[c] \in BeforeWrite => fate'[rec'[c]] = "none")
            BY <1>1, <2>2 DEF Numbers
      <2>5. ASSUME NEW c \in Clients, NEW d \in Clients,
                   pc'[c] \in BeforeWrite, pc'[d] \in BeforeWrite, rec'[c] = rec'[d]
            PROVE  c = d
            BY <1>1, <2>2, <2>5 DEF Numbers
      <2> QED
          BY <2>3, <2>4, <2>5 DEF Numbers
<1>3. CASE /\ next' = next
           /\ \A c \in Clients : /\ rec'[c] = rec[c] \/ rec'[c] = 0
                                 /\ pc'[c] \in BeforeWrite =>
                                        pc[c] \in BeforeWrite /\ rec'[c] = rec[c]
      <2>1. ASSUME NEW r \in Rec, r >= next' PROVE fate'[r] = "none"
            <3>1. fate[r] = "none" /\ \A c \in Clients : rec[c] # r
                  BY <1>1, <1>3, <2>1 DEF Numbers, Rec
            <3> QED
                BY <3>1, FateMoves
      <2>2. ASSUME NEW c \in Clients PROVE rec'[c] < next'
            <3>1. 0 < next
                  BY DEF TypeOK, DataOK
            <3> QED
                BY <1>1, <1>3, <3>1 DEF Numbers
      <2>3. ASSUME NEW c \in Clients, pc'[c] \in BeforeWrite PROVE fate'[rec'[c]] = "none"
            <3>1. pc[c] \in BeforeWrite /\ rec'[c] = rec[c] /\ fate[rec[c]] = "none"
                  BY <1>3, <2>3 DEF Numbers
            <3>2. rec[c] \in Rec
                  BY <1>1, <3>1 DEF TypeOK, PcOK, BeforeWrite
            <3>3. \A d \in Clients : pc[d] \in BeforeWrite /\ rec[d] = rec[c] => d = c
                  BY <3>1 DEF Numbers
            <3> QED
                BY <2>3, <3>1, <3>2, <3>3, FateMoves
      <2>4. \A c, d \in Clients :
                pc'[c] \in BeforeWrite /\ pc'[d] \in BeforeWrite /\ rec'[c] = rec'[d] => c = d
            BY <1>3 DEF Numbers
      <2> QED
          BY <2>1, <2>2, <2>3, <2>4 DEF Numbers
<1> QED
    BY <1>2, <1>3, RecMoves

\* and so does what goes before the first open has returned.
LEMMA OpenedStep == ASSUME TypeOK, PlaceInv, Opened, Next PROVE Opened'
<1> USE DEF Opened, Unpublished, Opening, BeforeWrite, TypeOK, PcOK, DataOK, Threads, Goto, block0,
            bounds, allButPc
<1>1. ASSUME NEW t \in Clients, ClientStep(t) PROVE Opened'
      <2>1. CASE AppendCall(t) BY <2>1 DEF AppendCall
      <2>2. CASE SetMode(t) \/ Flush(t) \/ FlushSyncCall(t) \/ AppendNotify(t)
            <3>1. pc'[Owner] = pc[Owner] /\ \A c \in Clients : pc'[c] \in BeforeWrite =>
                      pc[c] \in BeforeWrite
                  BY <2>2 DEF SetMode, SetModeEffect, Flush, FlushSyncCall, Step, AppendNotify,
                         WakeAndGoto
            <3>2. UNCHANGED <<opens, close, buff>>
                  BY <2>2 DEF SetMode, Flush, FlushSyncCall, Step, AppendNotify
            <3> QED
                BY <3>1, <3>2
      <2>3. CASE AppendMode(t)
            BY <2>3 DEF AppendMode
      <2>4. CASE AppendWrite(t) \/ FlushSyncLock(t)
            BY <2>4 DEF AppendWrite, FlushSyncLock
      <2> QED
          BY <1>1, <2>1, <2>2, <2>3, <2>4 DEF ClientStep
<1>2. ASSUME NEW t \in Threads, TaskStep(t) PROVE Opened'
      <2>1. CASE TaskCheck(t) \/ TaskLock(t) \/ FlushCopy(t)
            BY <2>1 DEF TaskCheck, TaskLock, FlushCopy, Step, After
      <2>2. CASE FlushClear(t) BY <2>2 DEF FlushClear, After
      <2>3. CASE FileLock(t) \/ FileWrite(t) \/ FileFailed(t)
            BY <2>3 DEF FileLock, FileWrite, FileFailed
      <2>4. CASE NoLogDir(t) \/ FileDone(t) BY <2>4 DEF NoLogDir, FileDone, After
      <2> QED
          BY <1>2, <2>1, <2>2, <2>3, <2>4 DEF TaskStep
<1>3. CASE WorkerStep
      BY <1>3 DEF WorkerStep, OwnCheck, OwnClosed, Scan, BeforeWait, Timeout, Step
<1>4. ASSUME OwnerStep PROVE Opened'
      <2>1. CASE OpenCall BY <2>1 DEF OpenCall
      <2>2. CASE OpenCopy \/ OpenClear BY <2>2 DEF OpenCopy, OpenClear
      <2>3. CASE OpenPublish \/ OpenSetMode
            BY <2>3 DEF OpenPublish, OpenSetMode, SetModeEffect, WakeAndGoto
      <2>4. CASE CloseCall \/ CloseNotify \/ CloseJoin
            BY <2>4 DEF CloseCall, CloseNotify, CloseJoin, Step, WakeAndGoto, Drainer
      <2>5. CASE CloseFree \/ CloseLog BY <2>5 DEF CloseFree, CloseLog
      <2> QED
          BY <1>4, <2>1, <2>2, <2>3, <2>4, <2>5 DEF OwnerStep
<1>5. CASE Die
      BY <1>5 DEF Die
<1> QED
    BY <1>1, <1>2, <1>3, <1>4, <1>5, StepOf DEF Ends

\* Only a call of open begins one.
LEMMA OpeningBegins ==
    ASSUME TypeOK, Next
    PROVE  OpenCall \/ (opens' = opens /\ (pc'[Owner] \in Opening => pc[Owner] \in Opening))
<1> USE DEF Opening, TypeOK, PcOK, DataOK, Threads, Goto, bounds, allButPc
<1> DEFINE P == opens' = opens /\ (pc'[Owner] \in Opening => pc[Owner] \in Opening)
<1>1. ASSUME NEW t \in Clients, ClientStep(t) PROVE P
      <2>1. opens' = opens
            BY <1>1 DEF ClientStep, AppendCall, SetMode, Flush, FlushSyncCall, Step,
                        AppendMode, AppendNotify, AppendWrite, FlushSyncLock
      <2>2. pc'[Owner] = pc[Owner]
            BY <1>1 DEF ClientStep, AppendCall, SetMode, SetModeEffect, Flush, FlushSyncCall, Step,
                        AppendMode, AppendNotify, AppendWrite, FlushSyncLock, WakeAndGoto
      <2> QED
          BY <2>1, <2>2
<1>2. ASSUME NEW t \in Threads, TaskStep(t) PROVE P
      <2>1. CASE TaskCheck(t) \/ TaskLock(t) \/ FlushCopy(t)
            BY <2>1 DEF TaskCheck, TaskLock, FlushCopy, Step, After
      <2>2. CASE FlushClear(t) BY <2>2 DEF FlushClear, After
      <2>3. CASE FileLock(t) \/ FileWrite(t) \/ FileFailed(t)
            BY <2>3 DEF FileLock, FileWrite, FileFailed
      <2>4. CASE NoLogDir(t) \/ FileDone(t) BY <2>4 DEF NoLogDir, FileDone, After
      <2> QED
          BY <1>2, <2>1, <2>2, <2>3, <2>4 DEF TaskStep
<1>3. WorkerStep => P
      BY DEF WorkerStep, OwnCheck, OwnClosed, Scan, BeforeWait, Timeout, Step
<1>4. ASSUME OwnerStep PROVE P \/ OpenCall
      <2>1. CASE OpenCopy \/ OpenClear BY <2>1 DEF OpenCopy, OpenClear
      <2>2. CASE OpenPublish \/ OpenSetMode
            BY <2>2 DEF OpenPublish, OpenSetMode, SetModeEffect, WakeAndGoto
      <2>3. CASE CloseCall \/ CloseNotify \/ CloseJoin
            BY <2>3 DEF CloseCall, CloseNotify, CloseJoin, Step, WakeAndGoto, Drainer
      <2>4. CASE CloseFree \/ CloseLog BY <2>4 DEF CloseFree, CloseLog
      <2> QED
          BY <1>4, <2>1, <2>2, <2>3, <2>4 DEF OwnerStep
<1>5. Die => P
      BY DEF Die
<1> QED
    BY <1>1, <1>2, <1>3, <1>4, <1>5, StepOf DEF Ends

\* The name of the log file is known to whoever writes it, closes it or has opened.
Named == ~dir => /\ close /\ pc[Owner] \in {"idle"} \cup Opening
                 /\ \A t \in Threads : pc[t] \notin Filing

LEMMA NamedStep == ASSUME TypeOK, Named, Next PROVE Named'
<1> USE DEF Named, Opening, Filing, TypeOK, PcOK, DataOK, Threads, Goto, allButPc
<1>1. ASSUME NEW t \in Clients, ClientStep(t) PROVE Named'
      <2>1. UNCHANGED <<dir, close>>
            BY <1>1 DEF ClientStep, AppendCall, SetMode, Flush, FlushSyncCall, Step,
                        AppendMode, AppendNotify, AppendWrite, FlushSyncLock
      <2>2. /\ pc'[Owner] = pc[Owner]
            /\ \A u \in Threads : pc'[u] \in Filing => pc[u] \in Filing
            <3>1. CASE AppendCall(t) \/ FlushSyncCall(t) \/ AppendMode(t) \/ AppendWrite(t)
                         \/ FlushSyncLock(t)
                  BY <3>1 DEF AppendCall, FlushSyncCall, Step, AppendMode, AppendWrite,
                              FlushSyncLock
            <3>2. CASE SetMode(t) \/ Flush(t) \/ AppendNotify(t)
                  BY <3>2 DEF SetMode, SetModeEffect, Flush, AppendNotify, WakeAndGoto, Started,
                              Notified, Running, LoopTop
            <3> QED
                BY <1>1, <3>1, <3>2 DEF ClientStep
      <2> QED
          BY <2>1, <2>2
<1>2. ASSUME NEW t \in Threads, TaskStep(t) PROVE Named'
      <2>1. CASE TaskCheck(t) \/ TaskLock(t) \/ FlushCopy(t)
            BY <2>1 DEF TaskCheck, TaskLock, FlushCopy, Step, After
      <2>2. CASE FlushClear(t) BY <2>2 DEF FlushClear, After
      <2>3. CASE FileLock(t) \/ FileWrite(t) \/ FileFailed(t) \/ FileDone(t)
            BY <2>3 DEF FileLock, FileWrite, FileFailed, FileDone
      <2>4. CASE NoLogDir(t) BY <2>4 DEF NoLogDir, After
      <2> QED
          BY <1>2, <2>1, <2>2, <2>3, <2>4 DEF TaskStep
<1>3. CASE WorkerStep
      BY <1>3 DEF WorkerStep, OwnCheck, OwnClosed, Scan, BeforeWait, Timeout, Step, LoopTop
<1>4. ASSUME OwnerStep PROVE Named'
      <2>1. CASE OpenCall BY <2>1 DEF OpenCall
      <2>2. CASE OpenCopy \/ OpenClear BY <2>2 DEF OpenCopy, OpenClear
      <2>3. CASE OpenPublish \/ OpenSetMode BY <2>3 DEF OpenPublish, OpenSetMode
      <2>4. CASE CloseCall \/ CloseNotify \/ CloseJoin
            BY <2>4 DEF CloseCall, CloseNotify, CloseJoin, Step
      <2>5. CASE CloseFree \/ CloseLog BY <2>5 DEF CloseFree, CloseLog
      <2> QED
          BY <1>4, <2>1, <2>2, <2>3, <2>4, <2>5 DEF OwnerStep
<1>5. CASE Die
      BY <1>5 DEF Die
<1> QED
    BY <1>1, <1>2, <1>3, <1>4, <1>5, StepOf DEF Ends
-----------------------------------------------------------------------------
(* What the steps do to the records of the block. *)

\* The records of a block are those of its slots,
LEMMA InSlots == ASSUME NEW b \in Block PROVE In(b) = {b[i] : i \in 1..BlockLen} \cap Rec
BY DEF In, Block

\* and what the cursors say of it, as Recoverable, is among them.
LEMMA LiveInBlock ==
    ASSUME TypeOK
    PROVE  /\ Live \subseteq In(block) /\ In(block) \subseteq In(mfile) \cup In(heap)
           /\ Unmapped \subseteq In(mfile) /\ (mapped => Live \subseteq Recoverable)
<1>1. block \in Block /\ len \in 0..BlockLen /\ BlockLen \in Nat
      BY DEF TypeOK, DataOK, block
<1>2. Live \subseteq In(block) /\ (block[1] = Nul => Live = {})
      BY <1>1, LiveIs, InSlots
<1> QED
    BY <1>2 DEF block, Unmapped, Recoverable

\* What is taken up or put down is in sequence behind the rest: a write at length_
\* adds one slot to what Flush hands over, while there is room.
LEMMA PutBehind ==
    ASSUME TypeOK, TypeOK', Cursors, buff, UNCHANGED block0, NEW c \in Slot, c # Nul,
           SetBlock(Written(c)), pos' = NewPos, len' = NewLen, len = pos
    PROVE  Flushed' = IF len < BlockLen THEN Flushed \o <<c>> ELSE Flushed
<1>0. /\ len \in 0..BlockLen /\ len' \in 0..BlockLen /\ BlockLen \in Nat \ {0}
      /\ block \in Block /\ block' \in Block
      BY DEF TypeOK, DataOK, block
<1>1. /\ block'[1] # Nul /\ len <= len' /\ \A i \in 1..len : block'[i] = block[i]
      /\ len < BlockLen => len' = len + 1 /\ block'[len'] = c
      BY WriteLands
<1>2. block \in Seq(Slot) /\ Len(block) = BlockLen /\ block' \in Seq(Slot) /\ Len(block') = BlockLen
      BY <1>0, BlockIsSeq
<1>3. SubSeq(block, 1, 0) = << >> /\ SubSeq(block', 1, 0) = << >>
      BY <1>2, SubSeqEmpty
<1>4. Flushed = SubSeq(block, 1, len)
      BY <1>3 DEF Flushed, Cursors, TypeOK, DataOK
<1>5. Flushed' = SubSeq(block', 1, len')
      BY <1>1, <1>3 DEF Flushed
<1>6. CASE len < BlockLen
      <2>1. SubSeq(block', 1, len + 1) = SubSeq(block, 1, len) \o <<c>>
            BY <1>0, <1>1, <1>2, <1>6
      <2> QED
          BY <1>1, <1>4, <1>5, <1>6, <2>1
<1>7. CASE len = BlockLen
      <2>1. SubSeq(block', 1, len) = SubSeq(block, 1, len)
            BY <1>0, <1>1, <1>2
      <2> QED
          BY <1>0, <1>1, <1>4, <1>5, <1>7, <2>1
<1> QED
    BY <1>0, <1>6, <1>7

\* append: the record is behind the others, or nothing is, or, while open has not flushed
\* the block, a message is over something the last process left.
PutBlock(t) ==
    /\ block' \in Block /\ block'[1] # Nul
    /\ Live' \subseteq In(block) \cup {rec[t]}
    /\ In(mfile') \subseteq In(mfile) \cup {rec[t]} /\ In(heap') \subseteq In(heap) \cup {rec[t]}
    /\ mapped => heap' = heap
    /\ ~mapped => mfile' = mfile

PutLast(t) ==
    /\ len = pos /\ ~AttachedTail /\ ~AttachedTail'
    /\ \/ ~NearlyFull /\ Flushed' = Flushed \o <<rec[t]>> /\ Live' = Live \cup {rec[t]}
       \/ /\ NearlyFull /\ Live' = Live
          /\ Flushed' = Flushed \/ Flushed' = Flushed \o <<Overflow>>

PutOver(t) ==
    /\ len # pos /\ AttachedTail /\ NearlyFull
    /\ Live' \subseteq In(block) /\ (block[1] # Nul => Live' \subseteq Live)
    /\ \A r \in Live : r # block[pos + 1] => r \in Live'
    /\ \A r \in Rec : r \in Overwritten <=> r = block[pos + 1] /\ r \notin Held \cup OnFile

LEMMA PutIs ==
    ASSUME TypeOK, TypeOK', PlaceInv, DataInv, NEW t \in Clients, Put(t)
    PROVE  PutBlock(t) /\ (PutLast(t) \/ PutOver(t))
<1> DEFINE c == IF NearlyFull THEN Overflow ELSE rec[t]
<1>0. /\ pos \in 0..BlockLen /\ len \in 0..BlockLen /\ pos <= len /\ BlockLen \in Nat \ {0}
      /\ buff /\ Cursors /\ block \in Block /\ block' \in Block
      /\ mfile \in Block /\ heap \in Block /\ mfile' \in Block /\ heap' \in Block
      BY DEF TypeOK, DataOK, DataInv, BlockInv, Put, block
<1>1. rec[t] \in Rec /\ c \in Slot /\ c # Nul /\ Overflow \notin Rec
      <2>1. rec[t] \in Rec
            BY DEF Put, AppendWrite, TypeOK, PcOK, Threads
      <2>2. Nul \notin Rec /\ Nul # Overflow /\ Overflow \notin Rec
            OBVIOUS
      <2> QED
          BY <2>1, <2>2, RecIsSlot
<1>2. SetBlock(Written(c)) /\ pos' = NewPos /\ len' = NewLen /\ UNCHANGED block0
      BY DEF Put, AppendWrite
<1>3. c \in Rec => c = rec[t]
      BY <1>1
<1>4. c = rec[t] \/ (NearlyFull /\ c = Overflow)
      OBVIOUS
<1>5. ~NearlyFull => c = rec[t]
      OBVIOUS
<1> HIDE DEF c
<1>6. /\ block' = Written(c) /\ block'[1] # Nul
      /\ len = pos => len' = pos' /\ len <= len' /\ \A i \in 1..len : block'[i] = block[i]
      /\ len = pos /\ len < BlockLen => len' = len + 1 /\ block'[len'] = c
      /\ len # pos => /\ AttachedTail /\ len' = len /\ pos' = pos + 1 /\ block'[pos + 1] = c
                      /\ \A i \in 1..BlockLen : i # pos + 1 => block'[i] = block[i]
      BY <1>0, <1>1, <1>2, WriteLands
<1>7. In(block') \subseteq In(block) \cup ({c} \cap Rec)
      <2>1. \A i \in 1..BlockLen : block'[i] \in {c, Nul, block[i]}
            BY <1>6 DEF Written
      <2>2. Nul \notin Rec
            OBVIOUS
      <2> QED
          BY <1>0, <2>1, <2>2, InSlots
<1>8. Live' \subseteq In(block')
      <2>1. In(block') = {block'[i] : i \in 1..BlockLen} \cap Rec
            BY <1>0, InSlots
      <2>2. len' \in 0..BlockLen
            BY DEF TypeOK, DataOK
      <2> QED
          BY <1>0, <2>1, <2>2, LiveIsNext
<1>9. PutBlock(t)
      <2>1. /\ mapped => block = mfile /\ block' = mfile' /\ heap' = heap
            /\ ~mapped => block = heap /\ block' = heap' /\ mfile' = mfile
            BY <1>2 DEF SetBlock, block, block0
      <2> QED
          BY <1>0, <1>3, <1>6, <1>7, <1>8, <2>1 DEF PutBlock
<1>10. CASE len = pos
      <2>1. Flushed' = IF len < BlockLen THEN Flushed \o <<c>> ELSE Flushed
            BY <1>0, <1>1, <1>2, <1>10, PutBehind
      <2>2. Flushed \in Seq(Slot) /\ <<c>> \in Seq(Slot)
            BY <1>1, FlushedType
      <2>3. In(Flushed \o <<c>>) = In(Flushed) \cup In(<<c>>)
            BY <2>2, InJoined
      <2>4. Live = In(Flushed) /\ Live' = In(Flushed')
            BY <1>0, <1>2 DEF Live, block0, In
      <2>5. ~NearlyFull => len < BlockLen
            BY <1>0, FourFifths DEF NearlyFull
      <2>6. ~AttachedTail /\ ~AttachedTail'
            BY <1>0, <1>6, <1>10 DEF AttachedTail
      <2>7. CASE ~NearlyFull
            <3>1. c = rec[t] /\ In(<<c>>) = {rec[t]}
                  BY <1>1, <1>5, <2>7, InOne
            <3> QED
                BY <1>9, <1>10, <2>1, <2>3, <2>4, <2>5, <2>6, <2>7, <3>1 DEF PutLast
      <2>8. CASE NearlyFull
            <3>1. c = Overflow
                  BY <2>8 DEF c
            <3>2. In(<<Overflow>>) = {}
                  BY <1>1 DEF In
            <3> QED
                BY <1>9, <1>10, <2>1, <2>3, <2>4, <2>6, <2>8, <3>1, <3>2 DEF PutLast
      <2> QED
          BY <2>7, <2>8
<1>11. CASE len # pos
      <2>1. len = BlockLen /\ AttachedTail
            BY <1>6, <1>11 DEF AttachedTail
      <2>2. NearlyFull
            BY <2>1, FourFifths DEF NearlyFull
      <2>3. c = Overflow
            BY <2>2 DEF c
      <2>4. Live' \subseteq In(block)
            BY <1>1, <1>7, <1>8, <2>3
      <2>5. block[1] # Nul => Live' \subseteq Live
            <3>1. block[1] # Nul => Live = In(block)
                  BY <1>0, <2>1, LiveIs, InSlots
            <3> QED
                BY <2>4, <3>1
      <2>6. \A r \in Live : r # block[pos + 1] => r \in Live'
            BY <1>0, <1>1, <1>2, <1>11, WriteKeeps
      <2>7. \A r \in Rec : r \in Overwritten <=> r = block[pos + 1] /\ r \notin Held \cup OnFile
            <3>1. NewPos = pos + 1 /\ pos + 1 \in 1..BlockLen
                  BY <1>0, <2>1 DEF NewPos, AttachedTail
            <3>2. block \in Seq(Slot) /\ Len(block) = BlockLen
                  BY <1>0, BlockIsSeq
            <3> DEFINE s == SubSeq(block, pos + 1, pos + 1)
            <3>3. DOMAIN s = {1} /\ s[1] = block[pos + 1]
                  BY <3>1, <3>2
            <3> HIDE DEF s
            <3>4. \A r \in Rec : r \in In(s) <=> r = block[pos + 1]
                  BY <3>3 DEF In
            <3> QED
                BY <1>11, <3>1, <3>4 DEF Overwritten, s
      <2> QED
          BY <1>9, <1>11, <2>1, <2>2, <2>4, <2>5, <2>6, <2>7 DEF PutOver
<1> QED
    BY <1>10, <1>11
-----------------------------------------------------------------------------
(* Where a record can be, given its fate.                                      *)

Stored   == In(mfile) \cup In(heap) \cup Held \cup OnFile
UnderWay == In(stdio) \cup UNION {In(tmp[t]) : t \in Settled}

\* A record of no fate is nowhere.
Fresh == \A r \in Rec : fate[r] = "none" => r \notin Stored

\* What is under way, or in a heap block, is not in the file that is not mapped.
Apart ==
    /\ (Held \cup In(stdio)) \cap Unmapped = {}
    /\ ~mapped => In(heap) \cap In(mfile) = {}

\* The bytes that a clear has left behind in the mapped file can come back to
\* life under a late append; those of a record that counts have reached the log file.
OldBytes ==
    mfile[1] = Nul /\ (~mapped \/ AttachedTail) =>
        \A r \in In(mfile) : fate[r] = "kept" => r \in In(disk)

\* A record that is under way is not in the block any more.
NotBack == \A r \in UnderWay \ In(disk) : fate[r] = "kept" => r \notin Live

FateInv == Fresh /\ Apart /\ OldBytes /\ NotBack

\* What is under way is held or in stdio.
LEMMA UnderWayHeld == UnderWay \subseteq Held \cup In(stdio) /\ UnderWay \subseteq Stored
BY DEF UnderWay, Held, Settled, Stored, OnFile

\* A step that leaves the bytes of the block alone.
LEMMA SameBlock ==
    ASSUME UNCHANGED <<block0, bytes>>
    PROVE  /\ Live' = Live /\ Unmapped' = Unmapped /\ InMapped' = InMapped /\ InHeap' = InHeap
           /\ In(mfile)' = In(mfile) /\ In(heap)' = In(heap) /\ AttachedTail' = AttachedTail
           /\ Flushed' = Flushed /\ Recoverable' = Recoverable
BY DEF Live, Flushed, block, Unmapped, InMapped, InHeap, Recoverable, AttachedTail, In, block0,
       bytes

\* A step that leaves the bytes of the threads and of the files alone.
LEMMA SameFiles ==
    ASSUME UNCHANGED <<tmp, files>>
    PROVE  Held' = Held /\ OnFile' = OnFile /\ In(stdio)' = In(stdio) /\ In(disk)' = In(disk)
BY DEF Held, OnFile, In, files

\* __log2file, in records: what a thread lets go of, or stdio has, is afterwards in the
\* log file, in stdio or given up.
Handed(taken, filed, given, why) ==
    /\ taken \subseteq UnderWay
    /\ Held \subseteq Held' \cup taken /\ Held' \subseteq Held /\ UnderWay' \subseteq UnderWay
    /\ In(disk)' = In(disk) \cup filed
    /\ filed \cup In(stdio)' \cup given = In(stdio) \cup taken
    /\ Mark(given, why) /\ (given # {} => why = "dropped" \/ CanFail)

LEMMA HandOnIs ==
    ASSUME TypeOK, NEW t \in Threads, NEW why, HandOn(t, why)
    PROVE  \E taken, filed, given : Handed(taken, filed, given, why)
<1>0. In(stdio)' = In(stdio') /\ In(disk)' = In(disk') /\ << >> \in Seq(Slot)
        /\ tmp[t] \in Seq(Slot)
      BY DEF In, TypeOK, DataOK
<1>1. CASE tmp' = tmp /\ Passes(<< >>, why)
      <2>1. PICK x, z : /\ In(disk') = In(disk) \cup x
                        /\ x \cup In(stdio') \cup z = In(stdio) \cup In(<< >>)
                        /\ Mark(z, why) /\ (z # {} => why = "dropped" \/ CanFail)
            BY <1>0, <1>1, PassesIn
      <2>2. Held' = Held /\ UnderWay' = In(stdio)' \cup UNION {In(tmp[u]) : u \in Settled}
            BY <1>1 DEF Held, UnderWay, In, HandOn
      <2>3. In(stdio)' \subseteq In(stdio)
            BY <1>0, <2>1, InNone
      <2> QED
          BY <1>0, <2>1, <2>2, <2>3, InNone DEF Handed, UnderWay
<1>2. CASE tmp' = [tmp EXCEPT ![t] = << >>] /\ Passes(tmp[t], why)
      <2>1. PICK x, z : /\ In(disk') = In(disk) \cup x
                        /\ x \cup In(stdio') \cup z = In(stdio) \cup In(tmp[t])
                        /\ Mark(z, why) /\ (z # {} => why = "dropped" \/ CanFail)
            BY <1>0, <1>2, PassesIn
      <2>2. Held \subseteq Held' \cup In(tmp[t]) /\ Held' \subseteq Held
            BY <1>2, HeldLess
      <2>3. tmp'[t] = << >> /\ \A u \in Threads \ {t} : tmp'[u] = tmp[u]
            BY <1>2 DEF TypeOK, DataOK
      <2>4. UnderWay' = In(stdio)' \cup UNION {In(tmp'[u]) : u \in Settled}
            BY DEF UnderWay, In, HandOn
      <2>5. In(tmp[t]) \subseteq UnderWay
            BY DEF UnderWay, HandOn
      <2>6. \A u \in Settled : In(tmp'[u]) \subseteq UnderWay
            BY <2>3, InNone DEF UnderWay, Settled
      <2>7. In(stdio)' \subseteq UnderWay
            BY <1>0, <2>1, <2>5 DEF UnderWay
      <2>8. UnderWay' \subseteq UnderWay
            BY <2>4, <2>6, <2>7
      <2> QED
          BY <1>0, <2>1, <2>2, <2>5, <2>8 DEF Handed
<1> QED
    BY <1>1, <1>2 DEF HandOn

\* The formatting of an append in sync mode.
LEMMA AppendSyncIs ==
    ASSUME TypeOK, PlaceInv, NEW t \in Clients, AppendSync(t)
    PROVE  /\ UNCHANGED <<block0, bytes, files, next, opens, close, dir>>
           /\ t \in Settled /\ Settled' = Settled /\ rec[t] \in Rec /\ pc[t] \in BeforeWrite
           /\ tmp[t] = << >> /\ tmp' = [tmp EXCEPT ![t] = <<rec[t]>>]
           /\ Held' = Held \cup {rec[t]} /\ UnderWay' = UnderWay \cup {rec[t]}
           /\ fate' = [fate EXCEPT ![rec[t]] = "kept"]
<1>0. t \in Threads /\ rec[t] \in Rec /\ <<rec[t]>> \in Seq(Slot)
      BY DEF AppendSync, AppendMode, TypeOK, PcOK, Threads, Slot
<1>1. UNCHANGED <<block0, bytes, files, next, opens, close, dir>> /\ tmp[t] = << >>
      BY <1>0 DEF AppendSync, AppendMode, PlaceInv, TmpPlaces, bounds
<1>2. tmp' = [tmp EXCEPT ![t] = <<rec[t]>>] /\ fate' = [fate EXCEPT ![rec[t]] = "kept"]
      BY DEF AppendSync, AppendMode
<1>3. t \in Settled /\ Settled' = Settled
      <2>1. \A u \in Threads : pc'[u] # pc[u] => pc[u] \notin Copying /\ pc'[u] \notin Copying
            BY DEF AppendSync, AppendMode, Goto, TypeOK, PcOK, Copying
      <2> QED
          BY <1>0, <2>1, SettledStays DEF AppendSync, AppendMode, Settled, Copying
<1>4. Held' = Held \cup {rec[t]}
      BY <1>0, <1>1, <1>2, HeldMore, InOne
<1>5. UnderWay' = UnderWay \cup {rec[t]}
      <2>1. tmp'[t] = <<rec[t]>> /\ \A u \in Threads \ {t} : tmp'[u] = tmp[u]
            BY <1>0, <1>2 DEF TypeOK, DataOK
      <2>2. UnderWay' = In(stdio) \cup UNION {In(tmp'[u]) : u \in Settled}
            BY <1>1, <1>3 DEF UnderWay, In, files
      <2>3. Settled \subseteq Threads
            BY DEF Settled
      <2>4. In(tmp'[t]) = {rec[t]} /\ In(tmp[t]) = {}
            BY <1>0, <1>1, <2>1, InOne, InNone
      <2> QED
          BY <1>3, <2>1, <2>2, <2>3, <2>4 DEF UnderWay
<1> QED
    BY <1>0, <1>1, <1>2, <1>3, <1>4, <1>5 DEF AppendSync, AppendMode, BeforeWrite

\* The write of an append to the block, beside the block.
LEMMA PutBeside ==
    ASSUME TypeOK, NEW t \in Clients, Put(t)
    PROVE  /\ UNCHANGED <<block0, tmp, files, next, opens, close, dir>> /\ buff
           /\ Settled' = Settled /\ rec[t] \in Rec /\ pc[t] \in BeforeWrite
                /\ pc'[Owner] = pc[Owner]
           /\ Held' = Held /\ OnFile' = OnFile /\ UnderWay' = UnderWay /\ fate' = AppendFate(t)
           /\ In(stdio)' = In(stdio) /\ In(disk)' = In(disk)
<1>0. t \in Threads /\ rec[t] \in Rec
      BY DEF Put, AppendWrite, TypeOK, PcOK, Threads
<1>1. UNCHANGED <<block0, tmp, files, next, opens, close, dir>> /\ buff /\ fate' = AppendFate(t)
      BY DEF Put, AppendWrite, bounds
<1>2. \A u \in Threads : pc'[u] # pc[u] => pc[u] \notin Copying /\ pc'[u] \notin Copying
      BY DEF Put, AppendWrite, Goto, TypeOK, PcOK, Copying
<1>3. Settled' = Settled /\ pc[t] \in BeforeWrite /\ pc'[Owner] = pc[Owner]
      BY <1>2, SettledStays DEF Put, AppendWrite, BeforeWrite, Goto, TypeOK, PcOK, Threads
<1>4. UnderWay' = UnderWay
      BY <1>1, <1>3 DEF UnderWay, In, files
<1> QED
    BY <1>0, <1>1, <1>3, <1>4, SameFiles

\* The copy.
LEMMA CopyIs ==
    ASSUME TypeOK, PlaceInv, Opened, NEW t \in Threads, Copy(t)
    PROVE  /\ UNCHANGED <<block0, bytes, files, fate, next, opens, close, dir>> /\ buff
           /\ tmp[t] = << >> /\ tmp' = [tmp EXCEPT ![t] = Flushed] /\ In(Flushed) = Live
           /\ Held' = Held \cup Live /\ UnderWay' = UnderWay
           /\ t \in Settled /\ Settled' = Settled \ {t}
<1>1. /\ UNCHANGED <<block0, bytes, files, fate, next, opens, close, dir>>
           /\ tmp' = [tmp EXCEPT ![t] = Flushed]
      BY DEF Copy, FlushCopy, OpenCopy, bounds
<1>2. tmp[t] = << >>
      BY DEF Copy, FlushCopy, OpenCopy, PlaceInv, TmpPlaces
<1>3. buff
      BY DEF Copy, FlushCopy, OpenCopy, Opened, Opening
<1>4. In(Flushed) = Live
      BY <1>3 DEF Live
<1>5. Held' = Held \cup Live
      BY <1>1, <1>2, <1>4, FlushedType, HeldMore
<1>6. t \in Settled /\ Settled' = Settled \ {t}
      BY DEF Copy, FlushCopy, OpenCopy, Settled, Copying, Goto, TypeOK, PcOK
<1>7. UnderWay' = UnderWay
      <2>1. \A u \in Threads \ {t} : tmp'[u] = tmp[u]
            BY <1>1 DEF TypeOK, DataOK
      <2>2. UnderWay' = In(stdio) \cup UNION {In(tmp'[u]) : u \in Settled \ {t}}
            BY <1>1, <1>6 DEF UnderWay, In, files
      <2>3. UnderWay = In(stdio) \cup In(tmp[t]) \cup UNION {In(tmp[u]) : u \in Settled \ {t}}
            BY <1>6 DEF UnderWay
      <2>4. \A u \in Settled \ {t} : tmp'[u] = tmp[u]
            BY <2>1 DEF Settled
      <2> QED
          BY <1>2, <2>2, <2>3, <2>4, InNone
<1> QED
    BY <1>1, <1>2, <1>3, <1>4, <1>5, <1>6, <1>7

\* The clear.
LEMMA ClearIs ==
    ASSUME TypeOK, TypeOK', NEW t \in Threads, Clear(t)
    PROVE  /\ UNCHANGED <<block0, tmp, files, next, opens, close, dir>>
           /\ Live' = {} /\ Unmapped' = Unmapped /\ ~AttachedTail'
           /\ In(mfile)' \subseteq In(mfile) /\ In(heap)' \subseteq In(heap)
           /\ (~mapped => mfile' = mfile)
           /\ Settled' = Settled \cup {t} /\ UnderWay' = UnderWay \cup In(tmp[t])
           /\ Held' = Held /\ OnFile' = OnFile /\ In(stdio)' = In(stdio) /\ In(disk)' = In(disk)
           /\ t \notin Settled
<1>0. mfile \in Block /\ heap \in Block /\ mfile' \in Block /\ heap' \in Block /\ block \in Block
      BY DEF TypeOK, DataOK, block
<1>1. ClearBlock /\ UNCHANGED <<block0, tmp, files, next, opens, close, dir>>
      BY DEF Clear, FlushClear, OpenClear, bounds
<1>2. block' = [block EXCEPT ![1] = Nul] /\ pos' = 0 /\ len' = 0
      BY <1>1 DEF ClearBlock, SetBlock, block, block0
<1>3. Live' = {}
      <2>1. block'[1] = Nul
            BY <1>0, <1>2 DEF Block
      <2> QED
          BY <2>1, LiveIsNext
<1>4. Unmapped' = Unmapped /\ (~mapped => mfile' = mfile)
      BY <1>1 DEF ClearBlock, SetBlock, Unmapped, Recoverable, In, block0
<1>5. In(mfile)' \subseteq In(mfile) /\ In(heap)' \subseteq In(heap)
      <2>1. \A i \in 1..BlockLen : mfile'[i] \in {Nul, mfile[i]} /\ heap'[i] \in {Nul, heap[i]}
            BY <1>0, <1>1 DEF ClearBlock, SetBlock, block, Block
      <2>2. In(mfile)' = {mfile'[i] : i \in 1..BlockLen} \cap Rec
              /\ In(heap)' = {heap'[i] : i \in 1..BlockLen} \cap Rec
            BY <1>0 DEF In, Block
      <2>3. Nul \notin Rec
            OBVIOUS
      <2> QED
          BY <1>0, <2>1, <2>2, <2>3, InSlots
<1>6. t \notin Settled /\ Settled' = Settled \cup {t}
      BY DEF Clear, FlushClear, OpenClear, Settled, Copying, Goto, After, TypeOK, PcOK
<1>7. UnderWay' = UnderWay \cup In(tmp[t])
      BY <1>1, <1>6 DEF UnderWay, In, files
<1>8. ~AttachedTail'
      BY <1>2 DEF AttachedTail
<1> QED
    BY <1>1, <1>3, <1>4, <1>5, <1>6, <1>7, <1>8, SameFiles
-----------------------------------------------------------------------------
(* FateInv, kind by kind.                                                      *)

\* No bytes, no change,
LEMMA NoBytesFate == ASSUME FateInv, NoBytes PROVE FateInv'
<1>1. UnderWay' = UnderWay /\ Stored' = Stored /\ fate' = fate /\ mapped' = mapped /\ mfile' = mfile
      BY SameBlock, SameFiles DEF NoBytes, UnderWay, Stored, In, files, block0, bytes
<1> QED
    BY <1>1, SameBlock, SameFiles DEF NoBytes, FateInv, Fresh, Apart, OldBytes, NotBack

\* the file side only loses records to the log file,
LEMMA HandOnFate ==
    ASSUME TypeOK, FateInv, NEW t \in Threads, NEW why \in Reasons, HandOn(t, why)
    PROVE  FateInv'
<1>1. PICK taken, filed, given : Handed(taken, filed, given, why)
      BY HandOnIs
<1>2. UNCHANGED <<block0, bytes>> /\ mapped' = mapped /\ mfile' = mfile
      BY DEF HandOn, block0, bytes
<1>3. /\ Live' = Live /\ Unmapped' = Unmapped /\ AttachedTail' = AttachedTail
      /\ In(mfile)' = In(mfile) /\ In(heap)' = In(heap)
      BY <1>2, SameBlock
<1>4. \A r \in Rec : /\ fate'[r] = "none" => fate[r] = "none"
                     /\ fate'[r] = "kept" => fate[r] = "kept"
      BY <1>1 DEF Handed, Mark, Reasons
<1>5. /\ Held' \subseteq Held /\ UnderWay' \subseteq UnderWay /\ In(disk) \subseteq In(disk)'
      /\ In(disk)' \subseteq In(disk) \cup In(stdio) \cup taken
           /\ In(stdio)' \subseteq In(stdio) \cup taken
      /\ taken \subseteq Held \cup In(stdio)
      BY <1>1, UnderWayHeld DEF Handed
<1>6. Stored' \subseteq Stored
      <2>1. OnFile' = In(stdio)' \cup In(disk)'
            BY DEF OnFile, In
      <2> QED
          BY <1>3, <1>5, <2>1 DEF Stored, OnFile
<1>7. Fresh'
      BY <1>4, <1>6 DEF FateInv, Fresh
<1>8. Apart'
      BY <1>2, <1>3, <1>5 DEF FateInv, Apart
<1>9. OldBytes'
      <2>1. In(mfile) \subseteq Rec
            BY DEF In
      <2> QED
          BY <1>2, <1>3, <1>4, <1>5, <2>1 DEF FateInv, OldBytes
<1>10. NotBack'
      <2>1. UnderWay \subseteq Rec
            BY DEF UnderWay, In
      <2> QED
          BY <1>3, <1>4, <1>5, <2>1 DEF FateInv, NotBack
<1> QED
    BY <1>7, <1>8, <1>9, <1>10 DEF FateInv

\* a record that is formatted for the log file was nowhere before,
LEMMA AppendSyncFate ==
    ASSUME TypeOK, PlaceInv, Numbers, FateInv, NEW t \in Clients, AppendSync(t) PROVE FateInv'
<1>1. /\ UNCHANGED <<block0, bytes, files>> /\ rec[t] \in Rec /\ pc[t] \in BeforeWrite
      /\ Held' = Held \cup {rec[t]} /\ UnderWay' = UnderWay \cup {rec[t]}
      /\ fate' = [fate EXCEPT ![rec[t]] = "kept"]
      BY AppendSyncIs
<1>2. /\ Live' = Live /\ Unmapped' = Unmapped /\ AttachedTail' = AttachedTail
      /\ In(mfile)' = In(mfile) /\ In(heap)' = In(heap)
      BY <1>1, SameBlock
<1>3. In(stdio)' = In(stdio) /\ In(disk)' = In(disk) /\ OnFile' = OnFile
      BY <1>1 DEF In, OnFile, files
<1>4. rec[t] \notin Stored
      BY <1>1 DEF Numbers, FateInv, Fresh
<1>5. \A r \in Rec : fate'[r] = IF r = rec[t] THEN "kept" ELSE fate[r]
      BY <1>1 DEF TypeOK, DataOK
<1>6. Live \subseteq Stored /\ Unmapped \subseteq Stored
      BY LiveInBlock DEF Stored
<1>7. Fresh'
      BY <1>1, <1>2, <1>3, <1>5 DEF FateInv, Fresh, Stored
<1>8. Apart'
      BY <1>1, <1>2, <1>3, <1>4, <1>6 DEF FateInv, Apart, block0
<1>9. OldBytes'
      <2>1. In(mfile) \subseteq Rec \cap Stored
            BY DEF In, Stored
      <2>2. mapped' = mapped /\ mfile' = mfile
            BY <1>1 DEF block0, bytes
      <2> QED
          BY <1>2, <1>3, <1>4, <1>5, <2>1, <2>2 DEF FateInv, OldBytes
<1>10. NotBack'
      <2>1. UnderWay \subseteq Rec
            BY DEF UnderWay, In
      <2> QED
          BY <1>1, <1>2, <1>3, <1>4, <1>5, <1>6, <2>1 DEF FateInv, NotBack
<1> QED
    BY <1>7, <1>8, <1>9, <1>10 DEF FateInv

\* and so was one that is written to the block,
LEMMA PutFate ==
    ASSUME TypeOK, TypeOK', PlaceInv, DataInv, Numbers, FateInv, NEW t \in Clients, Put(t)
    PROVE  FateInv'
<1>1. /\ UNCHANGED <<block0, tmp, files>> /\ buff /\ rec[t] \in Rec /\ pc[t] \in BeforeWrite
      /\ Held' = Held /\ OnFile' = OnFile /\ UnderWay' = UnderWay /\ fate' = AppendFate(t)
      /\ In(stdio)' = In(stdio) /\ In(disk)' = In(disk) /\ mapped' = mapped
      BY PutBeside DEF block0
<1>2. PutBlock(t) /\ (PutLast(t) \/ PutOver(t))
      BY PutIs
<1>3. \A r \in Rec : fate'[r] = IF r = rec[t] THEN (IF NearlyFull THEN "overflow" ELSE "kept")
                ELSE IF r \in Overwritten /\ fate[r] = "kept" THEN "overwritten" ELSE fate[r]
      BY <1>1 DEF AppendFate
<1>4. rec[t] \notin Stored
      BY <1>1 DEF Numbers, FateInv, Fresh
<1>5. /\ In(mfile)' \subseteq In(mfile) \cup {rec[t]} /\ In(heap)' \subseteq In(heap) \cup {rec[t]}
      /\ ~mapped => mfile' = mfile /\ In(mfile)' = In(mfile) /\ block = heap
      /\ mapped => block = mfile /\ mfile'[1] # Nul
      /\ In(mfile) \subseteq Rec \cap Stored /\ In(heap) \subseteq Rec \cap Stored
      BY <1>1, <1>2 DEF PutBlock, In, block, Stored
<1>6. Fresh'
      <2>1. Stored' \subseteq Stored \cup {rec[t]}
            BY <1>1, <1>5 DEF Stored
      <2> QED
          BY <1>3, <2>1 DEF FateInv, Fresh
<1>7. Apart'
      <2>1. mapped => Unmapped' = {}
            BY <1>1 DEF Unmapped
      <2>2. ~mapped => Unmapped' = Unmapped
            BY <1>1, <1>5 DEF Unmapped, Recoverable, In
      <2> QED
          BY <1>1, <1>4, <1>5, <2>1, <2>2 DEF FateInv, Apart
<1>8. OldBytes'
      <2>1. CASE mapped
            BY <1>5, <2>1 DEF OldBytes
      <2>2. CASE ~mapped
            <3>1. mfile[1] = Nul => \A r \in In(mfile) : fate[r] = "kept" => r \in In(disk)
                  BY <2>2 DEF FateInv, OldBytes
            <3>2. \A r \in In(mfile) : fate'[r] = "kept" => fate[r] = "kept"
                  BY <1>3, <1>4, <1>5
            <3> QED
                BY <1>1, <1>5, <2>2, <3>1, <3>2 DEF OldBytes
      <2> QED
          BY <2>1, <2>2
<1>9. NotBack'
      <2> SUFFICES ASSUME NEW r \in UnderWay \ In(disk), fate'[r] = "kept" PROVE r \notin Live'
          BY <1>1 DEF NotBack
      <2>1. r \in Rec /\ r # rec[t] /\ fate[r] = "kept" /\ r \notin Live
            <3>1. r \in Rec /\ r \in Stored
                  BY UnderWayHeld DEF UnderWay, In
            <3> QED
                BY <1>3, <1>4, <3>1 DEF FateInv, NotBack
      <2>2. CASE PutLast(t)
            BY <2>1, <2>2 DEF PutLast
      <2>3. CASE PutOver(t) /\ block[1] # Nul
            BY <2>1, <2>3 DEF PutOver
      <2>4. CASE PutOver(t) /\ block[1] = Nul /\ mapped
            <3>1. In(block) = In(mfile) /\ mfile[1] = Nul /\ AttachedTail
                  BY <1>5, <2>4 DEF PutOver
            <3>2. r \notin In(mfile)
                  BY <2>1, <3>1 DEF FateInv, OldBytes
            <3> QED
                BY <2>4, <3>1, <3>2 DEF PutOver
      <2>5. CASE PutOver(t) /\ ~mapped
            <3>1. In(block) = {}
                  BY <1>1, <1>5, <2>5 DEF PutOver, DataInv, BlockInv, HeapTail
            <3> QED
                BY <2>5, <3>1 DEF PutOver
      <2> QED
          BY <1>2, <2>2, <2>3, <2>4, <2>5
<1> QED
    BY <1>6, <1>7, <1>8, <1>9 DEF FateInv

\* a copy only has what the block has,
LEMMA CopyFate ==
    ASSUME TypeOK, PlaceInv, Opened, FateInv, NEW t \in Threads, Copy(t) PROVE FateInv'
<1>1. /\ UNCHANGED <<block0, bytes, files, fate>> /\ Held' = Held \cup Live /\ UnderWay' = UnderWay
      BY CopyIs
<1>2. /\ Live' = Live /\ Unmapped' = Unmapped /\ AttachedTail' = AttachedTail
      /\ In(mfile)' = In(mfile) /\ In(heap)' = In(heap)
      BY <1>1, SameBlock
<1>3. /\ In(stdio)' = In(stdio) /\ In(disk)' = In(disk) /\ OnFile' = OnFile
      /\ mapped' = mapped /\ mfile' = mfile
      BY <1>1 DEF In, OnFile, files, block0, bytes
<1>4. Live \subseteq In(mfile) \cup In(heap) /\ Unmapped \subseteq In(mfile) /\ (~mapped =>
          Live \subseteq In(heap))
      BY LiveInBlock DEF block
<1>5. Fresh'
      BY <1>1, <1>2, <1>3, <1>4 DEF FateInv, Fresh, Stored
<1>6. Apart'
      BY <1>1, <1>2, <1>3, <1>4 DEF FateInv, Apart, Unmapped
<1>7. OldBytes' /\ NotBack'
      BY <1>1, <1>2, <1>3 DEF FateInv, OldBytes, NotBack
<1> QED
    BY <1>5, <1>6, <1>7 DEF FateInv

\* nothing is in the block after a clear,
LEMMA ClearFate == ASSUME TypeOK, TypeOK', FateInv, NEW t \in Threads, Clear(t) PROVE FateInv'
<1>1. /\ UNCHANGED <<block0, tmp, files>> /\ mapped' = mapped
      /\ Live' = {} /\ Unmapped' = Unmapped /\ ~AttachedTail'
      /\ In(mfile)' \subseteq In(mfile) /\ In(heap)' \subseteq In(heap)
      /\ (~mapped => mfile' = mfile)
      /\ Held' = Held /\ OnFile' = OnFile /\ In(stdio)' = In(stdio) /\ In(disk)' = In(disk)
      BY ClearIs DEF block0
<1>2. \A r \in Rec : /\ fate'[r] = "none" => fate[r] = "none"
                     /\ fate'[r] = "kept" => fate[r] = "kept"
      BY DEF Clear, FlushClear, OpenClear, Mark, hist
<1>3. Fresh'
      BY <1>1, <1>2 DEF FateInv, Fresh, Stored
<1>4. Apart'
      BY <1>1 DEF FateInv, Apart
<1>5. OldBytes'
      <2>1. In(mfile) \subseteq Rec /\ (~mapped => In(mfile)' = In(mfile))
            BY <1>1 DEF In
      <2> QED
          BY <1>1, <1>2, <2>1 DEF FateInv, OldBytes
<1>6. NotBack'
      BY <1>1 DEF NotBack
<1> QED
    BY <1>3, <1>4, <1>5, <1>6 DEF FateInv

\* What an attach puts in use: the mapped file as it is, or a heap block with no record.
LEMMA OpenCallIs ==
    ASSUME TypeOK, TypeOK', PlaceInv, OpenCall
    PROVE  /\ UNCHANGED <<tmp, mfile, files, fate, close, dir, next>> /\ opens' = opens + 1
           /\ ~buff /\ ~mapped /\ buff' /\ close /\ Live = {} /\ Unmapped = Recoverable
           /\ AttachedTail' /\ pc[Owner] = "idle" /\ pc'[Owner] = "OpenCopy"
           /\ Recoverable' = Recoverable /\ In(mfile)' = In(mfile)
           /\ mapped' => Live' = Recoverable /\ Unmapped' = {} /\ heap' = heap
           /\ ~mapped' => Live' = {} /\ Unmapped' = Unmapped /\ In(heap)' = {}
           /\ Settled' = Settled /\ UnderWay' = UnderWay
<1>1. UNCHANGED <<tmp, mfile, files, fate, close, dir, next>> /\ opens' = opens + 1 /\ close
      BY DEF OpenCall, hist
<1>2. ~buff /\ ~mapped /\ Live = {} /\ Unmapped = Recoverable
      BY DEF OpenCall, PlaceInv, OwnerBlock, MapHeld, Live, Unmapped
<1>3. buff' /\ pos' = 0 /\ len' = BlockLen
      BY DEF OpenCall, AttachedLen
<1>4. pc[Owner] = "idle" /\ pc'[Owner] = "OpenCopy" /\ \A u \in Threads \ {Owner} : pc'[u] = pc[u]
      BY DEF OpenCall, Goto, TypeOK, PcOK, Threads
<1>5. Settled' = Settled
      <2>1. \A u \in Threads : pc'[u] # pc[u] => pc[u] \notin Copying /\ pc'[u] \notin Copying
            BY <1>4 DEF Copying
      <2> QED
          BY <2>1, SettledStays
<1>6. UnderWay' = UnderWay
      BY <1>1, <1>5 DEF UnderWay, In, files
<1>7. Recoverable' = Recoverable /\ In(mfile)' = In(mfile)
      BY <1>1 DEF Recoverable, In
<1>8. ASSUME mapped' PROVE Live' = Recoverable /\ Unmapped' = {} /\ heap' = heap
      <2>1. block' = mfile /\ mfile \in Block /\ heap' = heap
            BY <1>8 DEF OpenCall, block, TypeOK, DataOK
      <2>2. In(mfile) = {mfile[i] : i \in 1..BlockLen} \cap Rec
            BY <2>1, InSlots
      <2> QED
          BY <1>3, <1>8, <2>1, <2>2, LiveIsNext DEF Recoverable, Unmapped
<1>9. ASSUME ~mapped' PROVE Live' = {} /\ Unmapped' = Unmapped /\ In(heap)' = {}
      <2>1. heap' \in Block /\ \A i \in 1..BlockLen : heap'[i] \notin Rec
            <3>1. heap' \in {Blank, [i \in 1..BlockLen |-> Junk]} /\ Nul \notin Rec
                    /\ Junk \notin Rec
                  BY <1>9 DEF OpenCall
            <3> QED
                BY <3>1 DEF Blank, TypeOK, DataOK
      <2>2. In(heap)' = {}
            BY <2>1 DEF In, Block
      <2>3. block' = heap'
            BY <1>9 DEF block
      <2>4. Live' = {}
            BY <1>3, <2>1, <2>3, LiveIsNext
      <2> QED
          BY <1>2, <1>7, <1>9, <2>2, <2>4 DEF Unmapped
<1>10. AttachedTail'
      BY <1>3 DEF AttachedTail
<1> QED
    BY <1>1, <1>2, <1>3, <1>4, <1>5, <1>6, <1>7, <1>8, <1>9, <1>10

\* an attach brings back what the mapped file has, and nothing else,
LEMMA OpenCallFate == ASSUME TypeOK, TypeOK', PlaceInv, FateInv, OpenCall PROVE FateInv'
<1>1. /\ UNCHANGED <<tmp, mfile, files, fate>>
      /\ ~mapped /\ Unmapped = Recoverable /\ AttachedTail' /\ In(mfile)' = In(mfile)
      /\ mapped' => Live' = Recoverable /\ Unmapped' = {} /\ heap' = heap
      /\ ~mapped' => Live' = {} /\ Unmapped' = Unmapped /\ In(heap)' = {}
      /\ UnderWay' = UnderWay
      BY OpenCallIs
<1>2. Held' = Held /\ OnFile' = OnFile /\ In(stdio)' = In(stdio) /\ In(disk)' = In(disk)
      BY <1>1, SameFiles
<1>3. In(heap)' \subseteq In(heap)
      BY <1>1 DEF In
<1>4. Fresh'
      BY <1>1, <1>2, <1>3 DEF FateInv, Fresh, Stored
<1>5. Apart'
      BY <1>1, <1>2 DEF FateInv, Apart
<1>6. OldBytes'
      BY <1>1, <1>2 DEF FateInv, OldBytes
<1>7. NotBack'
      BY <1>1, <1>2, UnderWayHeld DEF FateInv, NotBack, Apart
<1> QED
    BY <1>4, <1>5, <1>6, <1>7 DEF FateInv

\* The end of the buffer: what was mapped is zeroed.
LEMMA CloseFreeIs ==
    ASSUME TypeOK, CloseFree
    PROVE  /\ UNCHANGED <<tmp, files, close, dir, next, opens>> /\ close' = close /\ ~mapped'
                /\ Live' = {}
           /\ Unmapped' = Unmapped /\ In(mfile)' \subseteq In(mfile) /\ In(heap)' = {}
           /\ mapped => In(mfile)' = {} /\ Recoverable' = {}
           /\ ~mapped => mfile' = mfile
           /\ Settled' = Settled /\ UnderWay' = UnderWay
<1>1. UNCHANGED <<tmp, files, close, dir, next, opens>> /\ ~buff' /\ ~mapped' /\ heap' = Blank
      BY DEF CloseFree, bounds
<1>2. In(heap)' = {}
      <2>1. Nul \notin Rec
            OBVIOUS
      <2> QED
          BY <1>1, <2>1 DEF In, Blank
<1>3. ASSUME mapped PROVE In(mfile)' = {} /\ Recoverable' = {}
      <2>1. mfile' = Blank /\ BlockLen \in Nat \ {0} /\ Nul \notin Rec
            BY <1>3 DEF CloseFree
      <2> QED
          BY <2>1 DEF In, Blank, Recoverable
<1>4. ~mapped => mfile' = mfile
      BY DEF CloseFree
<1>5. Live' = {}
      BY <1>1 DEF Live
<1>6. Settled' = Settled
      <2>1. \A u \in Threads : pc'[u] # pc[u] => pc[u] \notin Copying /\ pc'[u] \notin Copying
            BY DEF CloseFree, Goto, Copying, TypeOK, PcOK, Threads
      <2> QED
          BY <2>1, SettledStays
<1>7. UnderWay' = UnderWay
      BY <1>1, <1>6 DEF UnderWay, In, files
<1>8. /\ Unmapped' = Unmapped /\ In(mfile)' \subseteq In(mfile)
      /\ mapped => In(mfile)' = {} /\ Recoverable' = {}
      /\ ~mapped => mfile' = mfile
      <2>1. mapped => Unmapped' = {} /\ Unmapped = {}
            BY <1>1, <1>3 DEF Unmapped
      <2>2. ~mapped => Unmapped' = Unmapped /\ In(mfile)' = In(mfile)
            BY <1>1, <1>4 DEF Unmapped, Recoverable, In
      <2> QED
          BY <1>3, <1>4, <2>1, <2>2
<1> QED
    BY <1>1, <1>2, <1>5, <1>6, <1>7, <1>8

LEMMA CloseFreeFate == ASSUME TypeOK, FateInv, CloseFree PROVE FateInv'
<1>1. /\ UNCHANGED <<tmp, files>> /\ ~mapped' /\ Live' = {} /\ Unmapped' = Unmapped
      /\ In(mfile)' \subseteq In(mfile) /\ In(heap)' = {}
      /\ mapped => In(mfile)' = {}
      /\ ~mapped => mfile' = mfile
      BY CloseFreeIs
<1>2. Held' = Held /\ OnFile' = OnFile /\ In(stdio)' = In(stdio) /\ In(disk)' = In(disk)
      BY <1>1, SameFiles
<1>3. \A r \in Rec : /\ fate'[r] = "none" => fate[r] = "none"
                     /\ fate'[r] = "kept" => fate[r] = "kept"
      BY DEF CloseFree, Mark
<1>4. Fresh'
      BY <1>1, <1>2, <1>3 DEF FateInv, Fresh, Stored
<1>5. Apart'
      BY <1>1, <1>2 DEF FateInv, Apart
<1>6. OldBytes'
      <2>1. In(mfile) \subseteq Rec /\ (~mapped => In(mfile)' = In(mfile))
            BY <1>1 DEF In
      <2> QED
          BY <1>1, <1>2, <1>3, <2>1 DEF FateInv, OldBytes
<1>7. NotBack'
      BY <1>1 DEF NotBack
<1> QED
    BY <1>4, <1>5, <1>6, <1>7 DEF FateInv

\* The end of the process.
LEMMA DieIs ==
    ASSUME TypeOK, Die
    PROVE  /\ UNCHANGED <<mfile, disk, next, opens>> /\ close' /\ dir' = FALSE /\ ~mapped' /\ ~buff'
                /\ stdio' = << >>
           /\ Live' = {} /\ Unmapped' = Recoverable /\ Recoverable' = Recoverable
           /\ In(mfile)' = In(mfile) /\ In(disk)' = In(disk) /\ In(stdio)' = {}
           /\ In(heap)' = {} /\ Held' = {} /\ UnderWay' = {} /\ \A t \in Threads : tmp'[t] = << >>
           /\ Settled' = Threads
           /\ Mark(Rec \ (Recoverable \cup In(disk)), "crashed")
<1>1. /\ UNCHANGED <<mfile, disk, next, opens>> /\ close' /\ dir' = FALSE
      /\ ~mapped' /\ ~buff' /\ stdio' = << >>
      /\ heap' = Blank /\ \A t \in Threads : tmp'[t] = << >> /\ pc'[t] \in {"idle", "exited"}
      /\ Mark(Rec \ (Recoverable \cup In(disk)), "crashed")
      BY DEF Die, bounds
<1>2. Live' = {} /\ Recoverable' = Recoverable /\ Unmapped' = Recoverable
      BY <1>1 DEF Live, Unmapped, Recoverable, In
<1>3. In(mfile)' = In(mfile) /\ In(disk)' = In(disk) /\ In(stdio)' = {}
      BY <1>1 DEF In
<1>4. In(heap)' = {}
      <2>1. Nul \notin Rec
            OBVIOUS
      <2> QED
          BY <1>1, <2>1 DEF In, Blank
<1>5. Held' = {} /\ UnderWay' = {}
      <2>1. \A t \in Threads : In(tmp'[t]) = {}
            BY <1>1 DEF In
      <2>2. Held' = UNION {In(tmp'[t]) : t \in Threads}
            BY DEF Held, In
      <2>3. UnderWay' = In(stdio)' \cup UNION {In(tmp'[t]) : t \in Settled'}
            BY DEF UnderWay, In
      <2>4. Settled' \subseteq Threads
            BY DEF Settled
      <2> QED
          BY <1>3, <2>1, <2>2, <2>3, <2>4
<1>6. Settled' = Threads
      BY <1>1 DEF Settled, Copying
<1> QED
    BY <1>1, <1>2, <1>3, <1>4, <1>5, <1>6

LEMMA DieFate == ASSUME TypeOK, FateInv, Die PROVE FateInv'
<1>1. /\ UNCHANGED <<mfile, disk>>
      /\ ~mapped' /\ Live' = {} /\ In(mfile)' = In(mfile) /\ In(disk)' = In(disk) /\ In(stdio)' = {}
      /\ In(heap)' = {} /\ Held' = {} /\ Mark(Rec \ (Recoverable \cup In(disk)), "crashed")
      BY DieIs
<1>2. \A r \in Rec : /\ fate'[r] = "none" => fate[r] = "none"
                     /\ fate'[r] = "kept" => r \in Recoverable \cup In(disk)
      BY <1>1 DEF Mark
<1>3. OnFile' = In(disk)
      BY <1>1 DEF OnFile, In
<1>4. Fresh'
      BY <1>1, <1>2, <1>3 DEF FateInv, Fresh, Stored, OnFile
<1>5. Apart'
      BY <1>1 DEF FateInv, Apart
<1>6. OldBytes'
      <2>1. In(mfile) \subseteq Rec
            BY DEF In
      <2> QED
          BY <1>1, <1>2, <2>1 DEF Recoverable, OldBytes
<1>7. NotBack'
      BY <1>1 DEF NotBack
<1> QED
    BY <1>4, <1>5, <1>6, <1>7 DEF FateInv

-----------------------------------------------------------------------------
(* All of it together.                                                         *)

DeliveryInv == RecordInv /\ Numbers /\ Opened /\ Named /\ FateInv

LEMMA DeliveryInit == Init => DeliveryInv
<1> SUFFICES ASSUME Init PROVE DeliveryInv
    OBVIOUS
<1>1. PICK n \in LeftOver : /\ mfile = [i \in 1..BlockLen |-> IF i <= n THEN i ELSE Nul]
                           /\ next = n + 1
                           /\ fate = [r \in Rec |-> IF r <= n THEN "kept" ELSE "none"]
      BY DEF Init
<1>2. n \in Nat /\ n <= MaxAppends /\ MaxAppends \in Nat /\ BlockLen \in Nat \ {0} /\ Nul \notin Rec
      OBVIOUS
<1>3. \A c \in Clients : pc[c] = "idle" /\ rec[c] = 0 /\ c \in Threads
      BY DEF Init, Threads
<1>4. \A t \in Threads : tmp[t] = << >>
      BY DEF Init
<1>5. Held = {} /\ In(stdio) = {} /\ In(disk) = {}
      BY <1>4, InNone DEF Held, Init
<1>6. In(heap) = {}
      BY <1>2 DEF In, Init, Blank
<1>7. \A r \in In(mfile) : r \in Rec /\ r <= n
      BY <1>1, <1>2 DEF In
<1>8. n >= 1 => mfile[1] # Nul
      <2>1. 1 \in 1..BlockLen /\ (n >= 1 => mfile[1] = 1 /\ 1 \in Rec)
            BY <1>1, <1>2 DEF Rec
      <2> QED
          BY <1>2, <2>1
<1>9. Numbers
      BY <1>1, <1>2, <1>3 DEF Numbers, BeforeWrite, Rec
<1>10. Opened
      BY <1>3 DEF Opened, Unpublished, Opening, BeforeWrite, Init, Threads
<1>15. Named
      BY <1>3 DEF Named, Filing, Init, Threads
<1>11. Fresh
      BY <1>1, <1>5, <1>6, <1>7 DEF Fresh, Stored, OnFile
<1>12. Apart
      BY <1>5, <1>6 DEF Apart
<1>13. OldBytes
      <2>1. mfile[1] = Nul => In(mfile) = {}
            BY <1>2, <1>7, <1>8 DEF Rec
      <2> QED
          BY <2>1 DEF OldBytes
<1>14. NotBack
      BY <1>5, UnderWayHeld DEF NotBack
<1> QED
    BY <1>9, <1>10, <1>11, <1>12, <1>13, <1>14, <1>15, RecordInit DEF DeliveryInv, FateInv

LEMMA DeliveryStep == ASSUME DeliveryInv, Next PROVE DeliveryInv'
<1>1. RecordInv' /\ TypeOK /\ TypeOK' /\ PlaceInv /\ DataInv
      BY RecordStep DEF DeliveryInv, RecordInv
<1>2. Numbers' /\ Opened' /\ Named'
      BY <1>1, NumbersStep, OpenedStep, NamedStep DEF DeliveryInv
<1>3. FateInv'
      <2>1. CASE NoBytes
            BY <2>1, NoBytesFate DEF DeliveryInv
      <2>2. ASSUME NEW t \in Threads,
                   (\E why \in Reasons : HandOn(t, why)) \/ Copy(t) \/ Clear(t)
            PROVE  FateInv'
            BY <1>1, <2>2, HandOnFate, CopyFate, ClearFate DEF DeliveryInv
      <2>3. ASSUME NEW t \in Clients, AppendSync(t) \/ Put(t) PROVE FateInv'
            BY <1>1, <2>3, AppendSyncFate, PutFate DEF DeliveryInv
      <2>4. CASE OpenCall \/ CloseFree \/ Die
            BY <1>1, <2>4, OpenCallFate, CloseFreeFate, DieFate DEF DeliveryInv
      <2> QED
          BY <1>1, <2>1, <2>2, <2>3, <2>4, StepKinds DEF Ends
<1> QED
    BY <1>1, <1>2, <1>3 DEF DeliveryInv
-----------------------------------------------------------------------------
(* The refinement. The records that Delivery has in the mapped block, in a heap *)
(* block, under way and given up.                                               *)

Safe == Accepted \cap InMapped
Fragile  == Accepted \cap (InHeap \ InMapped)
Moving   == Accepted \cap ((Held \cup In(stdio)) \ (InMapped \cup InHeap))
Lost     == {r \in Rec : fate[r] \notin {"none", "kept"}} \ In(disk)

\* Which block counts as the mapped one and which as the heap block.
LEMMA Blocks ==
    ASSUME MapHeld
    PROVE  /\ mapped => InMapped = Live /\ InHeap = {} /\ Unmapped = {}
           /\ ~mapped => InMapped = Unmapped /\ InHeap = Live /\ Unmapped = Recoverable
BY DEF MapHeld, InMapped, InHeap, Unmapped

\* __log2file files what was under way, or the second copy of what was given up, and
\* gives up what fails; or drops what it cannot file.
LEMMA HandOnFiles ==
    ASSUME DeliveryInv, opens <= 1 => \A r \in UnderWay : fate[r] = "kept" \/ r \in LeftBehind,
           NEW t \in Threads, NEW why \in Reasons, HandOn(t, why)
    PROVE  Promise!File \/ Promise!Drop
<1>0. TypeOK /\ MapHeld /\ FateInv /\ Kept
      BY DEF DeliveryInv, RecordInv, PlaceInv, DataInv
<1>1. PICK taken, filed, given : Handed(taken, filed, given, why)
      BY <1>0, HandOnIs
<1>2. InMapped' = InMapped /\ InHeap' = InHeap /\ InMapped \cup InHeap = Live \cup Unmapped
      BY <1>0, SameBlock, Blocks DEF HandOn
<1>3. /\ filed \cup In(stdio)' \cup given = In(stdio) \cup taken
      /\ In(disk)' = In(disk) \cup filed /\ taken \subseteq UnderWay /\ In(stdio) \subseteq UnderWay
      /\ Held \subseteq Held' \cup taken /\ Held' \subseteq Held
      /\ UnderWay \subseteq Rec /\ taken \subseteq Held \cup In(stdio)
      BY <1>1, UnderWayHeld DEF Handed, UnderWay, In
<1>4. \A r \in Rec : fate'[r] = IF r \in given /\ fate[r] = "kept" THEN why ELSE fate[r]
      BY <1>1 DEF Handed, Mark
<1> DEFINE rs == filed \ In(disk)
           no == {r \in given \ (In(disk) \cup filed) : fate[r] = "kept"}
<1>5. \A r \in UnderWay \ In(disk) : fate[r] = "kept" => r \in Moving
      BY <1>0, <1>2, <1>3, UnderWayHeld DEF FateInv, NotBack, Apart, Moving, Accepted
<1>6. rs \subseteq Moving \cup (IF opens > 1 THEN Lost ELSE Lost \cap LeftBehind)
      <2> SUFFICES ASSUME NEW r \in rs
                   PROVE  r \in Moving \/ (r \in Lost /\ (opens > 1 \/ r \in LeftBehind))
          OBVIOUS
      <2>1. r \in UnderWay \ In(disk) /\ r \in Rec
            BY <1>3
      <2>2. fate[r] # "none"
            BY <1>0, <2>1, UnderWayHeld DEF FateInv, Fresh
      <2>3. CASE fate[r] = "kept"
            BY <1>5, <2>1, <2>3
      <2>4. CASE fate[r] # "kept"
            <3>1. r \in Lost
                  BY <2>1, <2>2, <2>4 DEF Lost
            <3>2. opens \in Nat
                  BY <1>0 DEF TypeOK, DataOK
            <3> QED
                BY <2>1, <2>4, <3>1, <3>2
      <2> QED
          BY <2>3, <2>4
<1>7. no \subseteq Moving /\ (no # {} => why = "dropped" \/ CanFail)
      BY <1>1, <1>3, <1>5 DEF Handed
<1>8. In(disk)' = In(disk) \cup rs
      BY <1>3
<1>9. Accepted' = Accepted \ (rs \cup no)
      BY <1>3, <1>4 DEF Accepted, Reasons
<1>10. no \cap (InMapped \cup InHeap) = {}
      BY <1>7 DEF Moving
<1>11. Safe' = Safe \ rs /\ Fragile' = Fragile \ rs
      BY <1>2, <1>9, <1>10 DEF Safe, Fragile
<1>12. Moving' = Moving \ (rs \cup no)
      <2>1. Moving' \subseteq Moving \ (rs \cup no)
            BY <1>2, <1>3, <1>9 DEF Moving
      <2>2. ASSUME NEW r \in Moving \ (rs \cup no) PROVE r \in Moving'
            <3>1. r \in Accepted' /\ r \notin In(disk) /\ r \in Held \cup In(stdio)
                    /\ fate[r] = "kept"
                  BY <1>9, <2>2 DEF Moving, Accepted
            <3>2. r \in Held' \cup In(stdio)'
                  BY <1>3, <2>2, <3>1
            <3> QED
                BY <1>2, <2>2, <3>1, <3>2 DEF Moving
      <2> QED
          BY <2>1, <2>2
<1>13. Lost' = (Lost \cup no) \ rs
      <2>1. UnderWay \subseteq Rec
            BY <1>3
      <2> QED
          BY <1>3, <1>4 DEF Lost, Reasons
<1>16. why = "dropped" => ~dir /\ rs = {}
      <2>1. why = "dropped" => ~dir /\ In(disk)' = In(disk)
            BY DEF HandOn, files, In
      <2> QED
          BY <1>3, <2>1
<1>17. why = "failed" => dir
      <2>1. why = "failed" => dir \/ pc[t] \in Filing \cup {"CloseLog"}
            BY DEF HandOn
      <2>2. pc[t] = "CloseLog" => t = Owner
            BY <1>0 DEF TypeOK, PcOK, Threads, ClientPc, WorkerPc, TaskPc
      <2>3. ~dir => pc[Owner] \in {"idle"} \cup Opening /\ pc[t] \notin Filing
            BY DEF DeliveryInv, Named
      <2> QED
          BY <2>1, <2>2, <2>3 DEF Opening
<1> HIDE DEF rs, no
<1>14. UNCHANGED <<close, dir, opens>>
      BY DEF HandOn
<1>15. CASE why = "failed"
      <2>1. rs \in SUBSET (Moving \cup (IF opens > 1 THEN Lost ELSE Lost \cap LeftBehind))
            /\ no \in SUBSET (IF CanFail THEN Moving ELSE {})
            BY <1>6, <1>7, <1>15
      <2> QED
          BY <1>8, <1>11, <1>12, <1>13, <1>14, <1>15, <1>17, <2>1
               DEF Promise!File, Promise!Again, Safe, Fragile, Moving, Lost
<1>18. CASE why = "dropped"
      <2>1. /\ no \in SUBSET Moving /\ ~dir /\ In(disk)' = In(disk)
            /\ Safe' = Safe /\ Fragile' = Fragile
            /\ Moving' = Moving \ no /\ Lost' = Lost \cup no
            BY <1>7, <1>8, <1>11, <1>12, <1>13, <1>16, <1>18
      <2> QED
          BY <1>14, <2>1 DEF Promise!Drop, Safe, Fragile, Moving, Lost
<1> QED
    BY <1>15, <1>18 DEF Reasons

\* A call of append is accepted when it finds its place: under way to the log file,
LEMMA AppendSyncAccepted ==
    ASSUME DeliveryInv, NEW t \in Clients, AppendSync(t) PROVE Promise!Accept
<1>0. TypeOK /\ PlaceInv /\ MapHeld /\ FateInv
      BY DEF DeliveryInv, RecordInv, PlaceInv
<1>1. /\ UNCHANGED <<block0, bytes, files, next, opens, close, dir>> /\ rec[t] \in Rec
           /\ pc[t] \in BeforeWrite
      /\ Held' = Held \cup {rec[t]} /\ fate' = [fate EXCEPT ![rec[t]] = "kept"]
      BY <1>0, AppendSyncIs
<1>2. /\ InMapped' = InMapped /\ InHeap' = InHeap /\ InMapped \cup InHeap = Live \cup Unmapped
      /\ In(stdio)' = In(stdio) /\ In(disk)' = In(disk)
      BY <1>0, <1>1, SameBlock, Blocks DEF In, files
<1>3. fate[rec[t]] = "none" /\ rec[t] \notin Stored /\ rec[t] \notin InMapped \cup InHeap
      <2>1. fate[rec[t]] = "none" /\ rec[t] \notin Stored
            BY <1>0, <1>1 DEF DeliveryInv, Numbers, FateInv, Fresh
      <2>2. Live \cup Unmapped \subseteq Stored
            BY <1>0, LiveInBlock DEF Stored
      <2> QED
          BY <1>2, <2>1, <2>2
<1>4. \A r \in Rec : fate'[r] = IF r = rec[t] THEN "kept" ELSE fate[r]
      BY <1>0, <1>1 DEF TypeOK, DataOK
<1>5. opens > 0
      BY <1>0, <1>1 DEF DeliveryInv, Opened, Unpublished, TypeOK, DataOK
<1>6. rec[t] \notin In(disk) /\ Accepted' = Accepted \cup {rec[t]}
      BY <1>1, <1>2, <1>3, <1>4 DEF Accepted, Stored, OnFile
<1>7. Safe' = Safe /\ Fragile' = Fragile /\ Moving' = Moving \cup {rec[t]}
      BY <1>1, <1>2, <1>3, <1>6 DEF Safe, Fragile, Moving
<1>8. Lost' = Lost
      BY <1>2, <1>3, <1>4 DEF Lost
<1>9. rec[t] \in Rec \ (Safe \cup Fragile \cup Moving \cup In(disk) \cup Lost)
      BY <1>1, <1>3, <1>6 DEF Safe, Fragile, Moving, Lost, Accepted
<1> QED
    BY <1>1, <1>2, <1>5, <1>7, <1>8, <1>9
    DEF Promise!Accept, Promise!Known, Safe, Fragile, Moving, Lost

\* or in the block; or it is refused for want of room, where it may take something the
\* last process left with it.
LEMMA PutAccepted == ASSUME DeliveryInv, DeliveryInv', NEW t \in Clients, Put(t)
    PROVE Promise!Accept
<1>0. /\ TypeOK /\ TypeOK' /\ PlaceInv /\ MapHeld /\ DataInv /\ Kept /\ FateInv /\ Kept' /\ MapHeld'
      BY DEF DeliveryInv, RecordInv, PlaceInv, DataInv
<1>1. /\ UNCHANGED <<block0, tmp, files, next, opens, close, dir>> /\ buff /\ rec[t] \in Rec
           /\ pc[t] \in BeforeWrite
      /\ Held' = Held /\ OnFile' = OnFile /\ fate' = AppendFate(t)
      /\ In(stdio)' = In(stdio) /\ In(disk)' = In(disk) /\ mapped' = mapped
      BY <1>0, PutBeside DEF block0
<1>2. PutBlock(t) /\ (PutLast(t) \/ PutOver(t))
      BY <1>0, PutIs
<1>3. \A r \in Rec : fate'[r] = IF r = rec[t] THEN (IF NearlyFull THEN "overflow" ELSE "kept")
                ELSE IF r \in Overwritten /\ fate[r] = "kept" THEN "overwritten" ELSE fate[r]
      BY <1>1 DEF AppendFate
<1>4. fate[rec[t]] = "none" /\ rec[t] \notin Stored
      BY <1>0, <1>1 DEF DeliveryInv, Numbers, FateInv, Fresh
<1>5. opens > 0
      BY <1>0, <1>1 DEF DeliveryInv, Opened, Unpublished, TypeOK, DataOK
<1>6. /\ mapped => InMapped = Live /\ InHeap = {} /\ Unmapped = {}
      /\ ~mapped => InMapped = Unmapped /\ InHeap = Live
      /\ mapped => InMapped' = Live' /\ InHeap' = {}
      /\ ~mapped => InMapped' = Unmapped' /\ InHeap' = Live' /\ Unmapped' = Unmapped
      <2>1. ~mapped => mfile' = mfile
            BY <1>2 DEF PutBlock
      <2>2. ~mapped => Unmapped' = Unmapped
            BY <1>1, <2>1 DEF Unmapped, Recoverable, In
      <2>3. /\ mapped' => InMapped' = Live' /\ InHeap' = {}
            /\ ~mapped' => InMapped' = Unmapped' /\ InHeap' = Live'
            BY <1>0 DEF MapHeld, InMapped, InHeap, Unmapped
      <2> QED
          BY <1>0, <1>1, <2>2, <2>3, Blocks
<1>7. rec[t] \notin Live \cup Unmapped \cup Held \cup In(stdio) \cup In(disk)
      BY <1>0, <1>4, LiveInBlock DEF Stored, OnFile
<1>8. rec[t] \in Rec \ (Safe \cup Fragile \cup Moving \cup In(disk) \cup Lost)
      BY <1>1, <1>4, <1>7 DEF Safe, Fragile, Moving, Lost, Accepted
<1>9. Live \subseteq Rec /\ Unmapped \subseteq Rec /\ Live' \subseteq Rec
      BY DEF Live, Unmapped, Recoverable, In
<1>10. CASE PutLast(t) /\ ~NearlyFull
      <2>1. Live' = Live \cup {rec[t]} /\ Overwritten = {}
            BY <1>10 DEF PutLast, Overwritten
      <2>2. \A r \in Rec : fate'[r] = IF r = rec[t] THEN "kept" ELSE fate[r]
            BY <1>3, <1>10, <2>1
      <2>3. Accepted' = Accepted \cup {rec[t]} /\ Lost' = Lost
            BY <1>1, <1>4, <1>7, <2>2 DEF Accepted, Lost
      <2>4. Moving' = Moving
            BY <1>1, <1>6, <1>7, <2>1, <2>3 DEF Moving
      <2>5. CASE mapped
            <3>1. Safe' = Safe \cup {rec[t]} /\ Fragile' = Fragile
                  BY <1>1, <1>6, <2>1, <2>3, <2>5 DEF Safe, Fragile
            <3>2. /\ {} \in SUBSET (IF ~close THEN {} ELSE Safe) /\ {} \in SUBSET {}
                  /\ Safe' = (Safe \ {}) \cup {rec[t]} /\ Moving' = Moving \cup {}
                  /\ Lost' = Lost \cup ({} \ {}) \cup {}
                  BY <2>3, <2>4, <3>1
            <3>3. Promise!Store({rec[t]}, {})
                  BY <3>2 DEF Promise!Store, Safe, Fragile, Moving, Lost
            <3> QED
                BY <1>1, <1>5, <1>8, <3>1, <3>3
                DEF Promise!Accept, Promise!Known, Safe, Fragile, Moving, Lost
      <2>6. CASE ~mapped
            <3>1. Safe' = Safe /\ Fragile' = Fragile \cup {rec[t]}
                  BY <1>1, <1>6, <1>7, <2>1, <2>3, <2>6 DEF Safe, Fragile
            <3> QED
                BY <1>1, <1>5, <1>8, <2>3, <2>4, <3>1
                DEF Promise!Accept, Promise!Known, Safe, Fragile, Moving, Lost
      <2> QED
          BY <2>5, <2>6
<1>11. ASSUME NEW over \in SUBSET (IF ~close THEN {} ELSE Safe), NEW copied \in SUBSET over,
              Safe' = Safe \ over, Moving' = Moving \cup copied,
              Lost' = Lost \cup (over \ copied) \cup {rec[t]}, Fragile' = Fragile
       PROVE  Promise!Accept
      <2>1. \E r \in Rec \ (Safe \cup Fragile \cup Moving \cup In(disk) \cup Lost) :
                \E o \in SUBSET (IF ~close THEN {} ELSE Safe) : \E p \in SUBSET o :
                    /\ Safe' = (Safe \ o) \cup {} /\ Moving' = Moving \cup p
                    /\ Lost' = Lost \cup (o \ p) \cup {r} /\ Fragile' = Fragile
            <3>1. Safe' = (Safe \ over) \cup {}
                  BY <1>11
            <3> QED
                BY <1>8, <1>11, <3>1
      <2> QED
          BY <1>1, <1>5, <2>1
          DEF Promise!Accept, Promise!Store, Promise!Known, Safe, Fragile, Moving, Lost
<1>12. CASE PutLast(t) /\ NearlyFull
      <2>1. Live' = Live /\ Overwritten = {}
            BY <1>12 DEF PutLast, Overwritten
      <2>2. \A r \in Rec : fate'[r] = IF r = rec[t] THEN "overflow" ELSE fate[r]
            BY <1>3, <1>12, <2>1
      <2>3. Accepted' = Accepted /\ Lost' = Lost \cup {rec[t]}
            BY <1>1, <1>4, <1>7, <2>2 DEF Accepted, Lost
      <2>4. Moving' = Moving /\ Safe' = Safe /\ Fragile' = Fragile
            BY <1>1, <1>6, <2>1, <2>3 DEF Moving, Safe, Fragile
      <2> DEFINE over == {}
      <2>5. /\ over \in SUBSET (IF ~close THEN {} ELSE Safe) /\ over \in SUBSET over
            /\ Safe' = Safe \ over /\ Moving' = Moving \cup over
            /\ Lost' = Lost \cup (over \ over) \cup {rec[t]}
            BY <2>3, <2>4
      <2> HIDE DEF over
      <2> QED
          BY <1>11, <2>4, <2>5
<1>13. CASE PutOver(t) /\ ~mapped
      <2>1. In(block) = {} /\ block = heap
            BY <1>0, <1>1, <1>13 DEF PutOver, DataInv, BlockInv, HeapTail, block
      <2>2. Live' = {} /\ Live = {}
            BY <1>0, <1>13, <2>1, LiveInBlock DEF PutOver
      <2>3. \A r \in Overwritten : r \in Rec => r \notin Accepted
            <3>1. SUFFICES ASSUME NEW r \in Overwritten, r \in Accepted PROVE FALSE
                  BY DEF Accepted
            <3>2. r \notin Held \cup OnFile /\ r = block[pos + 1] /\ r \in Rec
                  BY <1>13, <3>1 DEF PutOver, Accepted
            <3>3. block \in Block /\ pos + 1 \in 1..BlockLen
                  BY <1>0, <1>13 DEF PutOver, AttachedTail, TypeOK, DataOK, block
            <3>4. block[pos + 1] \in In(block)
                  BY <3>2, <3>3, InSlots
            <3> QED
                BY <2>1, <3>2, <3>4
      <2>4. \A r \in Rec : r \in Accepted \/ fate[r] # "kept" =>
                fate'[r] = IF r = rec[t] THEN "overflow" ELSE fate[r]
            BY <1>3, <1>13, <2>3 DEF PutOver
      <2>5. Accepted' = Accepted /\ Lost' = Lost \cup {rec[t]}
            <3>1. \A r \in Rec \ In(disk) : fate'[r] = IF r = rec[t] THEN "overflow" ELSE fate[r]
                  BY <2>4 DEF Accepted
            <3> QED
                BY <1>1, <1>4, <1>7, <3>1 DEF Accepted, Lost
      <2>6. Moving' = Moving /\ Safe' = Safe /\ Fragile' = Fragile
            BY <1>1, <1>6, <1>13, <2>2, <2>5 DEF Moving, Safe, Fragile
      <2> DEFINE over == {}
      <2>7. /\ over \in SUBSET (IF ~close THEN {} ELSE Safe) /\ over \in SUBSET over
            /\ Safe' = Safe \ over /\ Moving' = Moving \cup over
            /\ Lost' = Lost \cup (over \ over) \cup {rec[t]}
            BY <2>5, <2>6
      <2> HIDE DEF over
      <2> QED
          BY <1>11, <2>6, <2>7
<1>14. CASE PutOver(t) /\ mapped
      <2>1. close
            <3>1. len # pos
                  BY <1>14 DEF PutOver
            <3>2. pc[Owner] \in {"OpenCopy", "OpenClear"}
                  BY <1>0, <1>1, <3>1 DEF DataInv, BlockInv, Cursors
            <3> QED
                BY <3>2 DEF DeliveryInv, Opened, Opening
      <2>2. NearlyFull /\ \A r \in Rec : r \in Overwritten <=> r = block[pos + 1]
              /\ r \notin Held \cup OnFile
            BY <1>14 DEF PutOver
      <2> DEFINE given == {r \in Accepted : r \in Overwritten}
      <2>3. Accepted' = Accepted \ given /\ Lost' = Lost \cup given \cup {rec[t]}
            BY <1>1, <1>3, <1>4, <1>7, <2>2 DEF Accepted, Lost
      <2>4. given \subseteq Safe
            BY <1>0, <1>6, <1>14, <2>2 DEF Kept, Safe, Accepted
      <2>5. Safe' \subseteq Safe
            <3> SUFFICES ASSUME NEW r \in Safe' PROVE r \in Safe
                OBVIOUS
            <3>1. r \in Accepted /\ r \in Live'
                  BY <1>6, <1>14, <2>3 DEF Safe
            <3>2. CASE block[1] # Nul
                  BY <1>6, <1>14, <3>1, <3>2 DEF PutOver, Safe
            <3>3. CASE block[1] = Nul
                  <4>1. r \in In(mfile) /\ mfile[1] = Nul /\ AttachedTail
                        BY <1>14, <3>1, <3>3 DEF PutOver, block
                  <4> QED
                      BY <1>0, <3>1, <4>1 DEF FateInv, OldBytes, Accepted
            <3> QED
                BY <3>2, <3>3
      <2> DEFINE over == Safe \ Safe'
                 copied == over \ given
      <2>6. copied \subseteq Moving'
            <3> SUFFICES ASSUME NEW r \in copied PROVE r \in Moving'
                OBVIOUS
            <3>1. r \in Accepted' /\ r \notin Live' /\ r \notin In(disk)'
                    /\ fate'[r] = "kept" /\ r \in Rec
                  BY <1>1, <1>6, <1>14, <2>3 DEF Safe, Accepted
            <3>2. Unmapped' = {}
                  BY <1>1, <1>14 DEF Unmapped
            <3>3. r \in Held' \cup OnFile'
                  BY <1>0, <3>1, <3>2 DEF Kept
            <3>4. OnFile' = In(stdio)' \cup In(disk)'
                  BY DEF OnFile, In
            <3> QED
                BY <1>6, <1>14, <3>1, <3>3, <3>4 DEF Moving
      <2>7. Moving' = Moving \cup copied
            <3>1. Moving \subseteq Moving'
                  <4> SUFFICES ASSUME NEW r \in Moving PROVE r \in Moving'
                      OBVIOUS
                  <4>1. r \in Accepted' /\ r \in Held \cup In(stdio) /\ r \notin Live
                        BY <1>6, <1>14, <2>3, <2>4 DEF Moving, Safe
                  <4>2. r \notin Safe
                        BY <1>6, <1>14, <4>1 DEF Safe
                  <4>3. r \notin Live'
                        BY <1>6, <1>14, <2>5, <4>1, <4>2 DEF Safe
                  <4> QED
                      BY <1>1, <1>6, <1>14, <4>1, <4>3 DEF Moving
            <3>2. ASSUME NEW r \in Moving', r \notin Moving PROVE r \in copied
                  <4>1. r \in Accepted' /\ r \in Accepted /\ r \in Held \cup In(stdio)
                          /\ r \notin Live'
                        BY <1>1, <1>6, <1>14, <2>3, <3>2 DEF Moving
                  <4>2. r \in Live
                        BY <1>6, <1>14, <3>2, <4>1 DEF Moving
                  <4> QED
                      BY <1>6, <1>14, <2>3, <4>1, <4>2 DEF Safe
            <3> QED
                BY <2>6, <3>1, <3>2
      <2>8. given \subseteq over
            BY <2>3, <2>4 DEF Safe
      <2>9. Fragile' = Fragile
            BY <1>6, <1>14 DEF Fragile
      <2> HIDE DEF given
      <2>10. /\ over \in SUBSET (IF ~close THEN {} ELSE Safe) /\ copied \in SUBSET over
             /\ Safe' = Safe \ over /\ Lost' = Lost \cup (over \ copied) \cup {rec[t]}
            BY <2>1, <2>3, <2>5, <2>8
      <2> HIDE DEF over, copied
      <2> QED
          BY <1>11, <2>7, <2>9, <2>10
<1> QED
    BY <1>2, <1>10, <1>12, <1>13, <1>14

\* A copy is not seen.
LEMMA CopyStutters ==
    ASSUME DeliveryInv, NEW t \in Threads, Copy(t) PROVE UNCHANGED Promise!vars
<1>0. TypeOK /\ PlaceInv /\ MapHeld
      BY DEF DeliveryInv, RecordInv, PlaceInv
<1>1. UNCHANGED <<block0, bytes, files, fate, opens, close, dir>> /\ Held' = Held \cup Live
      BY <1>0, CopyIs DEF DeliveryInv
<1>2. /\ InMapped' = InMapped /\ InHeap' = InHeap /\ InMapped \cup InHeap = Live \cup Unmapped
      /\ In(stdio)' = In(stdio) /\ In(disk)' = In(disk)
      BY <1>0, <1>1, SameBlock, Blocks DEF In, files
<1>3. Accepted' = Accepted /\ Lost' = Lost
      BY <1>1, <1>2 DEF Accepted, Lost
<1>4. Safe' = Safe /\ Fragile' = Fragile /\ Moving' = Moving
      BY <1>1, <1>2, <1>3 DEF Safe, Fragile, Moving
<1> QED
    BY <1>1, <1>2, <1>3, <1>4 DEF Promise!vars, Promise!records, Safe, Fragile, Moving, Lost

\* When a block is emptied, or goes, what it had and is still under way goes on,
\* and the rest has been given up.
LEMMA Emptying ==
    ASSUME DeliveryInv, DeliveryInv', NEW t \in Threads, Clear(t) \/ CloseFree
    PROVE  \E rs \in SUBSET (Safe \cup Fragile) : \E copied \in SUBSET rs :
               /\ Safe' = Safe \ rs /\ Fragile' = Fragile \ rs /\ In(disk)' = In(disk)
               /\ Moving' = Moving \cup copied /\ Lost' = Lost \cup (rs \ copied)
               /\ UNCHANGED <<close, dir, opens>> /\ (fate' = fate => copied = rs)
<1>0. TypeOK /\ TypeOK' /\ MapHeld /\ MapHeld' /\ Kept /\ Kept'
      BY DEF DeliveryInv, RecordInv, PlaceInv, DataInv
<1>1. /\ UNCHANGED <<tmp, files, close, dir, opens>> /\ Live' = {} /\ Unmapped' = Unmapped
      /\ (mapped' = mapped \/ (~mapped' /\ (mapped => Recoverable' = {})))
      <2>1. CASE Clear(t)
            BY <1>0, <2>1, ClearIs DEF block0
      <2>2. CASE CloseFree
            BY <1>0, <2>2, CloseFreeIs
      <2> QED
          BY <2>1, <2>2
<1>2. Held' = Held /\ In(stdio)' = In(stdio) /\ In(disk)' = In(disk) /\ OnFile' = OnFile
      BY <1>1, SameFiles
<1>3. \A r \in Rec : \/ fate'[r] = fate[r]
                     \/ fate[r] = "kept" /\ fate'[r] = "wiped" /\ r \in Live
                          /\ r \notin Held \cup OnFile
      BY DEF Clear, FlushClear, OpenClear, CloseFree, Mark, hist
<1>4. /\ mapped => InMapped = Live /\ InHeap = {} /\ Unmapped = {}
      /\ ~mapped => InMapped = Unmapped /\ InHeap = Live /\ Unmapped = Recoverable
      /\ mapped' => InMapped' = Live' /\ InHeap' = {}
      /\ ~mapped' => InMapped' = Unmapped' /\ InHeap' = Live' /\ Unmapped' = Recoverable'
      BY <1>0, Blocks DEF MapHeld, InMapped, InHeap, Unmapped
<1> DEFINE rs == Accepted \cap (IF mapped THEN Safe ELSE Fragile)
           copied == rs \cap Accepted'
<1>5. Accepted' \subseteq Accepted /\ Accepted \ Accepted' \subseteq Live \ (Held \cup In(stdio))
      BY <1>2, <1>3 DEF Accepted, OnFile
<1>6. Safe' = Safe \ rs /\ Fragile' = Fragile \ rs
      <2>1. CASE mapped
            <3>1. InMapped' = {} /\ InHeap' = {}
                  BY <1>1, <1>4, <2>1
            <3> QED
                BY <1>4, <2>1, <3>1 DEF Safe, Fragile
      <2>2. CASE ~mapped
            <3>1. InMapped' = InMapped /\ InHeap' = {}
                  BY <1>1, <1>4, <2>2
            <3>2. InMapped \cap Accepted' = InMapped \cap Accepted
                  <4> SUFFICES ASSUME NEW r \in InMapped, r \in Accepted,
                                          r \notin Accepted' PROVE FALSE
                      BY <1>5
                  <4>1. fate[r] = "kept" /\ fate'[r] = "wiped" /\ r \in Live
                          /\ r \notin Held \cup OnFile
                        BY <1>2, <1>3 DEF Accepted
                  <4> QED
                      BY <1>4, <2>2, <4>1, LiveInBlock, <1>0 DEF DeliveryInv, FateInv, Apart, block
            <3> QED
                BY <1>4, <2>2, <3>1, <3>2 DEF Safe, Fragile
      <2> QED
          BY <2>1, <2>2
<1>7. \A r \in rs : r \in Live
      BY <1>4 DEF Safe, Fragile
<1>8. \A r \in copied : r \in Held \cup In(stdio)
      <2> SUFFICES ASSUME NEW r \in copied PROVE r \in Held \cup In(stdio)
          OBVIOUS
      <2>1. r \in Rec /\ fate'[r] = "kept" /\ r \notin In(disk) /\ r \in Live
            BY <1>2, <1>7 DEF Accepted
      <2>2. r \notin Unmapped
            BY <1>4, <2>1 DEF Safe, Fragile
      <2> QED
          BY <1>0, <1>1, <1>2, <2>1, <2>2 DEF Kept, OnFile
<1>9. Moving' = Moving \cup copied
      <2>1. InMapped' \cup InHeap' = Unmapped /\ InMapped \cup InHeap = Live \cup Unmapped
            BY <1>1, <1>4
      <2>2. \A r \in Accepted' : r \in Live \ Unmapped => r \in copied
            BY <1>4, <1>5 DEF Safe, Fragile
      <2>3. copied \cap Unmapped = {}
            BY <1>4 DEF Safe, Fragile
      <2>4. Moving \subseteq Accepted'
            BY <1>5, <2>1 DEF Moving
      <2> HIDE DEF copied
      <2>5. copied \subseteq Accepted'
            BY DEF copied
      <2> QED
          BY <1>2, <1>5, <1>8, <2>1, <2>2, <2>3, <2>4, <2>5 DEF Moving
<1>10. Lost' = Lost \cup (rs \ copied)
      <2>1. Accepted \ Accepted' \subseteq rs
            <3> SUFFICES ASSUME NEW r \in Accepted \ Accepted' PROVE r \in rs
                OBVIOUS
            <3>1. r \in Live
                  BY <1>5
            <3>2. ~mapped => r \notin InMapped
                  BY <1>0, <1>4, <3>1, LiveInBlock DEF DeliveryInv, FateInv, Apart, block
            <3> QED
                BY <1>4, <3>1, <3>2 DEF Safe, Fragile
      <2>2. Lost' = Lost \cup (Accepted \ Accepted')
            BY <1>2, <1>3 DEF Lost, Accepted
      <2> QED
          BY <2>1, <2>2
<1>11. fate' = fate => copied = rs
      BY <1>2 DEF Accepted
<1>12. rs \in SUBSET (Safe \cup Fragile) /\ copied \in SUBSET rs
      OBVIOUS
<1> HIDE DEF rs, copied
<1> QED
    BY <1>1, <1>2, <1>6, <1>9, <1>10, <1>11, <1>12

LEMMA ClearTakesOrWipes ==
    ASSUME DeliveryInv, DeliveryInv', NEW t \in Threads, Clear(t) PROVE Promise!Take \/ Promise!Wipe
<1>1. PICK rs \in SUBSET (Safe \cup Fragile) : \E copied \in SUBSET rs :
               /\ Safe' = Safe \ rs /\ Fragile' = Fragile \ rs /\ In(disk)' = In(disk)
               /\ Moving' = Moving \cup copied /\ Lost' = Lost \cup (rs \ copied)
               /\ UNCHANGED <<close, dir, opens>> /\ (fate' = fate => copied = rs)
      BY Emptying
<1>2. CASE FlushClear(t)
      <2>1. fate' = fate
            BY <1>2 DEF FlushClear, hist
      <2>2. /\ Safe' = Safe \ rs /\ Fragile' = Fragile \ rs /\ In(disk)' = In(disk)
            /\ Moving' = Moving \cup rs /\ Lost' = Lost /\ UNCHANGED <<close, dir, opens>>
            BY <1>1, <2>1
      <2> QED
          BY <2>2 DEF Promise!Take, Safe, Fragile, Moving, Lost
<1>3. CASE OpenClear
      <2>1. close
            BY <1>3 DEF OpenClear, DeliveryInv, Opened, Opening
      <2> QED
          BY <1>1, <2>1 DEF Promise!Wipe, Safe, Fragile, Moving, Lost
<1> QED
    BY <1>2, <1>3 DEF Clear

LEMMA CloseFreeWipes == ASSUME DeliveryInv, DeliveryInv', CloseFree PROVE Promise!Wipe
<1>1. Owner \in Threads
      BY DEF Threads
<1>2. close
      BY DEF CloseFree, DeliveryInv, RecordInv, PlaceInv, OwnerBlock, Closing
<1>3. \E rs \in SUBSET (Safe \cup Fragile) : \E copied \in SUBSET rs :
               /\ Safe' = Safe \ rs /\ Fragile' = Fragile \ rs /\ In(disk)' = In(disk)
               /\ Moving' = Moving \cup copied /\ Lost' = Lost \cup (rs \ copied)
               /\ UNCHANGED <<close, dir, opens>>
      BY <1>1, Emptying
<1> QED
    BY <1>2, <1>3 DEF Promise!Wipe, Safe, Fragile, Moving, Lost

\* An attach changes no place: what was in the mapped file is in the mapped block.
LEMMA OpenCallAttaches == ASSUME DeliveryInv, DeliveryInv', OpenCall PROVE Promise!Attach
<1>0. TypeOK /\ TypeOK' /\ PlaceInv /\ MapHeld /\ MapHeld'
      BY DEF DeliveryInv, RecordInv, PlaceInv
<1>1. /\ UNCHANGED <<tmp, files, fate, close, dir>> /\ opens' = opens + 1 /\ close
      /\ ~mapped /\ Live = {} /\ Unmapped = Recoverable
      /\ mapped' => Live' = Recoverable
      /\ ~mapped' => Live' = {} /\ Unmapped' = Unmapped
      BY <1>0, OpenCallIs
<1>2. Held' = Held /\ In(stdio)' = In(stdio) /\ In(disk)' = In(disk)
      BY <1>1, SameFiles
<1>3. InMapped' = InMapped /\ InHeap' = {} /\ InHeap = {}
      <2>1. InMapped = Unmapped /\ InHeap = Live
            BY <1>0, <1>1, Blocks
      <2>2. /\ mapped' => InMapped' = Live' /\ InHeap' = {}
            /\ ~mapped' => InMapped' = Unmapped' /\ InHeap' = Live'
            BY <1>0 DEF MapHeld, InMapped, InHeap, Unmapped
      <2> QED
          BY <1>1, <2>1, <2>2
<1>4. Accepted' = Accepted /\ Lost' = Lost
      BY <1>1, <1>2 DEF Accepted, Lost
<1>5. Safe' = Safe /\ Fragile' = Fragile /\ Moving' = Moving
      BY <1>2, <1>3, <1>4 DEF Safe, Fragile, Moving
<1> QED
    BY <1>1, <1>2, <1>4, <1>5 DEF Promise!Attach, Promise!records, Safe, Fragile, Moving, Lost

\* Of the end of the process the mapped file is all that a block leaves.
LEMMA DieCrashes == ASSUME DeliveryInv, Die PROVE Promise!Crash
<1>0. TypeOK /\ MapHeld /\ Kept /\ FateInv
      BY DEF DeliveryInv, RecordInv, PlaceInv, DataInv
<1>1. /\ close' /\ dir' = FALSE /\ opens' = opens /\ ~mapped' /\ ~buff'
      /\ Live' = {} /\ Recoverable' = Recoverable
      /\ In(disk)' = In(disk) /\ In(stdio)' = {} /\ Held' = {}
      /\ Mark(Rec \ (Recoverable \cup In(disk)), "crashed")
      BY <1>0, DieIs
<1>2. InMapped' = Recoverable /\ InHeap' = {}
      BY <1>1 DEF InMapped, InHeap
<1>3. /\ mapped => InMapped = Live /\ InHeap = {} /\ Unmapped = {} /\ Live \subseteq Recoverable
      /\ ~mapped => InMapped = Recoverable /\ InHeap = Live /\ Unmapped = Recoverable
      BY <1>0, Blocks, LiveInBlock
<1>4. Accepted' = Accepted \cap Recoverable
      BY <1>1 DEF Accepted, Mark
<1> DEFINE kept == Moving \cap Recoverable
<1>5. Safe' = Safe \cup kept
      <2>1. Safe' = Accepted \cap Recoverable /\ Safe \subseteq Accepted \cap Recoverable
            BY <1>2, <1>3, <1>4 DEF Safe
      <2>2. \A r \in Accepted \cap Recoverable : r \in Safe \cup Moving
            BY <1>0, <1>3 DEF Safe, Moving, Kept, Accepted, OnFile
      <2>3. Moving \subseteq Accepted
            BY DEF Moving
      <2> QED
          BY <2>1, <2>2, <2>3
<1>6. Fragile' = {} /\ Moving' = {}
      BY <1>1, <1>2 DEF Fragile, Moving
<1>7. Lost' = Lost \cup Fragile \cup (Moving \ kept)
      <2>1. Lost' = Lost \cup (Accepted \ Recoverable)
            BY <1>1 DEF Lost, Accepted, Mark
      <2>2. Accepted \ Recoverable \subseteq Fragile \cup Moving
            BY <1>0, <1>3 DEF Fragile, Moving, Kept, Accepted, OnFile
      <2>3. Fragile \subseteq Accepted \ Recoverable /\ Moving \subseteq Accepted
            BY <1>3 DEF Fragile, Moving
      <2> QED
          BY <2>1, <2>2, <2>3
<1>8. kept \in SUBSET Moving
      OBVIOUS
<1> HIDE DEF kept
<1> QED
    BY <1>1, <1>5, <1>6, <1>7, <1>8 DEF Promise!Crash, Safe, Fragile, Moving, Lost

\* What no bytes go with is publishing the appender, its close, or nothing.
LEMMA NoBytesOpensOrCloses ==
    ASSUME DeliveryInv, DeliveryInv', NoBytes
    PROVE  Promise!Open \/ Promise!Close \/ UNCHANGED Promise!vars
<1>0. TypeOK /\ TypeOK'
      BY DEF DeliveryInv, RecordInv
<1>1. /\ UNCHANGED <<block0, bytes, tmp, files, fate, opens>>
      /\ \/ dir' = dir /\ (close => close')
         \/ close /\ opens > 0 /\ dir' = TRUE /\ ~close'
      <2>1. pc[Owner] = "OpenPublish" => close /\ opens > 0
            BY <1>0 DEF DeliveryInv, Opened, Opening, TypeOK, DataOK
      <2> QED
          BY <1>0, <2>1 DEF NoBytes, TypeOK, DataOK
<1>2. /\ InMapped' = InMapped /\ InHeap' = InHeap
      /\ In(stdio)' = In(stdio) /\ In(disk)' = In(disk) /\ Held' = Held
      BY <1>1, SameBlock, SameFiles
<1>3. Accepted' = Accepted /\ Lost' = Lost
      BY <1>1, <1>2 DEF Accepted, Lost
<1>4. Safe' = Safe /\ Fragile' = Fragile /\ Moving' = Moving
      BY <1>2, <1>3 DEF Safe, Fragile, Moving
<1>5. UNCHANGED Promise!records
      BY <1>2, <1>3, <1>4 DEF Promise!records, Safe, Fragile, Moving, Lost
<1>6. close \in BOOLEAN /\ close' \in BOOLEAN
      BY <1>0 DEF TypeOK, DataOK
<1> QED
    BY <1>1, <1>5, <1>6 DEF Promise!Open, Promise!Close, Promise!vars
-----------------------------------------------------------------------------
(* A record that this process appends to an appender it has opened once.        *)

New == Rec \ LeftBehind

\* Such a record has no fate before the appender is published.
NothingYet == Unpublished => \A r \in New : fate[r] = "none"

\* It is once in what Flush would hand over, or in the hands of one thread, or in stdio, or
\* in the log file; the thread that has copied the block and not cleared it has a second.
Single(s, r) == \A i, j \in DOMAIN s : s[i] = r /\ s[j] = r => i = j

Alone(r) ==
    /\ \A t \in Threads \ Settled : r \in In(tmp[t]) => r \in Live
    /\ r \in UnderWay \cup In(disk) => r \notin Live
    /\ \A t, u \in Threads : r \in In(tmp[t]) /\ r \in In(tmp[u]) => t = u
    /\ r \in In(stdio) => r \notin Held
    /\ r \in In(disk) => r \notin Held \cup In(stdio)

Once(r) ==
    /\ Single(disk, r) /\ Single(stdio, r) /\ \A t \in Threads : Single(tmp[t], r)
    /\ r \in Live => Single(Flushed, r)

OnePlace(r) ==
    /\ Alone(r) /\ Once(r)
    /\ r \in Live \cup Held \cup In(stdio) => fate[r] = "kept"

\* Two rows have a record once when one of them has, and the other not at all.
LEMMA SingleJoined ==
    ASSUME NEW s \in Seq(Slot), NEW u \in Seq(Slot), NEW r \in Rec
    PROVE  Single(s \o u, r) <=> Single(s, r) /\ Single(u, r) /\ ~(r \in In(s) /\ r \in In(u))
<1> DEFINE su == s \o u
           m == Len(s)
           n == Len(u)
<1>1. /\ su \in Seq(Slot) /\ DOMAIN su = 1..(m + n) /\ DOMAIN s = 1..m /\ DOMAIN u = 1..n
      /\ \A i \in 1..m : su[i] = s[i]
      /\ \A i \in 1..n : su[m + i] = u[i]
      OBVIOUS
<1>2. m \in Nat /\ n \in Nat
      OBVIOUS
<1>3. /\ r \in In(s) <=> \E i \in 1..m : s[i] = r
      /\ r \in In(u) <=> \E i \in 1..n : u[i] = r
      BY <1>1 DEF In
<1> HIDE DEF su, m, n
<1>4. ASSUME Single(su, r)
      PROVE  Single(s, r) /\ Single(u, r) /\ ~(r \in In(s) /\ r \in In(u))
      <2>1. \A i \in 1..m : i \in 1..(m + n)
            BY <1>2
      <2>2. \A i \in 1..n : m + i \in 1..(m + n) /\ m + i \notin 1..m
            BY <1>2
      <2>3. Single(s, r)
            BY <1>1, <1>4, <2>1 DEF Single
      <2>4. Single(u, r)
            <3> SUFFICES ASSUME NEW i \in 1..n, NEW j \in 1..n, u[i] = r, u[j] = r PROVE i = j
                BY <1>1 DEF Single
            <3>1. m + i = m + j
                  BY <1>1, <1>4, <2>2 DEF Single
            <3> QED
                BY <1>2, <3>1
      <2>5. ASSUME NEW i \in 1..m, NEW j \in 1..n, s[i] = r, u[j] = r PROVE FALSE
            <3>1. su[i] = r /\ su[m + j] = r
                  BY <1>1, <2>5
            <3>2. i = m + j
                  BY <1>1, <1>4, <2>1, <2>2, <3>1 DEF Single
            <3> QED
                BY <2>2, <3>2
      <2> QED
          BY <1>3, <2>3, <2>4, <2>5
<1>5. ASSUME Single(s, r), Single(u, r), ~(r \in In(s) /\ r \in In(u))
      PROVE  Single(su, r)
      <2> SUFFICES ASSUME NEW i \in 1..(m + n), NEW j \in 1..(m + n), su[i] = r, su[j] = r
                   PROVE  i = j
          BY <1>1 DEF Single
      <2>1. ASSUME NEW k \in 1..(m + n), k \notin 1..m
            PROVE  k - m \in 1..n /\ su[k] = u[k - m]
            <3>1. k - m \in 1..n /\ m + (k - m) = k
                  BY <1>2, <2>1
            <3> QED
                BY <1>1, <3>1
      <2>2. CASE i \in 1..m /\ j \in 1..m
            BY <1>1, <1>5, <2>2 DEF Single
      <2>3. CASE i \notin 1..m /\ j \notin 1..m
            <3>1. i - m = j - m
                  BY <1>1, <1>5, <2>1, <2>3 DEF Single
            <3> QED
                BY <1>2, <3>1
      <2>4. CASE (i \in 1..m /\ j \notin 1..m) \/ (i \notin 1..m /\ j \in 1..m)
            BY <1>1, <1>3, <1>5, <2>1, <2>4
      <2> QED
          BY <2>2, <2>3, <2>4
<1> QED
    BY <1>4, <1>5 DEF su

\* A row has a record once that it has not.
LEMMA SingleAbsent == ASSUME NEW s, NEW r \in Rec, r \notin In(s) PROVE Single(s, r)
BY DEF Single, In

LEMMA SingleOne == ASSUME NEW x, NEW r PROVE Single(<<x>>, r) /\ Single(<< >>, r)
BY DEF Single

\* What is nowhere is in no place twice.
LEMMA Nowhere == ASSUME TypeOK, NEW r \in Rec, r \notin Stored PROVE OnePlace(r)
<1>1. r \notin Live \cup Held \cup In(stdio) \cup In(disk) \cup UnderWay
      BY LiveInBlock, UnderWayHeld DEF Stored, OnFile
<1>2. \A t \in Threads : r \notin In(tmp[t])
      BY <1>1 DEF Held
<1>3. Once(r)
      BY <1>1, <1>2, SingleAbsent DEF Once
<1> QED
    BY <1>1, <1>2, <1>3 DEF OnePlace, Alone

LEMMA NowhereNext == ASSUME TypeOK', NEW r \in Rec, r \notin Stored' PROVE OnePlace(r)'
<1>1. Live' \subseteq Stored'
      <2>1. block' \in Block /\ len' \in 0..BlockLen /\ BlockLen \in Nat
            BY DEF TypeOK, DataOK, block
      <2>2. Live' \subseteq In(block)'
            <3>1. In(block') = {block'[i] : i \in 1..BlockLen} \cap Rec
                  BY <2>1, InSlots
            <3>2. In(block)' = In(block')
                  BY DEF In
            <3> QED
                BY <2>1, <3>1, <3>2, LiveIsNext
      <2>3. In(block)' \subseteq In(mfile)' \cup In(heap)'
            BY DEF block, In
      <2> QED
          BY <2>2, <2>3 DEF Stored
<1>2. UnderWay' \subseteq Stored'
      BY DEF UnderWay, Settled, Held, OnFile, Stored
<1>3. r \notin Live' \cup Held' \cup In(stdio)' \cup In(disk)' \cup UnderWay'
      BY <1>1, <1>2 DEF Stored, OnFile
<1>4. \A t \in Threads : r \notin In(tmp[t])'
      BY <1>3 DEF Held
<1>5. Once(r)'
      BY <1>3, <1>4 DEF Once, Single, In
<1> QED
    BY <1>3, <1>4, <1>5 DEF OnePlace, Alone

\* What the file side does keeps that:
LEMMA HandOnOnce ==
    ASSUME TypeOK, NEW r \in Rec, OnePlace(r),
           NEW t \in Threads, NEW why \in Reasons, HandOn(t, why)
    PROVE  OnePlace(r)'
<1>0. stdio \in Seq(Slot) /\ disk \in Seq(Slot) /\ tmp[t] \in Seq(Slot) /\ << >> \in Seq(Slot)
      BY DEF TypeOK, DataOK
<1> DEFINE s == IF tmp' = tmp /\ Passes(<< >>, why) THEN << >> ELSE tmp[t]
<1>1. /\ s \in Seq(Slot) /\ Passes(s, why) /\ In(s) \subseteq In(tmp[t])
      /\ \A u \in Threads : tmp'[u] = IF u = t /\ s # << >> THEN << >> ELSE tmp[u]
      <2>1. CASE tmp' = tmp /\ Passes(<< >>, why)
            BY <1>0, <2>1, InNone
      <2>2. CASE tmp' = [tmp EXCEPT ![t] = << >>] /\ Passes(tmp[t], why) /\ ~(tmp' = tmp
                   /\ Passes(<< >>, why))
            <3>1. \A u \in Threads : tmp'[u] = IF u = t THEN << >> ELSE tmp[u]
                  BY <2>2 DEF TypeOK, DataOK
            <3> QED
                BY <1>0, <2>2, <3>1
      <2> QED
          BY <2>1, <2>2 DEF HandOn
<1> HIDE DEF s
<1>2. PICK a, b, c \in Seq(Slot) :
          /\ (a \o b) \o c = stdio \o s
          /\ disk' = disk \o a /\ stdio' = b /\ Mark(In(c), why)
      BY <1>1 DEF Passes
<1>3. a \o b \in Seq(Slot)
      OBVIOUS
<1>4. /\ In(stdio) \cup In(s) = In(a) \cup In(b) \cup In(c)
      /\ In(disk)' = In(disk) \cup In(a) /\ In(stdio)' = In(b)
      <2>1. In(disk)' = In(disk \o a) /\ In(stdio)' = In(b)
            BY <1>2 DEF In
      <2>2. In(disk \o a) = In(disk) \cup In(a) /\ In(a \o b) = In(a) \cup In(b)
            BY <1>0, InJoined
      <2>3. In((a \o b) \o c) = In(a \o b) \cup In(c)
            BY <1>3, InJoined
      <2>4. In(stdio \o s) = In(stdio) \cup In(s)
            BY <1>0, <1>1, InJoined
      <2> QED
          BY <1>2, <2>1, <2>2, <2>3, <2>4
<1>5. /\ UNCHANGED <<block0, bytes>> /\ Settled' = Settled /\ t \in Settled
      /\ Live' = Live /\ Flushed' = Flushed
      BY SameBlock DEF HandOn
<1>6. \A u \in Threads : In(tmp[u])' = In(tmp'[u]) /\ In(tmp'[u]) \subseteq In(tmp[u])
      BY <1>1, InNone DEF In
<1>7. In(s) \subseteq UnderWay /\ In(stdio) \subseteq UnderWay /\ In(s) \subseteq Held
      BY <1>1, <1>5 DEF UnderWay, Held
<1>8. /\ Held' = UNION {In(tmp'[u]) : u \in Threads} /\ Held' \subseteq Held
      /\ UnderWay' = In(b) \cup UNION {In(tmp'[u]) : u \in Settled}
      <2>1. Held' = UNION {In(tmp'[u]) : u \in Threads}
            BY DEF Held, In
      <2>2. UnderWay' = In(stdio)' \cup UNION {In(tmp'[u]) : u \in Settled}
            BY <1>5 DEF UnderWay, In
      <2> QED
          BY <1>4, <1>6, <2>1, <2>2 DEF Held
<1>9. UnderWay' \subseteq UnderWay
      <2>1. \A u \in Settled : In(tmp'[u]) \subseteq UnderWay
            BY <1>6 DEF UnderWay, Settled
      <2> QED
          BY <1>4, <1>7, <1>8, <2>1
<1>10. r \in In(stdio) \cup In(s) => r \notin Live /\ r \notin Held' /\ r \notin In(disk)
      <2>1. r \in In(stdio) \cup In(s) => r \notin Live /\ r \notin In(disk)
            BY <1>7 DEF OnePlace, Alone
      <2>2. r \in In(stdio) => r \notin Held'
            BY <1>8 DEF OnePlace, Alone
      <2>3. ASSUME r \in In(s) PROVE r \notin Held'
            <3>1. r \in In(tmp[t]) /\ s # << >>
                  BY <1>1, <2>3, InNone
            <3>2. \A u \in Threads : r \notin In(tmp'[u])
                  BY <1>1, <3>1, InNone DEF OnePlace, Alone
            <3> QED
                BY <1>8, <3>2
      <2> QED
          BY <2>1, <2>2, <2>3
<1>11. /\ Single(a, r) /\ Single(b, r) /\ ~(r \in In(a) /\ r \in In(b))
       /\ ~(r \in In(c) /\ (r \in In(a) \/ r \in In(b)))
      <2>1. Single(s, r)
            BY <1>1, SingleOne DEF OnePlace, Once, s
      <2>2. ~(r \in In(stdio) /\ r \in In(s))
            BY <1>7 DEF OnePlace, Alone
      <2>3. Single(stdio \o s, r)
            BY <1>0, <1>1, <2>1, <2>2, SingleJoined DEF OnePlace, Once
      <2>4. Single(a \o b, r) /\ ~(r \in In(a \o b) /\ r \in In(c))
            <3>1. Single((a \o b) \o c, r)
                  BY <1>2, <2>3
            <3> QED
                BY <1>3, <3>1, SingleJoined
      <2>5. In(a \o b) = In(a) \cup In(b)
            BY InJoined
      <2> QED
          BY <2>4, <2>5, SingleJoined
<1>12. Alone(r)'
      <2>1. \A u \in Threads \ Settled : r \in In(tmp'[u]) => r \in Live
            BY <1>6 DEF OnePlace, Alone
      <2>2. r \in UnderWay' \cup In(disk)' => r \notin Live
            BY <1>4, <1>9, <1>10 DEF OnePlace, Alone
      <2>3. \A u, v \in Threads : r \in In(tmp'[u]) /\ r \in In(tmp'[v]) => u = v
            BY <1>6 DEF OnePlace, Alone
      <2>4. r \in In(b) => r \notin Held'
            BY <1>4, <1>10
      <2>5. r \in In(disk) \cup In(a) => r \notin Held' \cup In(b)
            BY <1>4, <1>8, <1>10, <1>11 DEF OnePlace, Alone
      <2> QED
          BY <1>4, <1>5, <1>6, <2>1, <2>2, <2>3, <2>4, <2>5 DEF Alone
<1>13. Once(r)'
      <2>1. Single(disk \o a, r)
            BY <1>0, <1>4, <1>10, <1>11, SingleJoined DEF OnePlace, Once
      <2>2. \A u \in Threads : Single(tmp'[u], r)
            BY <1>1, SingleOne DEF OnePlace, Once
      <2> QED
          BY <1>2, <1>5, <1>11, <2>1, <2>2 DEF OnePlace, Once, Single
<1>14. r \in Live' \cup Held' \cup In(stdio)' => fate'[r] = "kept"
      <2>1. r \in Live' \cup Held' \cup In(stdio)' => r \notin In(c)
            BY <1>4, <1>5, <1>10, <1>11
      <2>2. r \in Live' \cup Held' \cup In(stdio)' => fate[r] = "kept"
            BY <1>4, <1>5, <1>7, <1>8 DEF OnePlace
      <2> QED
          BY <1>2, <2>1, <2>2 DEF Mark
<1> QED
    BY <1>12, <1>13, <1>14 DEF OnePlace

\* so does a step with no bytes,
LEMMA NoBytesOnce == ASSUME NEW r \in Rec, OnePlace(r), NoBytes PROVE OnePlace(r)'
<1>1. /\ tmp' = tmp /\ disk' = disk /\ stdio' = stdio /\ fate' = fate /\ Settled' = Settled
      /\ Live' = Live /\ Flushed' = Flushed /\ Held' = Held
      BY SameBlock, SameFiles DEF NoBytes, files
<1>2. UnderWay' = UnderWay /\ In(disk)' = In(disk) /\ In(stdio)' = In(stdio)
      BY <1>1 DEF UnderWay, In
<1>3. \A t \in Threads : In(tmp[t])' = In(tmp[t])
      BY <1>1 DEF In
<1>4. Alone(r)' /\ Once(r)'
      <2>1. Alone(r)'
            BY <1>1, <1>2, <1>3 DEF OnePlace, Alone
      <2>2. Once(r)'
            BY <1>1 DEF OnePlace, Once, Single
      <2> QED
          BY <2>1, <2>2
<1> QED
    BY <1>1, <1>2, <1>4 DEF OnePlace

\* and an append in sync mode, whose record was nowhere;
LEMMA AppendSyncOnce ==
    ASSUME DeliveryInv, NEW r \in Rec, OnePlace(r), NEW t \in Clients, AppendSync(t)
    PROVE  OnePlace(r)'
<1>0. TypeOK /\ PlaceInv /\ t \in Threads
      BY DEF DeliveryInv, RecordInv, Threads
<1>1. /\ UNCHANGED <<block0, bytes, files>> /\ t \in Settled /\ Settled' = Settled
      /\ rec[t] \in Rec /\ pc[t] \in BeforeWrite
      /\ tmp[t] = << >> /\ tmp' = [tmp EXCEPT ![t] = <<rec[t]>>]
      /\ Held' = Held \cup {rec[t]} /\ UnderWay' = UnderWay \cup {rec[t]}
      /\ fate' = [fate EXCEPT ![rec[t]] = "kept"]
      BY <1>0, AppendSyncIs
<1>2. Live' = Live /\ Flushed' = Flushed /\ disk' = disk /\ stdio' = stdio
      BY <1>1, SameBlock DEF files
<1>3. In(disk)' = In(disk) /\ In(stdio)' = In(stdio)
      BY <1>2 DEF In
<1>4. rec[t] \notin Live \cup Held \cup In(stdio) \cup In(disk) \cup UnderWay
      <2>1. rec[t] \notin Stored
            BY <1>1 DEF DeliveryInv, Numbers, FateInv, Fresh
      <2> QED
          BY <1>0, <2>1, LiveInBlock, UnderWayHeld DEF Stored, OnFile
<1>5. /\ tmp'[t] = <<rec[t]>> /\ In(tmp'[t]) = {rec[t]}
      /\ \A u \in Threads \ {t} : tmp'[u] = tmp[u]
      BY <1>0, <1>1, InOne DEF TypeOK, DataOK
<1>6. \A u \in Threads : In(tmp[u])' = In(tmp'[u]) /\ In(tmp[u]) \subseteq Held
      BY DEF In, Held
<1>7. \A u \in Threads : r \in In(tmp'[u]) <=> (r \in In(tmp[u]) \/ (u = t /\ r = rec[t]))
      BY <1>1, <1>5, InNone
<1>8. Alone(r)'
      <2>1. CASE r = rec[t]
            BY <1>1, <1>2, <1>3, <1>4, <1>5, <1>6, <1>7, <2>1 DEF Alone
      <2>2. CASE r # rec[t]
            BY <1>1, <1>2, <1>3, <1>6, <1>7, <2>2 DEF OnePlace, Alone
      <2> QED
          BY <2>1, <2>2
<1>9. Once(r)'
      <2>1. \A u \in Threads : Single(tmp'[u], r)
            BY <1>5, SingleOne DEF OnePlace, Once
      <2> QED
          BY <1>2, <2>1 DEF OnePlace, Once, Single
<1>10. r \in Live' \cup Held' \cup In(stdio)' => fate'[r] = "kept"
      BY <1>0, <1>1, <1>2, <1>3 DEF OnePlace, TypeOK, DataOK
<1> QED
    BY <1>8, <1>9, <1>10 DEF OnePlace

\* and, once open has cleared the block, an append to the block.
LEMMA PutOnce ==
    ASSUME DeliveryInv, DeliveryInv', len = pos, NEW r \in Rec, OnePlace(r),
           NEW t \in Clients, Put(t)
    PROVE  OnePlace(r)'
<1>0. TypeOK /\ TypeOK' /\ PlaceInv /\ DataInv
      BY DEF DeliveryInv, RecordInv
<1>1. /\ UNCHANGED <<block0, tmp, files>> /\ buff /\ Settled' = Settled
      /\ rec[t] \in Rec /\ pc[t] \in BeforeWrite
      /\ Held' = Held /\ UnderWay' = UnderWay /\ fate' = AppendFate(t)
      /\ In(stdio)' = In(stdio) /\ In(disk)' = In(disk)
      BY <1>0, PutBeside
<1>2. PutLast(t)
      BY <1>0, PutIs DEF PutOver
<1>3. rec[t] \notin Live \cup Held \cup In(stdio) \cup In(disk) \cup UnderWay
      <2>1. rec[t] \notin Stored
            BY <1>1 DEF DeliveryInv, Numbers, FateInv, Fresh
      <2> QED
          BY <1>0, <2>1, LiveInBlock, UnderWayHeld DEF Stored, OnFile
<1>4. fate'[r] = IF r = rec[t] THEN (IF NearlyFull THEN "overflow" ELSE "kept") ELSE fate[r]
      BY <1>1 DEF AppendFate, Overwritten
<1>5. \A u \in Threads : In(tmp[u])' = In(tmp[u]) /\ In(tmp[u]) \subseteq Held
      BY <1>1 DEF In, Held
<1>6. Live' \subseteq Live \cup {rec[t]} /\ Live \subseteq Live'
      BY <1>2 DEF PutLast
<1>7. Alone(r)'
      <2>1. CASE r = rec[t]
            BY <1>1, <1>3, <1>5, <2>1 DEF Alone
      <2>2. CASE r # rec[t]
            BY <1>1, <1>5, <1>6, <2>2 DEF OnePlace, Alone
      <2> QED
          BY <2>1, <2>2
<1>8. r \in Live' => Single(Flushed', r)
      <2>1. Flushed \in Seq(Slot) /\ <<rec[t]>> \in Seq(Slot) /\ <<Overflow>> \in Seq(Slot)
            BY <1>0, <1>1, FlushedType, RecIsSlot
      <2>2. Live = In(Flushed)
            BY <1>1 DEF Live
      <2>3. In(<<rec[t]>>) = {rec[t]} /\ r \notin In(<<Overflow>>)
            BY <1>1, InOne DEF In
      <2>4. Single(Flushed, r)
            BY <2>2, SingleAbsent DEF OnePlace, Once
      <2>5. Single(Flushed \o <<Overflow>>, r)
            BY <2>1, <2>3, <2>4, SingleOne, SingleJoined
      <2>6. Single(Flushed \o <<rec[t]>>, r)
            <3>1. Single(<<rec[t]>>, r)
                  BY SingleOne
            <3>2. ~(r \in In(Flushed) /\ r \in In(<<rec[t]>>))
                  BY <1>3, <2>2, <2>3
            <3> QED
                BY <2>1, <2>4, <3>1, <3>2, SingleJoined
      <2> QED
          BY <1>2, <2>4, <2>5, <2>6 DEF PutLast
<1>9. Once(r)'
      BY <1>1, <1>8 DEF OnePlace, Once, Single, files
<1>10. r \in Live' \cup Held' \cup In(stdio)' => fate'[r] = "kept"
      BY <1>1, <1>2, <1>3, <1>4 DEF OnePlace, PutLast
<1> QED
    BY <1>7, <1>9, <1>10 DEF OnePlace

\* A copy is the second place of what it has,
LEMMA CopyOnce ==
    ASSUME DeliveryInv, pc[Owner] # "OpenClear", NEW r \in Rec, OnePlace(r),
           NEW t \in Threads, FlushCopy(t)
    PROVE  OnePlace(r)'
<1>0. TypeOK /\ PlaceInv
      BY DEF DeliveryInv, RecordInv
<1>1. /\ UNCHANGED <<block0, bytes, files, fate>>
      /\ tmp[t] = << >> /\ tmp' = [tmp EXCEPT ![t] = Flushed] /\ In(Flushed) = Live
      /\ Held' = Held \cup Live /\ UnderWay' = UnderWay
      /\ t \in Settled /\ Settled' = Settled \ {t}
      BY <1>0, CopyIs DEF Copy, DeliveryInv
<1>2. Live' = Live /\ Flushed' = Flushed /\ disk' = disk /\ stdio' = stdio
      BY <1>1, SameBlock DEF files
<1>3. In(disk)' = In(disk) /\ In(stdio)' = In(stdio)
      BY <1>2 DEF In
<1>4. tmp'[t] = Flushed /\ \A u \in Threads \ {t} : tmp'[u] = tmp[u]
      BY <1>0, <1>1 DEF TypeOK, DataOK
<1>5. \A u \in Threads : In(tmp[u])' = In(tmp'[u])
      BY DEF In
<1>6. \A u \in Threads \ {t} : u \notin Settled => pc[u] = "FlushClear" \/ pc[u] = "OpenClear"
      BY DEF Settled, Copying
<1>7. \A u \in Threads \ {t} : u \in Settled
      <2>1. \A u \in Threads \ {t} : pc[u] # "FlushClear"
            BY <1>0 DEF PlaceInv, BlockHeld, BufHeld, FlushCopy
      <2>2. \A u \in Threads : pc[u] # "OpenClear"
            BY <1>0 DEF TypeOK, PcOK, Threads, ClientPc, WorkerPc, TaskPc
      <2> QED
          BY <1>6, <2>1, <2>2
<1>8. r \in Live => \A u \in Threads \ {t} : r \notin In(tmp[u])
      BY <1>7 DEF OnePlace, Alone, UnderWay
<1>9. r \in Live => r \notin In(stdio) \cup In(disk)
      BY DEF OnePlace, Alone, UnderWay
<1>10. Alone(r)'
      <2>1. \A u \in Threads \ Settled' : r \in In(tmp'[u]) => r \in Live
            BY <1>1, <1>4, <1>7
      <2>2. \A u, v \in Threads : r \in In(tmp'[u]) /\ r \in In(tmp'[v]) => u = v
            BY <1>1, <1>4, <1>8 DEF OnePlace, Alone
      <2>3. r \in In(stdio) => r \notin Held'
            BY <1>1, <1>9 DEF OnePlace, Alone
      <2>4. r \in In(disk) => r \notin Held' \cup In(stdio)
            BY <1>1, <1>9 DEF OnePlace, Alone
      <2> QED
          BY <1>1, <1>2, <1>3, <1>5, <2>1, <2>2, <2>3, <2>4 DEF OnePlace, Alone
<1>11. Once(r)'
      <2>1. Single(Flushed, r)
            BY <1>1, SingleAbsent DEF OnePlace, Once
      <2>2. \A u \in Threads : Single(tmp'[u], r)
            BY <1>4, <2>1 DEF OnePlace, Once
      <2> QED
          BY <1>2, <2>1, <2>2 DEF OnePlace, Once, Single
<1>12. r \in Live' \cup Held' \cup In(stdio)' => fate'[r] = "kept"
      BY <1>1, <1>2, <1>3 DEF OnePlace
<1> QED
    BY <1>10, <1>11, <1>12 DEF OnePlace

\* and the clear that follows takes the first away.
LEMMA ClearOnce ==
    ASSUME DeliveryInv, DeliveryInv', pc[Owner] # "OpenClear", NEW r \in Rec, OnePlace(r),
           NEW t \in Threads, FlushClear(t)
    PROVE  OnePlace(r)'
<1>0. TypeOK /\ TypeOK' /\ PlaceInv
      BY DEF DeliveryInv, RecordInv
<1>1. /\ UNCHANGED <<tmp, files>> /\ Live' = {}
      /\ Settled' = Settled \cup {t} /\ Held' = Held /\ t \notin Settled
      /\ In(stdio)' = In(stdio) /\ In(disk)' = In(disk) /\ fate' = fate
      BY <1>0, ClearIs DEF Clear, FlushClear, hist
<1>2. \A u \in Threads : u \in Settled'
      <2>1. \A u \in Threads \ {t} : pc[u] # "FlushClear"
            BY <1>0 DEF PlaceInv, BlockHeld, BufHeld, FlushClear
      <2>2. \A u \in Threads : pc[u] # "OpenClear"
            BY <1>0 DEF TypeOK, PcOK, Threads, ClientPc, WorkerPc, TaskPc
      <2> QED
          BY <1>1, <2>1, <2>2 DEF Settled, Copying
<1>3. \A u \in Threads : In(tmp[u])' = In(tmp[u])
      BY <1>1 DEF In
<1>4. Alone(r)'
      BY <1>1, <1>2, <1>3 DEF OnePlace, Alone
<1>5. Once(r)'
      BY <1>1 DEF OnePlace, Once, Single, files
<1> QED
    BY <1>1, <1>4, <1>5 DEF OnePlace

\* When close frees the buffer nobody has a copy that is not cleared,
LEMMA CloseFreeOnce ==
    ASSUME DeliveryInv, NEW r \in Rec, OnePlace(r), CloseFree PROVE OnePlace(r)'
<1>0. TypeOK /\ PlaceInv
      BY DEF DeliveryInv, RecordInv
<1>1. /\ UNCHANGED <<tmp, files>> /\ Live' = {} /\ Settled' = Settled /\ UnderWay' = UnderWay
      BY <1>0, CloseFreeIs
<1>2. Held' = Held /\ In(stdio)' = In(stdio) /\ In(disk)' = In(disk)
      BY <1>1, SameFiles
<1>3. \A u \in Threads : u \in Settled
      <2>1. \A u \in Threads : pc[u] # "FlushClear"
            BY <1>0 DEF PlaceInv, BlockHeld, BufHeld, CloseFree, Free
      <2>2. \A u \in Threads : pc[u] # "OpenClear"
            BY <1>0 DEF TypeOK, PcOK, Threads, ClientPc, WorkerPc, TaskPc, CloseFree
      <2> QED
          BY <2>1, <2>2 DEF Settled, Copying
<1>4. r \in Held \cup In(stdio) => fate'[r] = fate[r]
      BY DEF CloseFree, Mark, OnFile
<1>5. \A u \in Threads : In(tmp[u])' = In(tmp[u])
      BY <1>1 DEF In
<1>6. Alone(r)'
      BY <1>1, <1>2, <1>3, <1>5 DEF OnePlace, Alone
<1>7. Once(r)'
      BY <1>1 DEF OnePlace, Once, Single, files
<1> QED
    BY <1>1, <1>2, <1>4, <1>6, <1>7 DEF OnePlace

\* and the process leaves the log file as it is.
LEMMA DieOnce == ASSUME DeliveryInv, NEW r \in Rec, OnePlace(r), Die PROVE OnePlace(r)'
<1>0. TypeOK
      BY DEF DeliveryInv, RecordInv
<1>1. /\ disk' = disk /\ stdio' = << >> /\ Live' = {} /\ In(disk)' = In(disk) /\ In(stdio)' = {}
      /\ Held' = {} /\ UnderWay' = {} /\ \A t \in Threads : tmp'[t] = << >>
      BY <1>0, DieIs
<1>2. \A t \in Threads : r \notin In(tmp[t])'
      BY <1>1 DEF In
<1>3. Single(disk, r)' /\ Single(stdio, r)' /\ \A t \in Threads : Single(tmp[t], r)'
      BY <1>1 DEF OnePlace, Once, Single
<1> QED
    BY <1>1, <1>2, <1>3 DEF OnePlace, Alone, Once

\* What holds of those records until the appender is opened a second time.
OnceInv == NothingYet /\ (opens <= 1 => \A r \in New : OnePlace(r))

LEMMA OnceInit == Init => OnceInv
<1> SUFFICES ASSUME Init PROVE OnceInv
    OBVIOUS
<1>0. TypeOK /\ Fresh
      BY DeliveryInit DEF DeliveryInv, RecordInv, FateInv
<1>1. \A r \in New : fate[r] = "none"
      BY DEF Init, New, LeftBehind
<1>2. \A r \in New : OnePlace(r)
      BY <1>0, <1>1, Nowhere DEF Fresh, New
<1> QED
    BY <1>1, <1>2 DEF OnceInv, NothingYet

LEMMA OnceStep == ASSUME DeliveryInv, DeliveryInv', OnceInv, Next PROVE OnceInv'
<1>0. TypeOK /\ TypeOK' /\ Opened /\ Opened' /\ Fresh' /\ DataInv
      BY DEF DeliveryInv, RecordInv, FateInv
<1>1. /\ opens \in Nat /\ opens' \in Nat
      /\ \/ opens' = opens /\ (pc'[Owner] \in Opening => pc[Owner] \in Opening)
         \/ opens' = opens + 1 /\ OpenCall
      <2>1. opens \in Nat /\ opens' \in Nat
            BY <1>0 DEF TypeOK, DataOK
      <2>2. OpenCall => opens' = opens + 1
            BY DEF OpenCall
      <2> QED
          BY <1>0, <2>1, <2>2, OpeningBegins
<1>2. NothingYet'
      <2> SUFFICES ASSUME Unpublished', NEW r \in New PROVE fate'[r] = "none"
          BY DEF NothingYet, New
      <2>1. Unpublished
            BY <1>1 DEF Unpublished
      <2> QED
          BY <1>0, <2>1, FateMoves DEF OnceInv, NothingYet, Opened, New
<1>3. ASSUME opens' <= 1, NEW r \in New PROVE OnePlace(r)'
      <2>0. r \in Rec
            BY DEF New
      <2>1. CASE fate'[r] = "none"
            BY <1>0, <2>0, <2>1, NowhereNext DEF Fresh
      <2>2. CASE fate'[r] # "none"
            <3>1. ~Unpublished /\ ~Unpublished'
                  <4>1. ~Unpublished'
                        BY <1>2, <2>2 DEF NothingYet, New
                  <4>2. Unpublished => fate'[r] = "none"
                        BY <1>0, <2>0, FateMoves DEF OnceInv, NothingYet, Opened
                  <4> QED
                      BY <2>2, <4>1, <4>2
            <3>2. opens = 1 /\ opens' = 1
                  BY <1>1, <1>3, <3>1 DEF Unpublished
            <3>3. pc[Owner] \notin Opening /\ ~OpenCall /\ ~OpenCopy /\ ~OpenClear
                  BY <1>1, <3>1, <3>2 DEF Unpublished, Opening, OpenCall, OpenCopy, OpenClear
            <3>4. OnePlace(r)
                  BY <3>2 DEF OnceInv
            <3>5. CASE NoBytes
                  BY <2>0, <3>4, <3>5, NoBytesOnce
            <3>6. ASSUME NEW t \in Threads,
                         (\E why \in Reasons : HandOn(t, why)) \/ Copy(t) \/ Clear(t)
                  PROVE  OnePlace(r)'
                  BY <1>0, <2>0, <3>3, <3>4, <3>6, HandOnOnce, CopyOnce, ClearOnce
                  DEF Copy, Clear, Opening
            <3>7. ASSUME NEW t \in Clients, AppendSync(t) \/ Put(t) PROVE OnePlace(r)'
                  <4>1. Put(t) => len = pos
                        BY <1>0, <3>3 DEF Put, DataInv, BlockInv, Cursors, Opening
                  <4> QED
                      BY <2>0, <3>4, <3>7, <4>1, AppendSyncOnce, PutOnce
            <3>8. CASE CloseFree \/ Die
                  BY <2>0, <3>4, <3>8, CloseFreeOnce, DieOnce
            <3> QED
                BY <1>0, <3>3, <3>5, <3>6, <3>7, <3>8, StepKinds DEF Ends
      <2> QED
          BY <2>1, <2>2
<1> QED
    BY <1>2, <1>3 DEF OnceInv, New

LEMMA OnceHolds == Spec => [](DeliveryInv /\ OnceInv)
<1>1. DeliveryInv /\ OnceInv /\ [Next]_vars => (DeliveryInv /\ OnceInv)'
      <2> SUFFICES ASSUME DeliveryInv, OnceInv, [Next]_vars PROVE DeliveryInv' /\ OnceInv'
          OBVIOUS
      <2>1. CASE Next
            BY <2>1, DeliveryStep, OnceStep
      <2>2. CASE UNCHANGED vars
            <3>1. NoBytes
                  BY <2>2 DEF vars, allButPc, hist, bounds, NoBytes, Settled
            <3>2. OnceInv'
                  <4>1. pc' = pc /\ fate' = fate /\ opens' = opens
                        BY <2>2 DEF vars, allButPc, hist, bounds
                  <4> QED
                      BY <3>1, <4>1, NoBytesOnce DEF OnceInv, NothingYet, Unpublished, New
            <3>3. RecordInv'
                  BY RecordStep DEF DeliveryInv
            <3>4. Numbers' /\ Opened' /\ Named'
                  BY <2>2 DEF vars, allButPc, hist, bounds, block0, DeliveryInv, Numbers,
                         Opened, Unpublished, Named
            <3> QED
                BY <3>1, <3>2, <3>3, <3>4, NoBytesFate DEF DeliveryInv
      <2> QED
          BY <2>1, <2>2
<1> QED
    BY <1>1, DeliveryInit, OnceInit, PTL DEF Spec

\* How often a row has a record that it does not have twice.
LEMMA SingleCount ==
    ASSUME NEW s \in Seq(Slot), NEW r \in Rec, Single(s, r)
    PROVE  Cardinality({i \in DOMAIN s : s[i] = r}) = IF r \in In(s) THEN 1 ELSE 0
<1> DEFINE at == {i \in DOMAIN s : s[i] = r}
<1>1. CASE r \in In(s)
      <2>1. PICK i \in DOMAIN s : s[i] = r
            BY <1>1 DEF In
      <2>2. at = {i}
            BY <2>1 DEF Single
      <2> QED
          BY <1>1, <2>2, FS_Singleton
<1>2. CASE r \notin In(s)
      <2>1. at = {}
            BY <1>2 DEF In
      <2> QED
          BY <1>2, <2>1, FS_EmptySet
<1> QED
    BY <1>1, <1>2

\* For every number of clients, any block and any bounds, with both kinds of thread, with
\* flush_sync at any moment, crashes and failing files: a record that this process appends
\* is in at most one place - the block, one AutoBuffer, stdio or the log file, each once -
\* as long as the appender has been opened once.
THEOREM WrittenOnce == Spec => []NoRecordTwice
<1>1. DeliveryInv /\ OnceInv => NoRecordTwice
      <2> SUFFICES ASSUME DeliveryInv, OnceInv, opens <= 1, NEW r \in New
                   PROVE  Places(r) <= 1
          BY DEF NoRecordTwice, New
      <2>0. r \in Rec /\ OnePlace(r) /\ disk \in Seq(Slot) /\ stdio \in Seq(Slot)
            BY DEF New, OnceInv, DeliveryInv, RecordInv, TypeOK, DataOK
      <2> DEFINE T == {t \in Threads : r \in In(tmp[t]) /\ pc[t] \notin {"FlushClear", "OpenClear"}}
      <2>1. /\ Cardinality({i \in DOMAIN disk : disk[i] = r}) = IF r \in In(disk) THEN 1 ELSE 0
            /\ Cardinality({i \in DOMAIN stdio : stdio[i] = r}) = IF r \in In(stdio) THEN 1 ELSE 0
            BY <2>0, SingleCount DEF OnePlace, Once
      <2>2. /\ T = {} \/ \E t \in T : T = {t}
            /\ T # {} => r \in UnderWay /\ r \in Held
            BY <2>0 DEF OnePlace, Alone, UnderWay, Settled, Copying, Held
      <2>3. Cardinality(T) = IF T = {} THEN 0 ELSE 1
            BY <2>2, FS_EmptySet, FS_Singleton
      <2>4. /\ T # {} => r \notin Live /\ r \notin In(disk) /\ r \notin In(stdio)
            /\ r \in In(stdio) => r \notin Live /\ r \notin In(disk)
            /\ r \in In(disk) => r \notin Live
            BY <2>0, <2>2 DEF OnePlace, Alone, UnderWay
      <2>5. Places(r) = (IF r \in In(disk) THEN 1 ELSE 0) + (IF r \in In(stdio) THEN 1 ELSE 0)
                        + (IF r \in Live THEN 1 ELSE 0) + (IF T = {} THEN 0 ELSE 1)
            BY <2>1, <2>3 DEF Places
      <2> QED
          BY <2>4, <2>5
<1> QED
    BY <1>1, OnceHolds, PTL

\* Appender.tla implements Delivery.tla, for every number of clients, any block and any
\* bounds, with crashes and failing files. What append accepts is in a block, under way or
\* in the log file. It gets from one to the next only as the flush and __log2file take it
\* there, and is given up by close, by open, by the file system, by a flush beside the
\* first open or with the process.
THEOREM KeepsItsPromise == Spec => ImplementsDelivery
<1>1. Init => Promise!Init
      <2> SUFFICES ASSUME Init PROVE Promise!Init
          OBVIOUS
      <2>1. close /\ dir = FALSE /\ opens = 0 /\ ~mapped /\ ~buff /\ disk = << >> /\ stdio = << >>
            BY DEF Init
      <2>2. Held = {} /\ In(stdio) = {} /\ In(disk) = {} /\ InHeap = {}
            BY <2>1, InNone DEF Held, InHeap, Live, Init
      <2>3. \A r \in Rec : fate[r] \in {"none", "kept"} /\ (fate[r] = "kept" => r \in LeftBehind)
            BY DEF Init, LeftBehind
      <2>4. Safe \subseteq LeftBehind /\ Fragile = {} /\ Moving = {} /\ Lost = {}
            BY <2>2, <2>3 DEF Safe, Fragile, Moving, Lost, Accepted
      <2>5. Safe \in SUBSET LeftBehind
            BY <2>4
      <2> QED
          BY <2>1, <2>2, <2>4, <2>5 DEF Promise!Init, Safe, Fragile, Moving, Lost
<1>2. ASSUME DeliveryInv, OnceInv, DeliveryInv', [Next]_vars PROVE [Promise!Next]_(Promise!vars)
      <2>1. CASE UNCHANGED vars
            <3>1. NoBytes
                  BY <2>1 DEF vars, allButPc, hist, bounds, NoBytes, Settled
            <3> QED
                BY <1>2, <3>1, NoBytesOpensOrCloses DEF Promise!Next
      <2>2. CASE NoBytes
            BY <1>2, <2>2, NoBytesOpensOrCloses DEF Promise!Next
      <2>3. ASSUME NEW t \in Threads, NEW why \in Reasons, HandOn(t, why) PROVE Promise!Next
            <3>1. opens <= 1 => \A r \in UnderWay : fate[r] = "kept" \/ r \in LeftBehind
                  <4> SUFFICES ASSUME opens <= 1, NEW r \in UnderWay, r \notin LeftBehind
                               PROVE  fate[r] = "kept"
                      OBVIOUS
                  <4>1. r \in New /\ r \in Held \cup In(stdio)
                        BY UnderWayHeld DEF New, UnderWay, In
                  <4> QED
                      BY <1>2, <4>1 DEF OnceInv, OnePlace
            <3>2. Promise!File \/ Promise!Drop
                  BY <1>2, <2>3, <3>1, HandOnFiles
            <3> QED
                BY <3>2 DEF Promise!Next
      <2>4. ASSUME NEW t \in Threads, Copy(t) PROVE UNCHANGED Promise!vars
            BY <1>2, <2>4, CopyStutters
      <2>5. ASSUME NEW t \in Threads, Clear(t) PROVE Promise!Next
            <3>1. Promise!Take \/ Promise!Wipe
                  BY <1>2, <2>5, ClearTakesOrWipes
            <3> QED
                BY <3>1 DEF Promise!Next
      <2>6. ASSUME NEW t \in Clients, AppendSync(t) \/ Put(t) PROVE Promise!Next
            <3>1. Promise!Accept
                  BY <1>2, <2>6, AppendSyncAccepted, PutAccepted
            <3> QED
                BY <3>1 DEF Promise!Next
      <2>7. OpenCall => Promise!Next
            BY <1>2, OpenCallAttaches DEF Promise!Next
      <2>8. CloseFree => Promise!Next
            BY <1>2, CloseFreeWipes DEF Promise!Next
      <2>9. Die => Promise!Next
            BY <1>2, DieCrashes DEF Promise!Next
      <2>10. TypeOK
             BY <1>2 DEF DeliveryInv, RecordInv
      <2> QED
          BY <1>2, <2>1, <2>2, <2>3, <2>4, <2>5, <2>6, <2>7, <2>8, <2>9, <2>10, StepKinds DEF Ends
<1> QED
    BY <1>1, <1>2, OnceHolds, PTL DEF ImplementsDelivery, Promise!Spec, Spec
=============================================================================
