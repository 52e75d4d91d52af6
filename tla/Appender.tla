------------------------------ MODULE Appender ------------------------------
(***************************************************************************)
(* One log appender (loglib/mtaf_appender.cpp) under the threads that use  *)
(* it: Clients append, flush and set the mode, Owner opens and closes, and *)
(* Worker drains the buffer - the appender's own thread, or the thread all *)
(* shared appenders have in common.                                        *)
(*                                                                         *)
(* A record is one call of append, numbered in the order of the calls. The *)
(* 150KB block behind sg_log_buff is a row of BlockLen slots of one record *)
(* each; LogBuffer.tla models the block byte by byte. A step is what a     *)
(* thread does between two points where a step of another can matter.      *)
(***************************************************************************)
EXTENDS Naturals, Sequences, FiniteSets

CONSTANTS
    Clients, Owner, Worker,  \* the threads
    NoThread,        \* the holder of a mutex that is free
    UseShareThread,  \* create(use_share_thread)
    BlockLen,        \* sg_bufferblock_length, in slots
    MaxAppends,      \* bound: calls of append
    MaxOpens,        \* bound: calls of open
    LeftOver,        \* how many records of an earlier process may be in the mapped file
    ClientOps,       \* what clients call
    OpenModes,       \* the modes open is called with
    CanCrash,        \* whether the process may be killed, or die of a fault of its own
    CanFail,         \* whether open, fopen, fwrite and fclose may fail
    Nul,             \* a slot that begins with NUL, or whose record is cut
    Overflow,        \* the "[F][ sg_buffer_async.Length() >= ..." message
    Junk             \* uninitialised bytes of a heap block

Modes   == {"async", "sync"}
Rec     == 1..MaxAppends
Slot    == Rec \cup {Nul, Overflow, Junk}
Block   == [1..BlockLen -> Slot]
Threads == Clients \cup {Owner, Worker}

ASSUME AppenderAssumption ==
    /\ BlockLen \in Nat \ {0} /\ MaxAppends \in Nat /\ MaxOpens \in Nat
    /\ LeftOver \subseteq 0..BlockLen \cap 0..MaxAppends
    /\ Owner \notin Clients /\ Worker \notin Clients \cup {Owner}
    /\ NoThread \notin Threads
    /\ UseShareThread \in BOOLEAN /\ CanCrash \in BOOLEAN /\ CanFail \in BOOLEAN
    /\ ClientOps \subseteq {"append", "append_fatal", "flush", "flush_sync", "setmode"}
    /\ OpenModes \subseteq Modes
    /\ {Nul, Overflow, Junk} \cap Rec = {}
    /\ Nul # Overflow /\ Nul # Junk /\ Overflow # Junk

VARIABLES
    pc,        \* where each thread is; "idle" outside the appender
    tmp,       \* the bytes a thread carries: AutoBuffer, formatted record
    rec,       \* the record of the append a client is in, 0 if none
    mode,      \* sg_mode
    close,     \* sg_log_close
    dir,       \* sg_logdir is not empty
    buff,      \* sg_log_buff is not NULL
    mapped,    \* sg_log_buff is the mmap file, not a heap block
    mfile,     \* the bytes of the .mmap2 file
    heap,      \* the bytes of the heap block
    pos,       \* PtrBuffer::pos_
    len,       \* PtrBuffer::length_
    bufLock,   \* the holder of sg_mutex_buffer_async
    fileLock,  \* the holder of sg_mutex_log_file
    logfile,   \* sg_logfile is not NULL
    stdio,     \* the bytes in the buffer of that FILE
    disk,      \* the bytes of the .mtlog file
    next,      \* the next record number
    opens,     \* the calls of open so far
    fate,      \* history: what has become of each record
    promised,  \* history: the records whose append had returned when close began
    lapped     \* history, of an own thread: a flush_sync and another flush had bytes at once

block0 == <<buff, mapped>>
bytes  == <<mfile, heap, pos, len>>
locks  == <<bufLock, fileLock>>
files  == <<logfile, stdio, disk>>
bounds == <<next, opens>>
marks  == <<promised, lapped>>
hist   == <<fate, marks>>
allButPc == <<tmp, rec, mode, close, dir, block0, bytes, locks, files, bounds, hist>>
vars     == <<pc, allButPc>>

Fates == {"none", "kept", "overflow", "overwritten", "wiped", "failed", "dropped",
          "crashed"}

TaskPc   == {"FlushCopy", "FlushClear", "FileLock", "FileWrite", "FileDone", "FileFailed",
             "FileAgain"}
ClientPc == TaskPc \cup {"idle", "AppendMode", "AppendWrite", "AppendNotify", "FlushSyncLock"}
WorkerPc == TaskPc \cup {"exited", "OwnCheck", "OwnClosed", "Scan", "TaskCheck", "TaskLock",
                         "BeforeWait", "Wait"}
OwnerPc  == TaskPc \cup {"idle", "OpenCopy", "OpenClear", "OpenPublish", "OpenSetMode",
                         "CloseNotify", "CloseJoin", "TaskCheck", "TaskLock", "CloseFree",
                         "CloseLog"}

-----------------------------------------------------------------------------
(* The block. *)

block == IF mapped THEN mfile ELSE heap

SetBlock(b) == /\ mfile' = IF mapped THEN b ELSE mfile
               /\ heap'  = IF mapped THEN heap ELSE b

Blank == [i \in 1..BlockLen |-> Nul]

\* What Flush hands over: all up to length_, unless the first byte is NUL.
FlushedShort == IF len = 0 \/ block[1] = Nul THEN << >> ELSE SubSeq(block, 1, len - 1)
Flushed == IF len = 0 \/ block[1] = Nul THEN << >> ELSE SubSeq(block, 1, len)

\* PtrBuffer::Write of one slot at pos_: the slot, a terminator that cuts the
\* record behind it while there is room, length_ and pos_.
NewPosUnclamped == pos + 1
NewPos == IF pos < BlockLen THEN pos + 1 ELSE pos
NewLen == IF len < NewPos THEN NewPos ELSE len

Written(c) ==
    [i \in 1..BlockLen |->
        IF i = pos + 1 THEN c
        ELSE IF i = pos + 2 /\ NewLen < BlockLen THEN Nul ELSE block[i]]

\* LogBuffer::__Clear.
ClearBlock == SetBlock([block EXCEPT ![1] = Nul]) /\ pos' = 0 /\ len' = 0

ThirdFull  == len >= BlockLen \div 3
NearlyFull == len >= (BlockLen * 4) \div 5

(* Records, for the history variables and the properties. *)

In(s)       == {s[i] : i \in DOMAIN s} \cap Rec
Live        == IF buff THEN In(Flushed) ELSE {}
Recoverable == IF mfile[1] = Nul THEN {} ELSE In(mfile)
Held        == UNION {In(tmp[t]) : t \in Threads}
OnFile      == In(stdio) \cup In(disk)

Mark(rs, f) == fate' = [r \in Rec |-> IF r \in rs /\ fate[r] = "kept" THEN f ELSE fate[r]]

-----------------------------------------------------------------------------
(* Threads, mutexes, the condition. *)

NeverHeld(lock) == TRUE
Free(lock) == lock = NoThread

Goto(t, l) == pc' = [pc EXCEPT ![t] = l]
Step(t, from, to) == pc[t] = from /\ Goto(t, to) /\ UNCHANGED allButPc

LoopTop == IF UseShareThread THEN "Scan" ELSE "OwnCheck"
Running == pc[Worker] # "exited"          \* Thread::isruning

\* Where notifyAll leaves the worker: Condition::notifyAll without anywaynotify
\* is a bare broadcast, which a worker that does not wait yet never hears.
Notified == IF pc[Worker] = "Wait" THEN LoopTop ELSE pc[Worker]
Started  == IF Running THEN Notified ELSE LoopTop

WakeAndGoto(w, t, l) == pc' = [pc EXCEPT ![Worker] = w, ![t] = l]

\* Where a thread goes on after the flush or the file write it is in.
After(t) == IF t = Worker THEN (IF UseShareThread THEN "BeforeWait" ELSE "OwnClosed")
            ELSE IF t = Owner /\ close THEN "CloseFree" ELSE "idle"

Init ==
    /\ pc = [t \in Threads |-> IF t = Worker THEN "exited" ELSE "idle"]
    /\ tmp = [t \in Threads |-> << >>] /\ rec = [t \in Threads |-> 0]
    /\ mode = "async" /\ close = TRUE /\ dir = FALSE
    /\ buff = FALSE /\ mapped = FALSE
    /\ \E n \in LeftOver :
        /\ mfile = [i \in 1..BlockLen |-> IF i <= n THEN i ELSE Nul]
        /\ next = n + 1
        /\ fate = [r \in Rec |-> IF r <= n THEN "kept" ELSE "none"]
    /\ heap = Blank /\ pos = 0 /\ len = 0
    /\ bufLock = NoThread /\ fileLock = NoThread
    /\ logfile = FALSE /\ stdio = << >> /\ disk = << >>
    /\ opens = 0 /\ promised = {} /\ lapped = FALSE

-----------------------------------------------------------------------------
(* append and append_ex. *)

\* Up to the check of sg_log_close; a call on a closed appender just returns.
AppendCall(t) ==
    /\ ClientOps \cap {"append", "append_fatal"} # {}
    /\ pc[t] = "idle" /\ ~close /\ next <= MaxAppends
    /\ rec' = [rec EXCEPT ![t] = next] /\ next' = next + 1
    /\ Goto(t, "AppendMode")
    /\ UNCHANGED <<tmp, mode, close, dir, block0, bytes, locks, files, opens, hist>>

\* sg_mode: __appender_sync formats and goes to __log2file with the record.
AppendMode(t) ==
    /\ pc[t] = "AppendMode"
    /\ IF mode = "sync"
       THEN /\ tmp' = [tmp EXCEPT ![t] = <<rec[t]>>]
            /\ fate' = [fate EXCEPT ![rec[t]] = "kept"]
            /\ Goto(t, "FileLock")
       ELSE Goto(t, "AppendWrite") /\ UNCHANGED <<tmp, fate>>
    /\ UNCHANGED <<rec, mode, close, dir, block0, bytes, locks, files, bounds, marks>>

\* History: until open has flushed the block it has attached, pos_ is at the start of
\* what the last process left (length_ is at its end), and a late append writes over it.
Overwritten ==
    IF len # pos THEN In(SubSeq(block, pos + 1, NewPos)) \ (Held \cup OnFile) ELSE {}

AppendFate(t) ==
    [r \in Rec |-> IF r = rec[t] THEN (IF NearlyFull THEN "overflow" ELSE "kept")
                   ELSE IF r \in Overwritten /\ fate[r] = "kept" THEN "overwritten" ELSE fate[r]]

\* __appender_async up to LogBuffer::Write: lock, leave if there is no buffer,
\* put a message in the record's place when the block is nearly full, write.
AppendWrite(t) ==
    /\ pc[t] = "AppendWrite" /\ Free(bufLock)
    /\ IF buff
       THEN /\ bufLock' = t
            /\ SetBlock(Written(IF NearlyFull THEN Overflow ELSE rec[t]))
            /\ pos' = NewPos /\ len' = NewLen
            /\ fate' = AppendFate(t)
            /\ Goto(t, "AppendNotify")
            /\ UNCHANGED rec
       ELSE /\ rec' = [rec EXCEPT ![t] = 0]
            /\ Goto(t, "idle")
            /\ UNCHANGED <<bytes, bufLock, fate>>
    /\ UNCHANGED <<tmp, mode, close, dir, block0, fileLock, files, bounds, marks>>

\* The rest: wake the own thread when a third of the block is used or the record
\* is fatal; start the shared thread if it does not run, wake it for an open
\* appender on the same condition; unlock. (Beside an appender with a thread of its
\* own and no shared one, the shared thread ends as soon as it is started.)
AppendNotify(t) ==
    /\ pc[t] = "AppendNotify"
    /\ \E fatal \in BOOLEAN :
        LET urgent == fatal \/ ThirdFull IN
        /\ (IF fatal THEN "append_fatal" ELSE "append") \in ClientOps
        /\ WakeAndGoto(IF UseShareThread /\ ~Running THEN LoopTop
                       ELSE IF urgent /\ ~(UseShareThread /\ close) THEN Notified
                       ELSE pc[Worker], t, "idle")
    /\ bufLock' = NoThread
    /\ rec' = [rec EXCEPT ![t] = 0]
    /\ UNCHANGED <<tmp, mode, close, dir, block0, bytes, fileLock, files, bounds, hist>>

-----------------------------------------------------------------------------
(* setmode, flush, flush_sync. *)

\* Store the mode, notify both conditions, start an own thread that is needed
\* and does not run.
SetModeEffect(t, m, l) ==
    /\ mode' = m
    /\ WakeAndGoto(IF m = "async" /\ ~UseShareThread THEN Started ELSE Notified, t, l)

SetMode(t) ==
    /\ "setmode" \in ClientOps /\ pc[t] = "idle"
    /\ \E m \in Modes : SetModeEffect(t, m, "idle")
    /\ UNCHANGED <<tmp, rec, close, dir, block0, bytes, locks, files, bounds, hist>>

Flush(t) ==
    /\ "flush" \in ClientOps /\ pc[t] = "idle"
    /\ WakeAndGoto(Notified, t, "idle")
    /\ UNCHANGED allButPc

\* flush_sync looks at the mode, not at sg_log_close.
FlushSyncCall(t) == "flush_sync" \in ClientOps /\ mode = "async" /\ Step(t, "idle", "FlushSyncLock")

FlushSyncLock(t) ==
    /\ pc[t] = "FlushSyncLock" /\ Free(bufLock)
    /\ bufLock' = IF buff THEN t ELSE bufLock
    /\ Goto(t, IF buff THEN "FlushCopy" ELSE "idle")
    /\ UNCHANGED <<tmp, rec, mode, close, dir, block0, bytes, fileLock, files, bounds, hist>>

-----------------------------------------------------------------------------
(* __log_thread_task: the worker's flush, and close's on a shared appender. *)

\* sg_log_buff is compared with NULL before the mutex is taken.
TaskCheck(t) == Step(t, "TaskCheck", IF buff THEN "TaskLock" ELSE After(t))

TaskLock(t) ==
    /\ pc[t] = "TaskLock" /\ Free(bufLock)
    /\ bufLock' = t
    /\ Goto(t, "FlushCopy")
    /\ UNCHANGED <<tmp, rec, mode, close, dir, block0, bytes, fileLock, files, bounds, hist>>

\* LogBuffer::Flush: the copy into the AutoBuffer, then __Clear; unlock.
Beside(t) ==
    /\ ~UseShareThread
    /\ \E u \in Threads \ {t} : tmp[u] # << >> /\ {t, u} \cap Clients # {}

FlushCopy(t) ==
    /\ pc[t] = "FlushCopy" /\ buff
    /\ tmp' = [tmp EXCEPT ![t] = Flushed]
    /\ lapped' = (lapped \/ Beside(t))
    /\ Goto(t, "FlushClear")
    /\ UNCHANGED <<rec, mode, close, dir, block0, bytes, locks, files, bounds, fate, promised>>

FlushClear(t) ==
    /\ pc[t] = "FlushClear"
    /\ ClearBlock
    /\ bufLock' = NoThread
    /\ Goto(t, IF tmp[t] = << >> THEN After(t) ELSE "FileLock")
    /\ UNCHANGED <<tmp, rec, mode, close, dir, block0, fileLock, files, bounds, hist>>

-----------------------------------------------------------------------------
(* __log2file. *)

\* sg_logdir is looked at before the mutex is taken. Until the first open of a process
\* has set it, what another flush of the block took is dropped.
NoLogDir(t) ==
    /\ pc[t] = "FileLock" /\ ~dir
    /\ tmp' = [tmp EXCEPT ![t] = << >>] /\ rec' = [rec EXCEPT ![t] = 0]
    /\ Mark(In(tmp[t]), "dropped")
    /\ Goto(t, After(t))
    /\ UNCHANGED <<mode, close, dir, block0, bytes, locks, files, bounds, marks>>

\* fclose passes on what stdio buffers, or fails and drops all but the first k.
Passed == IF CanFail THEN 0..Len(stdio) ELSE {Len(stdio)}
FClose(k, refused) ==
    /\ disk' = disk \o SubSeq(stdio, 1, k) /\ stdio' = << >>
    /\ Mark(In(SubSeq(stdio, k + 1, Len(stdio))) \cup refused, "failed")

\* The mutex, and __openlogfile: the FILE of the same day stays; any other is closed, and
\* the file, of the same name every day, opened again. When fopen fails, nobody puts the
\* bytes back into the block.
FileLock(t) ==
    /\ pc[t] = "FileLock" /\ dir /\ Free(fileLock)
    /\ fileLock' = t
    /\ \/ logfile /\ Goto(t, "FileWrite") /\ UNCHANGED <<tmp, files, fate>>
       \/ /\ \E k \in Passed : FClose(k, {})
          /\ logfile' = TRUE
          /\ Goto(t, "FileWrite") /\ UNCHANGED tmp
       \/ /\ CanFail
          /\ \E k \in Passed : FClose(k, In(tmp[t]))
          /\ logfile' = FALSE
          /\ tmp' = [tmp EXCEPT ![t] = << >>]
          /\ Goto(t, "FileDone")
    /\ UNCHANGED <<rec, mode, close, dir, block0, bytes, bufLock, bounds, marks>>

\* stdio may pass any prefix of what it buffers on to the file.
Drain(s) == \E k \in 0..Len(s) :
    disk' = disk \o SubSeq(s, 1, k) /\ stdio' = SubSeq(s, k + 1, Len(s))

\* __writefile. fwrite may fail after a prefix.
FileWrite(t) ==
    /\ pc[t] = "FileWrite"
    /\ \/ Drain(stdio \o tmp[t]) /\ Goto(t, "FileDone") /\ UNCHANGED fate
       \/ /\ CanFail
          /\ \E k \in 0..(Len(tmp[t]) - 1) :
              /\ Drain(stdio \o SubSeq(tmp[t], 1, k))
              /\ Mark(In(SubSeq(tmp[t], k + 1, Len(tmp[t]))), "failed")
          /\ Goto(t, "FileFailed")
    /\ tmp' = [tmp EXCEPT ![t] = << >>]
    /\ UNCHANGED <<rec, mode, close, dir, block0, bytes, locks, logfile, bounds, marks>>

\* __closelogfile.
CloseLogFile == (\E k \in Passed : FClose(k, {})) /\ logfile' = FALSE

KeepLogFile(m) == UNCHANGED <<files, fate>>
CloseIn(m) == IF mode = m THEN CloseLogFile ELSE UNCHANGED <<files, fate>>

\* After each write the file is closed in async mode, and after one that failed sg_mode
\* is read again, and the file closed in sync mode. (If fopen failed there is none.)
FileFailed(t) ==
    /\ pc[t] = "FileFailed"
    /\ CloseIn("async")
    /\ Goto(t, "FileAgain")
    /\ UNCHANGED <<tmp, rec, mode, close, dir, block0, bytes, locks, bounds, marks>>

FileDone(t) ==
    /\ pc[t] \in {"FileDone", "FileAgain"}
    /\ CloseIn(IF pc[t] = "FileDone" THEN "async" ELSE "sync")
    /\ fileLock' = NoThread
    /\ rec' = [rec EXCEPT ![t] = 0]
    /\ Goto(t, After(t))
    /\ UNCHANGED <<tmp, mode, close, dir, block0, bytes, bufLock, bounds, marks>>

-----------------------------------------------------------------------------
(* __async_log_thread_operation and __async_log_shared_thread_operation. *)

OwnCheck == Step(Worker, "OwnCheck", IF buff THEN "TaskCheck" ELSE "exited")

NeverLeaves == Step(Worker, "OwnClosed", "BeforeWait")
OwnClosed == Step(Worker, "OwnClosed", IF close THEN "exited" ELSE "BeforeWait")

\* The shared thread skips a closed appender. It leaves only when no appender
\* is registered, and this one is for as long as it is used.
Scan == Step(Worker, "Scan", IF close THEN "BeforeWait" ELSE "TaskCheck")

BeforeWait == Step(Worker, "BeforeWait", "Wait")

\* The wait of 15 minutes ends.
NoTimeout == FALSE
Timeout == Step(Worker, "Wait", LoopTop)

-----------------------------------------------------------------------------
(* open. *)

\* The block is mapped (or allocated) and attached with length_ = max_length_.
AttachedLenZero == 0
AttachedLen == BlockLen

OpenCall ==
    /\ pc[Owner] = "idle" /\ close /\ opens < MaxOpens
    /\ \/ mapped' = TRUE /\ UNCHANGED heap
       \/ /\ CanFail                        \* the file cannot be opened: new char[]
          /\ mapped' = FALSE
          /\ heap' \in {Blank, [i \in 1..BlockLen |-> Junk]}
    /\ buff' = TRUE
    /\ pos' = 0 /\ len' = AttachedLen
    /\ opens' = opens + 1
    /\ Goto(Owner, "OpenCopy")
    /\ UNCHANGED <<tmp, rec, mode, close, dir, mfile, locks, files, next, hist>>

\* Flush of what the last run left, with no mutex held.
OpenCopy ==
    /\ pc[Owner] = "OpenCopy"
    /\ tmp' = [tmp EXCEPT ![Owner] = Flushed]
    /\ lapped' = (lapped \/ Beside(Owner))
    /\ Goto(Owner, "OpenClear")
    /\ UNCHANGED <<rec, mode, close, dir, block0, bytes, locks, files, bounds, fate, promised>>

\* A record that a late append wrote after the copy is cleared with the rest.
OpenClear ==
    /\ pc[Owner] = "OpenClear"
    /\ ClearBlock
    /\ Mark(Live \ (Held \cup OnFile), "wiped")
    /\ Goto(Owner, "OpenPublish")
    /\ UNCHANGED <<tmp, rec, mode, close, dir, block0, locks, files, bounds, marks>>

\* Under sg_mutex_log_file: name and directory (neither empty), sg_log_close = false,
\* setmode.
OpenPublish ==
    /\ pc[Owner] = "OpenPublish" /\ Free(fileLock)
    /\ fileLock' = Owner
    /\ dir' = TRUE /\ close' = FALSE
    /\ Goto(Owner, "OpenSetMode")
    /\ UNCHANGED <<tmp, rec, mode, block0, bytes, bufLock, files, bounds, hist>>

OpenSetMode ==
    /\ pc[Owner] = "OpenSetMode"
    /\ \E m \in OpenModes :
        SetModeEffect(Owner, m, IF tmp[Owner] = << >> THEN "idle" ELSE "FileLock")
    /\ fileLock' = NoThread
    /\ UNCHANGED <<tmp, rec, close, dir, block0, bytes, bufLock, files, bounds, hist>>

-----------------------------------------------------------------------------
(* close. *)

CloseCall ==
    /\ pc[Owner] = "idle" /\ ~close
    /\ close' = TRUE
    /\ promised' = {r \in Rec : fate[r] = "kept" /\ \A c \in Clients : rec[c] # r}
    /\ Goto(Owner, "CloseNotify")
    /\ UNCHANGED <<tmp, rec, mode, dir, block0, bytes, locks, files, bounds, fate, lapped>>

\* Join the own thread if it runs; run the task in place of the shared thread.
NoTask     == IF ~UseShareThread /\ Running THEN "CloseJoin" ELSE "CloseFree"
NoJoin     == IF UseShareThread THEN "TaskCheck" ELSE "CloseFree"
AlwaysTask == "TaskCheck"
AlwaysJoin == "CloseJoin"
Drainer == IF UseShareThread THEN "TaskCheck" ELSE IF Running THEN "CloseJoin" ELSE "CloseFree"

CloseNotify ==
    /\ pc[Owner] = "CloseNotify"
    /\ WakeAndGoto(Notified, Owner, Drainer)
    /\ UNCHANGED allButPc

CloseJoin == ~Running /\ Step(Owner, "CloseJoin", "CloseFree")

\* Under the buffer mutex: zero and unmap the file or delete the heap block,
\* and set sg_log_buff to NULL.
CloseFree ==
    /\ pc[Owner] = "CloseFree" /\ Free(bufLock)
    /\ mfile' = IF mapped THEN Blank ELSE mfile
    /\ heap' = Blank /\ pos' = 0 /\ len' = 0
    /\ buff' = FALSE /\ mapped' = FALSE
    /\ Mark(Live \ (Held \cup OnFile), "wiped")
    /\ Goto(Owner, "CloseLog")
    /\ UNCHANGED <<tmp, rec, mode, close, dir, locks, files, bounds, marks>>

CloseLog ==
    /\ pc[Owner] = "CloseLog" /\ Free(fileLock)
    /\ CloseLogFile
    /\ Goto(Owner, "idle")
    /\ UNCHANGED <<tmp, rec, mode, close, dir, block0, bytes, locks, bounds, marks>>

-----------------------------------------------------------------------------
(* The end of the process: only the two files outlive it. *)

Die ==
    /\ pc' = [t \in Threads |-> IF t = Worker THEN "exited" ELSE "idle"]
    /\ tmp' = [t \in Threads |-> << >>] /\ rec' = [t \in Threads |-> 0]
    /\ mode' = "async" /\ close' = TRUE /\ dir' = FALSE
    /\ buff' = FALSE /\ mapped' = FALSE /\ heap' = Blank /\ pos' = 0 /\ len' = 0
    /\ bufLock' = NoThread /\ fileLock' = NoThread
    /\ logfile' = FALSE /\ stdio' = << >>
    /\ Mark(Rec \ (Recoverable \cup In(disk)), "crashed")
    /\ promised' = {}
    /\ UNCHANGED <<mfile, disk, bounds, lapped>>

\* In any state. (A map that fails is one occasion: mtaf_open_mmap does not look at what mmap
\* returns, and the flush in open faults.)
Crash == CanCrash /\ Die

\* Flush called through a NULL sg_log_buff: the process faults.
NullFlush(t) == pc[t] = "FlushCopy" /\ ~buff /\ Die

-----------------------------------------------------------------------------
ClientCall(t) == AppendCall(t) \/ SetMode(t) \/ Flush(t) \/ FlushSyncCall(t)

\* What a thread does once it is inside the appender, waiting for a mutex apart.
Move(t) ==
    \/ t \in Clients /\ (AppendMode(t) \/ AppendNotify(t))
    \/ TaskCheck(t) \/ FlushCopy(t) \/ FlushClear(t) \/ NullFlush(t)
    \/ NoLogDir(t) \/ FileWrite(t) \/ FileFailed(t) \/ FileDone(t)
    \/ t = Worker /\ (OwnCheck \/ OwnClosed \/ Scan \/ BeforeWait \/ Timeout)
    \/ t = Owner /\ (OpenCopy \/ OpenClear \/ OpenSetMode \/ CloseNotify \/ CloseJoin)

Acquire(t) ==
    \/ t \in Clients /\ (AppendWrite(t) \/ FlushSyncLock(t))
    \/ TaskLock(t) \/ FileLock(t)
    \/ t = Owner /\ (OpenPublish \/ CloseFree \/ CloseLog)

Next ==
    \/ \E t \in Clients : ClientCall(t)
    \/ OpenCall \/ CloseCall
    \/ \E t \in Threads : Move(t) \/ Acquire(t)
    \/ Crash

Spec == Init /\ [][Next]_vars

\* A thread inside the appender takes its next step and its timed wait ends. A
\* thread that keeps finding a mutex free now and then gets it in the end: nobody
\* holds one for ever, and between two flushes the worker sleeps for 15 minutes
\* or until it is notified. Nobody has to call, and nobody has to crash.
Fairness == \A t \in Threads : WF_vars(Move(t)) /\ SF_vars(Acquire(t))

FairSpec == Spec /\ Fairness

-----------------------------------------------------------------------------
(* Properties. *)

\* Every thread is at a place of its own role, and a client in append has a record.
PcOK ==
    /\ pc \in [Threads -> ClientPc \cup WorkerPc \cup OwnerPc]
    /\ \A c \in Clients : pc[c] \in ClientPc
    /\ pc[Worker] \in WorkerPc /\ pc[Owner] \in OwnerPc
    /\ rec \in [Threads -> Rec \cup {0}]
    /\ \A c \in Clients : pc[c] \in {"AppendMode", "AppendWrite", "AppendNotify"} => rec[c] # 0

\* Every other variable has its type, and the two positions stay in order inside
\* the block (the assertions of PtrBuffer::Write and PtrBuffer::Length).
DataOK ==
    /\ tmp \in [Threads -> Seq(Slot)]
    /\ mode \in Modes /\ close \in BOOLEAN /\ dir \in BOOLEAN /\ buff \in BOOLEAN /\ mapped \in BOOLEAN
    /\ mfile \in Block /\ heap \in Block
    /\ pos \in 0..BlockLen /\ len \in 0..BlockLen /\ pos <= len
    /\ bufLock \in Threads \cup {NoThread} /\ fileLock \in Threads \cup {NoThread}
    /\ logfile \in BOOLEAN /\ stdio \in Seq(Slot) /\ disk \in Seq(Slot)
    /\ next \in 1..(MaxAppends + 1) /\ opens \in 0..MaxOpens
    /\ fate \in [Rec -> Fates] /\ promised \subseteq Rec /\ lapped \in BOOLEAN

TypeOK == PcOK /\ DataOK

\* No record vanishes between the block, the AutoBuffer of a flush, stdio and
\* the two files: what append accepted is in one of them until close wipes it, a late
\* append overwrites it, the file system refuses it or the process dies with it (Flush,
\* __log2file, and open after a crash).
Accounted ==
    \A r \in Rec : fate[r] = "kept" => r \in Live \cup Recoverable \cup Held \cup OnFile

\* The places a record is in; a copy that is about to be cleared counts as one.
Places(r) ==
    LET at(s) == Cardinality({i \in DOMAIN s : s[i] = r})
    IN at(disk) + at(stdio) + (IF r \in Live THEN 1 ELSE 0)
       + Cardinality({t \in Threads : r \in In(tmp[t]) /\ pc[t] \notin {"FlushClear", "OpenClear"}})

\* The records that an earlier process may have left in the mapped file.
LeftBehind == {r \in Rec : \E n \in LeftOver : r <= n}

\* However the flushes of the worker, of close and of flush_sync interleave, a record
\* that this process appends reaches the log file at most once. (The flush in open holds no
\* mutex: a flush_sync before open returns can cross with it over what is left behind, and
\* from a second open on a late append and any other flush can.)
NoRecordTwice == opens <= 1 => \A r \in Rec \ LeftBehind : Places(r) <= 1

\* close writes back what was appended before it: a record whose append had
\* returned when close was called is not wiped with the block.
CloseKeepsPromised == \A r \in promised : fate[r] # "wiped"

\* With a thread of its own: a client's records reach the log file in the order of its
\* calls, over flush_sync, close and reopen too, as long as no flush_sync has been
\* between block and file at the same time as another flush. Nothing else can be
\* overtaken there. (close on a shared thread can: it flushes beside that thread.)
OrderKept ==
    LET log == disk \o stdio
    IN ~lapped => \A i, j \in DOMAIN log : i < j /\ {log[i], log[j]} \subseteq Rec =>
        log[i] < log[j]

\* Flush is never called through a NULL sg_log_buff: close frees the buffer only
\* when the own thread is gone and nobody holds the mutex.
NoNullFlush == \A t \in Threads : pc[t] = "FlushCopy" => buff

\* An appender opened in async mode has no log file open when it is closed and
\* nobody is inside it, however late a flush ran.
NoFileLeftOpen ==
    close /\ (\A t \in Threads : pc[t] \in {"idle", "exited", "Wait"}) => ~logfile

\* A record is where it is stored most safely.
Accepted == {r \in Rec : fate[r] = "kept"} \ In(disk)
InMapped == IF buff /\ mapped THEN Live ELSE Recoverable
InHeap   == IF mapped THEN {} ELSE Live

Promise == INSTANCE Delivery WITH
    Old     <- LeftBehind,
    up      <- ~close,
    named   <- dir,
    lives   <- opens,
    block   <- Accepted \cap InMapped,
    fragile <- Accepted \cap (InHeap \ InMapped),
    moving  <- Accepted \cap ((Held \cup In(stdio)) \ (InMapped \cup InHeap)),
    filed   <- In(disk),
    lost    <- {r \in Rec : fate[r] \notin {"none", "kept"}} \ In(disk)

\* From append to the log file no step of any thread, no failure and no end of the
\* process makes more of a record than Delivery says, or less.
ImplementsDelivery == Promise!Spec

\* A record that append accepted gets to the log file - through the block, the copy of
\* whoever flushes it and __log2file - or is wiped with the block by close
\* or open: a lost notification costs time, no more.
ReachesFile == \A r \in Rec : (fate[r] = "kept") ~> (r \in OnFile \/ fate[r] = "wiped")

\* Every call returns, close included: nobody waits for ever for a mutex, for
\* the own thread or for a notification.
CallsReturn == \A t \in Clients \cup {Owner} : (pc[t] # "idle") ~> (pc[t] = "idle")

\* The comment at mtaf_appender.cpp:395: a block used beyond the limit gets the
\* worker notified to write it back, so the worker does not sleep over it.
FullBlockKeepsWorkerAwake ==
    buff /\ ~close /\ Free(bufLock) /\ ThirdFull => pc[Worker] # "Wait"
=============================================================================
