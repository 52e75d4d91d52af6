# A TLA+ verification of MTAppenderFile

MTAppenderFile is a logging library for iOS: `append` puts a record into a 150KB
block that is mapped from a `.mmap2` file, and a background thread moves the block's
content into a `.mtlog` file. What is in the block survives the death of the process and
is written back by the next `open`. This directory specifies that machinery in TLA+,
checks it with TLC and proves parts of it with TLAPS. Paths below are relative to the
repository, `a.cpp:7` is line 7; most line numbers without a file are of
`loglib/mtaf_appender.cpp`.

## 1. Inventory

| component | state | operations | talks to |
|---|---|---|---|
| Appender, `loglib/mtaf_appender.cpp` | `sg_mode`, `sg_log_close`, `sg_log_buff`, `sg_mmap_file`, `sg_logfile`, two mutexes, a condition, a `Thread` | append, append_ex, setmode, flush, flush_sync, open, close, the two thread operations | log buffer, mapped file, stdio, Thread, Condition |
| Shared appenders and shared thread (79-164, 326-348, 401-414) | one list under a spin lock, one thread and one condition for all appenders | create, destroy, the scan by the thread, the scan by append | all shared appenders |
| Log buffer, `mtaf_log_buffer.cpp` over `mtaf_ptrbuffer.cc` | the block, `pos_`, `length_` | Attach, Write, Flush, `__Clear` | the block in the mapped file or on the heap |
| Mapped file, `mtaf_mmap_file.cpp` | a descriptor, an address | open, close | the file system |
| Log file (218-311) | `sg_logfile`, `sg_openfiletime` | `__log2file`, `__openlogfile`, `__writefile`, `__closelogfile` | stdio |
| Thread, `comm/mtaf_thread.h` | a reference-counted record shared with the pthread: tid, isended, isjoined, isinthread, killsig, the delay and its cancel | start, start_after, start_periodic, cancel_*, join, kill, destructor | pthreads, Condition, SpinLock |
| Condition, Mutex, SpinLock, ScopedLock, atomics | `anyway_notify_`; an owner | wait, notifyAll, lock | pthreads |
| AutoBuffer, `comm/mtaf_autobuffer.cc` | pointer, position, length, capacity | Write, Seek, `__FitSize`, Ptr, Length | the flushes |
| Formatter, `mtaf_formatter.cpp` | none | text and length of a record | PtrBuffer |
| Objective-C wrapper, `MTAppenderFile.mm` | one shared-thread appender | forwards each call | Appender |
| Demo, assertions, clocks | - | - | - |

What makes the system hard, and what has to be right:

* **Appender.** Callers append while the background thread flushes, while the owner
  closes and reopens. Three places flush the block (the worker, flush_sync, close), plus
  open, which takes no mutex to do it. A flush copies under one mutex and writes under
  another. `sg_log_close`, `sg_mode` and `sg_log_buff` are tested outside the mutexes and
  used later. Right means: no record is lost or written twice, close writes back what it
  found, nobody flushes through a freed buffer, every call returns, and a block that is
  nearly full gets drained.
* **Log buffer.** Only the first byte and the cursors tell an empty block from a full
  one; the cursors are not in the file. Writes must stay inside the block, a reader of the
  `.mmap2` file must find what is in it, and a crash between any two bytes must lose
  nothing that was complete.
* **Formatter and buffers.** A record goes through three buffers - 16KB on append's stack,
  the block, the copy of a flush - whose lengths are related by constants (1024, 130, four
  fifths, units of 128) and nothing else. Right means: no write leaves its buffer, a body
  that is too long is cut and its newline is not, no record is cut at the end of the
  block, and a flush that gets no memory does not lose the block.
* **Thread.** One object is used by the caller and by the pthread it starts, and is
  started again by several callers. Right means: deleted exactly once and after its last
  use, one pthread at a time, each either joined or detached, a cancel never lost or left
  over, a join that returns.
* **Shared appenders.** The list is read by append without its lock, and the shared
  thread starts with data, ends with the list and holds the spin lock while it writes
  files. Right means: a record is in its file when close returns, the thread never uses a
  deleted appender, and nobody spins for ever.

`PROJECT.json` lists the hazards line by line.

## 2. Modules

### Appender.tla

One appender with `Clients` that append, flush and set the mode, an `Owner` that opens
and closes it, and the `Worker` that drains it: its own thread or the shared one
(`UseShareThread`). `pc` says where each thread is between two points at which a step
of another thread can matter, so a step is a critical section, or what a thread does
between two reads of shared state.

| code | actions |
|---|---|
| append, append_ex 417-437 | `AppendCall` (the test of `sg_log_close`), `AppendMode` (the test of `sg_mode`; `__appender_sync` goes to `__log2file`) |
| `__appender_async` 378-415 | `AppendWrite` (lock, NULL test, record or overflow message), `AppendNotify` (the two notifications, starting the shared thread, unlock) |
| setmode, flush, flush_sync 474-503 | `SetMode`, `Flush`, `FlushSyncCall`, `FlushSyncLock` |
| `__log_thread_task` 313-324 | `TaskCheck` (NULL test before the mutex), `TaskLock`, `FlushCopy`, `FlushClear` |
| `__log2file` and below 230-311 | `NoLogDir` (the return on an empty `sg_logdir`, before the mutex), `FileLock` (the mutex, `__openlogfile`), `FileWrite`, `FileFailed` and `FileDone` (the two reads of `sg_mode`, `__closelogfile`) |
| the thread operations 326-365 | `OwnCheck`, `OwnClosed` or `Scan`, `BeforeWait`, `Timeout` |
| open 166-216 | `OpenCall` (map, attach), `OpenCopy`, `OpenClear` (Flush with no mutex), `OpenPublish`, `OpenSetMode`, then the file actions |
| close 439-472 | `CloseCall`, `CloseNotify`, `CloseJoin`, the task actions when the thread is shared, `CloseFree`, `CloseLog` |
| the end of the process | `Crash` (killed, or dead of a map that failed; in any state), `NullFlush` (Flush through a NULL `sg_log_buff`) |

Abstractions. A record is its number, and a slot of the block holds one record; a slot
`Nul` begins with a NUL or holds a record that a terminator has cut; `Overflow` is the
message that takes a record's place at four fifths of the block; `Junk` is uninitialised
heap memory. stdio passes any prefix of its buffer on at any write, so a crash may lose
any suffix. A failing fwrite writes any prefix, and a failing fclose passes on any prefix of
what stdio holds, here too when the day changes: then `FileLock` closes a file and opens
the one of the same name again. `dir` says that `sg_logdir` is set: it is empty until the
first open of a process publishes the appender, and a flush beside that open drops what it has
taken (fate `dropped`). A file that cannot be opened gets open a heap block; a map that
fails does not, because `mtaf_open_mmap` does not look at what mmap returns: the flush in open
faults, and that is one of the deaths of the process. `notifyAll` is a bare
broadcast: it moves a waiting worker and is lost on any other. `Timeout` stands for the
end of the timed wait and for spurious wakeups. The shared thread is modelled from one
appender's view, which stays registered; `Registry` has its start and its end.
`LeftOver` lets the mapped file hold records of a process that died before. `fate`,
`promised` and `lapped` are history variables that only properties read, and `lapped` is
kept for an own thread alone, the only one `OrderKept` speaks of.

### Delivery.tla

What an appender promises, in sets of records: what is in the mapped block outlives the
process; what is in a heap block (`fragile`) or on its way (`moving`) need not; what is
in the log file stays there; and each way to give a record up is an action with its
condition: close and open on an appender that is not up, the file system if it can fail,
the end of the process, the message of a nearly full block, an append that outlives a
close, and, until the first open of a process has named the log file (`named`), a flush beside
it that knows none (`Drop`). `Appender` maps a record to the safest place it is in, and `ImplementsDelivery`
states that every step of every thread is one of these actions or leaves them all alone.

### LogBuffer.tla and ByteLog.tla

`LogBuffer` is the block byte by byte, with four more bytes behind it that belong to
somebody else. Whether the file can be opened is chosen at the start (`useHeap`). A write is
`WriteBegin` (the cut at the end of the block, `length_`, `__Clear` when empty),
`WriteCopy` (memcpy) and `WriteTerminator`; a flush is `FlushCopy`, `FlushClear` and,
later and interleaved with more writes, `Emit`. `Crash` may leave any prefix of the
bytes that are being stored. A record is a run of equal bytes, so cut, stale and
misplaced bytes show. `ByteLog` is the abstract promise: a durable first-in first-out
store that a flush takes from and that survives a crash. `ImplementsByteLog` states
that `LogBuffer` implements it, with the bytes written since the last flush as the
abstract content.

### Record.tla, PtrBuffer.tla and AutoBuffer.tla

The bytes of a record and the lengths that cut them. `PtrBuffer` and `AutoBuffer` define
the operations of the two buffer classes on a record of bytes and cursors, with the bytes
around the memory that must stay as they are; `Record` puts them together. Each call is one
step here: in the code it holds the buffer mutex, and `LogBuffer` has what happens in
between.

| code | definitions |
|---|---|
| `PtrBuffer`: constructor, Write, Seek, Length, Ptr | `Over`, `Write`, `SetLength`, `Content` |
| `AutoBuffer`: constructor, `__FitSize`, Write, Seek, Ptr | `NoBuffer`, `FitSize`, `WriteTo`, `SeekCur`, `Content` |
| `mtaf_log_formater` 44-61, 63-73, 75-77 | `Header` (snprintf, and Length with what it returned), `Body` (the cut, the error text for NULL), `EndLine` (the newline) |
| `__appender_async` 378-391, LogBuffer::Write | `AppendAsync`, `Overflowed` |
| `__appender_sync` 367-376 | `AppendSync` |
| appendFormat | `AppendFormat` (the cut of vsnprintf) |
| LogBuffer::Flush, the constructor after a crash | `Flush` (memory refused or not), `Reopen` |

### Thread.tla

One `Thread` object, its record, and the pthreads it starts one after the other. Users
start, cancel, signal, join and destroy it; a method's critical section under `splock`
is a step, and what follows the unlock (`JoinTid`, `KillSend`) is another. A delayed or
periodic thread goes through `Condition::wait`: `WaitTest` (the test of
`anyway_notify_`), `FallAsleep`, `Wake`; a notification between the first two finds
nobody. What the system keeps of an ended pthread is in `os` (joinable, joined,
detached), because joining a detached one is undefined: `JoinLost`.

### Registry.tla

The shared appenders of a process side by side, used as `MTAppenderFile.mm` uses them:
each user opens (create and open), appends to and closes (close and destroy) an appender of
its own, again and again. An appender is a number that is never used twice; the content
of its block is a count of records, and a flush or a write of the log file is one step, because
`Appender` has what happens inside. At `Full` records, the four fifths, a message is stored
in a record's place (`replaced`); the files of the appenders in `Failing` may refuse any part of
what is written (`failed`).

| code | actions |
|---|---|
| create 120-140, open | `Create`, `CreatePush` (the spin lock; the vector may move its memory), `OpenPublish`, `OpenNotify` |
| append 417-437, 378-415 | `AppendWrite`, `AppendStart` (start the shared thread unless it runs), then the walk of the list with no lock: `WalkNext` (the iterator), `WalkClose` (`sg_log_close`), `WalkLen` (`sg_log_buff`) |
| close 439-472, destroy 142-164 | `CloseCall`, `CloseNotify`, `CloseTask`, `CloseWrite`, `CloseFree`, `DestroyErase`, `DestroyFree` |
| `__async_log_shared_thread_operation` 326-348 | `WorkerTop` (the spin lock, the empty list), `WorkerScan`, `WorkerTask`, `WorkerFlush`, `WorkerWrite`, `WorkerWaits`, `WorkerTimesOut`, `WorkerLeaves` (`Thread::cleanup`: until then `isruning`) |
| what is read through a bad iterator or pointer | `Stray`: the process faults, or the walk comes to some end |

An iterator is a position in the list, so that an erase shifts the rest under it, as it
does in the vector's memory; `dangling` says whose vector was moved. The wrapper passes
no level, so no record is fatal here.

### MC modules and proof modules

`MCAppender`, `MCLogBuffer`, `MCRecord`, `MCThread` and `MCRegistry` extend the components with the
values and the symmetry set that the configurations name. The theorems are in
`AppenderProofs` (types, `NoNullFlush`, `NoFileLeftOpen`), `AppenderRecordProofs` (`Accounted`),
`AppenderDeliveryProofs` (the refinement, `NoRecordTwice`) and `AppenderLogProofs`
(`CloseKeepsPromised`, `OrderKept`), each of which extends the one before, and in
`LogBufferProofs`, `RecordProofs`, `RegistryProofs` and `ThreadProofs`.

## 3. What the runs check

| run | question | result |
|---|---|---|
| AppenderShared | two clients, a shared thread, flush_sync and setmode (which notifies as flush does) at any time, beside the first open of what an earlier process left, too, close and reopen: `Accounted`, `NoRecordTwice`, `CloseKeepsPromised`, refinement of `Delivery` | hold, 1.3 million states |
| AppenderOwn | own thread, a block filled past its end, flush, flush_sync, the join in close, reopen: `TypeOK`, `OrderKept`, `NoNullFlush`, `NoFileLeftOpen`, and under fairness `ReachesFile`, `CallsReturn` | hold, 82 thousand |
| AppenderFaults | crashes in every state, a block left by an earlier process, failing open, fopen, fwrite, fclose, both modes: `Accounted`, refinement of `Delivery` | hold, 1.3 million |
| LogBufferBytes | every interleaving of writes, flushes, opens and crashes on the bytes: `TypeOK`, `FirstByteSignalsData`, `ReaderSeesLive`, `ReaderMissesNothing`, `GarbageOnlyAtHeapOpen`, refinement of `ByteLog` | hold, 1 million |
| RecordText | headers and bodies on both sides of every cut, a block filled to its end, memory refused, a flush after a crash: `TypeOK`, `TextAsAsked`, `LinesWhole`, `ReaderFindsLines`, `WholeLinesComeOut` | hold, 190 thousand |
| RegistryLife | two users and the shared thread, a full block, a failing file: `TypeOK`, `DestroyedIsSaved`, `WorkerOnLive`, `FaultsNeedOverlap`, and under fairness `WorkerDrains`, `CallsReturn` | hold, 220 thousand |
| ThreadLife | references, one pthread at a time, joined or detached, cancels, `CancelEnds`, `JoinReturns` | hold, 92 thousand |
| AppenderOwnClose, AppenderLostWakeup, LogBufferDirt, LogBufferOldBytes, ThreadRestart | statements of the Readme and of comments that the code does not keep | violated, section 4 |

`Accounted` and `ImplementsDelivery` are the main properties of the appender: a record
that append accepted is in the block, in the mapped file of a dead process, in the hands
of a thread that flushes, in stdio or in the log file, until it meets one of six named
ends: close or open *wiped* it with the block, a late append has *overwritten* it before
the appender was open, a flush *dropped* it before the first open had named the log file, a file
operation *failed*, the process *crashed* after the block was cleared
and before the bytes were in the file, or its place was taken by the *overflow* message.
`Accounted` says so of every state; `Delivery` says in addition when each end may be met,
and that what is in the mapped block survives and what is in the file stays.

**Bounds.** `MaxAppends`, `MaxOpens`, `MaxWrites`, `MaxStarts` and `MaxCreates` bound the calls;
`CHECK_DEADLOCK FALSE` is set because a behaviour legitimately stops when they are used
up, the appender is closed and the thread gone. They are chosen so that the interesting
cases happen. Two appends and two opens let a client hold a record across a close and a
reopen; two clients let flush_sync cross with an append and the worker; two slots with three
appends reach the third, the four fifths and the end of the block, and three slots hold
two records of two clients and one more. A record left over lets a late append
meet it with two opens instead of three, and lets a flush_sync meet it beside the first; with
the two runs of `Delivery` it is met by every pair of threads, and by a crash. Ten bytes and records of 1, 3 and 5
reach every side of `length_ < max_length_ - 4`, the cut at the end and a second
generation of stale bytes; three opens let a crash follow a recovery. In RecordText an array
of 24 bytes, a header of 8 with a reserve of 2, and a block of 140, of which four fifths and
one array leave four bytes, stand in the proportions of the code (122880 + 16384 leave
14336 of 153600): the constants are as tight as the assumption of the module allows, so
that every cut is reached from both sides. The headers are below, at and above what snprintf
may print, and on both sides of the length from which a NULL body's error text leaves no
room for the newline. Three starts let a
join meet a thread that was started again, and a cancel be left over from the thread
before. Two users and two appenders let one be created or destroyed while the other's
append walks the list, and the list run empty while the thread leaves and be filled
again. With a limit of one and a full block of one, two appends to each let a walk stop early
or go past every appender, and the second be replaced by a message if nothing was flushed in
between; the file of the first appender may fail, that of the second does not. In LogBufferDirt
records of 5 and 7 bytes in a block of 8 are both within four bytes of its end: neither
gets a terminator.

**Fairness.** `Appender` assumes that a thread inside the library goes on (weak
fairness of `Move`, which includes the end of the timed wait: 15 minutes in the code) and
that a thread which finds a mutex free again and again gets it (strong fairness of
`Acquire`: pthread mutexes are not fair, but no thread holds one for ever, and the
worker sleeps between two flushes). Nobody is assumed to call anything or to crash.
`Registry` assumes the same of its users, the shared thread and the spin lock, which the
thread lets go of before each wait. `Thread` assumes that a started thread is scheduled, that what it runs returns, that a
timed wait ends, and that pthread_join returns for a joinable thread that has ended;
nothing is assumed for a thread that is detached.

## 4. Where the code departs from its documents

1. *AppenderOwnClose.* An own thread flushes (357) and then looks at `sg_log_close`
   (359). A record appended between the two, before close was called, is zeroed with the
   block (458). The shared thread's close flushes once more itself, and keeps the promise.
2. *AppenderLostWakeup.* The notification for a block beyond a third (397) is lost on a
   worker between its flush and its wait; it sleeps up to 15 minutes over a block that
   fills up. `ReachesFile` holds all the same, because the wait is timed.
3. *LogBufferDirt.* Near the end of the block no terminator is written
   (`mtaf_ptrbuffer.cc:73`), and a reader who follows `Readme.md:30` reads on into bytes
   that were flushed before: of a block of 8 whose 7 bytes were flushed, a record of 5 and
   behind it the last two bytes of the old one. The property is about a block that holds
   records. An empty one shows such a reader, behind its first byte, the rest of what was
   flushed, as far as the first three NULs; and behind a record that gets no terminator it
   may show the rest of an old one, `\r` included. The finding is neither of the two.
4. *LogBufferOldBytes.* After a crash `open` attaches the block with the cursor at its
   end and flushes all of it, so records that are in the log file already come out again,
   against the comment at `mtaf_log_buffer.cpp:94`.
5. *ThreadRestart.* join reads `tid()` after releasing `splock`. If the thread ended and
   was started again in between, as setmode during close can do, the join waits for a
   thread that will detach itself, which the comment at `mtaf_thread.h:30` warns of.

Other things the models make visible and that no document denies:

* A flush_sync tests neither `sg_log_close` nor `sg_logdir` before it clears the block. Beside
  the first open of a process, between the attach (189) and the publication (206), it takes what the
  last process left, and `__log2file` returns because `sg_logdir` is empty (291): the
  records are in neither file. An own thread that a setmode has started does the same.
  `Delivery` names the loss (`Drop`) and allows it before the first open only.
* open's Flush holds no mutex. An append that began before the last close can write into
  the new block at that moment: its record is wiped, or is written by both open and
  another flush. A flush_sync tests `sg_log_buff` and not `sg_log_close`, so one that comes
  before open returns can copy once more what an earlier process left in the block.
  `NoRecordTwice` is therefore stated up to the second open, of the records that this
  process appends; `Delivery` allows for the second copies (`Again`).
* A shared thread, or an own thread with setmode during close, may pass the NULL test of
  314 and flush through a buffer that close has freed (`NullFlush` is reachable). With an
  own thread and no setmode it is not: that is proved.
* The heap block that stands in for a file which cannot be opened is uninitialised, and open flushes it into the
  log file unless its first byte is NUL. `GarbageOnlyAtHeapOpen` says that this is the
  only way for such bytes to get there.
* If the first open after a crash cannot open the file, the records of the dead process stay in the
  file for the next open; an append that began before the close in between can then
  write over them before that open has cleared the block (`Overwritten`).
* On a shared thread close flushes beside that thread and can put its records into the
  file first. `OrderKept` is therefore about own threads, and excepts a flush_sync. It also
  needs one client that opens in async mode, and no record left by an earlier process: two
  clients may be stored in another order than they called, a sync append writes past the
  block, and open writes what it found in the block only after it has published the appender, so
  that a flush of the own thread can put newer records into the file before those.
* A header longer than 1023 bytes is counted in full and printed in part
  (`mtaf_formatter.cpp:58`): the rest are NULs in the middle of the record, where the
  reader of `Readme.md:30` stops. With a NULL body the text `error!! NULL==_logbody` (72) goes behind
  the header without a reserve for the newline, so that a header that leaves just that many
  bytes of the 16KB gets none; one of 16KB or more never does. The first version of
  `LinesWhole` said that only the latter was so; the proof of it failed at that line.
* A record with no header and an empty body asks the byte before its array whether it needs
  a newline (77), and gets one or not.
* A flush that gets no memory writes through NULL (`mtaf_autobuffer.cc:87`). It does so
  before the block is cleared, so the next process has the records.
* The demo closes a wrapper while other threads append to it (`ViewController.mm:68-98`);
  they go on with an appender that is deleted. No model here gives that a meaning.
* An append that walks the list while another appender is created or destroyed, or is
  closed between the two looks at it, reads through a bad iterator or pointer
  (`Stray`). `FaultsNeedOverlap` shows that this, and the task of a closed appender
  above, are the only ways to a fault.
* A shared thread that found the list empty counts as running until its cleanup. An
  append to a new appender in between does not start it, and its block is drained by the
  next append or by close.
* kill may signal a pthread that has ended, or another that is not up yet.

## 5. What is proved

`AppenderProofs` proves, for every set of clients, block length, bound and set of calls,
with crashes and failures:

* `TypeInvariant == Spec => []TypeOK`. `TypeOK` is inductive. The proof goes by role:
  where the client, task, worker and owner steps leave `pc` (`...PcStep`) and what they do
  to the data (`...DataStep`). Its weight is in the block: a written slot and its
  terminator stay in the block, `pos <= len <= BlockLen` survives each write.
* `OwnThreadNeverFlushesNull == OwnKind => (Spec => []NoNullFlush)`, where `OwnKind` says
  that the appender has its own thread and clients do not call setmode. `NoNullFlush` is
  not inductive. `FlushInv` adds: `BufHeld` (who is in a flush holds the buffer mutex),
  `OwnerPlaces` (the owner never runs the task itself, and is in `__log2file` only for
  open, on an open appender), `Joined` (from the free on the worker has ended), and
  `CheckedBuffer` (a worker past its NULL test still has its buffer). The argument: only
  close frees the buffer; it does so holding the mutex, hence outside every flush_sync,
  and after the join, hence after the worker's last flush; and no one starts the worker
  again before the next open.
* `ClosedLeavesNoFile == AlwaysAsync => (Spec => []NoFileLeftOpen)`, where `AlwaysAsync` says
  that every open asks for async and no client calls setmode: in sync mode the code
  keeps the file open from one write to the next, and an append that outlives close leaves
  it so. `NoFileLeftOpen` speaks of an appender at rest; `OpenInUse` says of every state that
  the file is open only where a thread is between `__openlogfile` and the reads of `sg_mode` and
  about to close it.

`AppenderRecordProofs` proves `NoRecordVanishes == Spec => []Accounted` under the same
assumptions, for both kinds of thread. `Accounted` is not inductive: nothing in it says why
clearing a block loses nothing. `RecordInv` adds

* `PlaceInv`: where the owner, the buffer and the mutex are in relation to each other, and
  which threads can have bytes in hand;
* `Cursors`, `HeapTail`: no record lies behind the cursor of a block in use, and the heap
  block that is attached and not flushed yet holds none;
* `Copied`: a thread at its clear has in hand, or in a file, every record of the block that
  still counts as kept; `CopiedFirst` says the same of open's flush, which holds no mutex;
* `Kept`: `Accounted`, but with the block counted only where it really is.

`AppenderDeliveryProofs` proves the two theorems that are about every step:

* `KeepsItsPromise == Spec => ImplementsDelivery`. `DeliveryInv` is `RecordInv` with four
  more parts: `Named` (until the appender has a log directory it is closed, and nobody is past
  the test of it in `__log2file`), `Numbers` (a thread that has called append and not stored yet
  owns a number that nothing else has), `Opened` (how often it was opened, against where the owner is) and
  `FateInv` (where a record can be, given its fate: one nobody appended yet is nowhere; one
  under way is neither in the unmapped file nor, unless it has reached the log file, back
  in the block; what a clear has left behind in the mapped file, and a late append may bring
  to life again, is in the log file). `StepKinds` sorts the steps by what they do to bytes;
  each kind is shown to be one step of `Delivery` or none. The proof found two places where
  `Delivery` promised too much - an append over what open has already copied, and a
  flush_sync before open returns - which no bound of a run had reached then; both are described
  in section 4, and AppenderShared reaches the second now.
* `WrittenOnce == Spec => []NoRecordTwice`. `OnceInv` says that in the first opening each
  new record is in one place, once: in the block, in one thread's hands, in stdio or in the
  file. It is a statement about positions in sequences; `SingleCount` turns it into the
  number that `NoRecordTwice` speaks of.

`AppenderLogProofs` proves `CloseWritesBack == UseShareThread => (Spec =>
[]CloseKeepsPromised)`. `CloseInv` says that the records close promised are older than any
append under way (`PromisedOld`), that a late append finds the block an open has attached full
and can only put messages into it (`OverTail`), and that once close has flushed, a
promised record is in the block only as a second copy, or where the flush of the next open is
about to take it (`PromisedOut`). The hypothesis is needed: on an
own thread the property fails (run AppenderOwnClose).

It also proves `OwnThreadKeepsOrder == OneOwnClient => (Spec => []OrderKept)`. `OneOwnClient`
says: own thread, async, no setmode, one client, no crash, nothing left over. Files may fail, and
block, bounds and other calls are any. TLC has a counterexample on the bounds of AppenderOwn for each part of it that is
dropped. `OrderInv` is `FlushInv`
and the invariant of `ClosedLeavesNoFile` (`FileInv`), with

* `Apt`: past its join close has no worker beside it (`Gone`), the append under way has the
  youngest number (`Latest`), close has blanked the mapped file (`NoneLeft`), so that open
  attaches no record (`AttachedEmpty`) and carries none (`OwnerNone`);
* `Queue`, until a flush_sync laps another flush: the log file is in order and older than what
  a thread carries (`LogFirst`), the block is in order and younger than both (`BlockLast`), and
  one thread at most carries records (`OneCarries`). The mutex of the buffer alone does not
  give the last: it is released before the bytes are in the file. Only the worker and
  flush_sync flush, and two of them at once is what `lapped` remembers.

`RisingJoined` says when rows that are each in order are so together; `QueueStep` puts
the steps together.

`LogBufferProofs` proves, for every block above four bytes and every set of record
lengths:

* `BlockNeverOverrun == Spec => []TypeOK`: no store of a record, of its terminator or of
  a part of either changes a byte behind the block. `TypeOK` is not inductive; `TodoFits`
  adds that what is still to be stored fits behind `pos_`, and a record below the
  `length_` that was stored before it. The constant 4 in `Room` is what makes the terminator
  fit: `pos_ <= length_ < max_length_ - 4`.

* `FirstByteTellsEmpty == Spec => []FirstByteSignalsData` and
  `NoGarbageFromMap == Spec => []GarbageOnlyAtHeapOpen`. Both follow from `ContentInv`,
  which speaks of all phases: between two operations the cursors meet (`CursorsMeet`: a
  write at `pos_` appends, nothing lies between), the first byte of a block that is not
  empty is not NUL, also in the middle of a write (`FirstByteKept`: records hold no NUL, and
  the terminator goes behind `pos_`, which is not 0 by then), and of a mapped block no byte is
  garbage, of a heap block none before `pos_` (`NoGarbage`). `StoredCell` says what a
  memcpy does to a byte; `ContentCrash` is the case in which a prefix of it was done.

* `NothingMissed == Spec => []ReaderMissesNothing`, `ReadsWhatIsLive == Spec =>
  []ReaderSeesLive` and `IsAByteLog == Spec => ImplementsByteLog` follow from `LiveInv`: in
  every phase, after a crash too, the block begins with the bytes that were written and not
  flushed (`LiveBytes`); the next byte goes behind them (`LivePlace`); and a terminator is
  behind the last record, if it had room (`TerminatorBehind`). None of the three properties
  is inductive: after the end of the process the block is all that is left, and the
  cursors that a reader does not see decide what is written next. That the first end in the
  block exists is `LeastOf`, from the library's theorem that finite sets of numbers are
  well-founded, and not from an induction of its own.

`RecordProofs` proves, for buffers of any size in the code's proportions, any headers and
bodies, and memory refused at any flush, the four invariants and the action property of the run
RecordText: `TypesHold` (no write leaves the array on the stack, the block or the copy's
memory), `TextIsAsAsked`, `LinesStayWhole`, `ReaderSeesLines` and `LinesComeOut`. They follow
from `TextInv == Good /\ Whole`, which `Invariant` states. `Good` has the buffers and the text of the last
record. `Whole` ties the bytes of the block to the lines that were put into it:
`Holds` (the block begins with the texts of all lines one after the other, cut at its
end, and the cursors are there), `Fitting` of every line (one that is no message about a full block
ends before the last four bytes, and in a newline if its header left room), and
`Readable` (the three NULs behind the last line, and none in it). The proofs use
`FlattenSeq`, a fold, on sequences that grow by one: `FlattenAppend` gets that from a least
counterexample (`LeastOf`), since an induction theorem takes an operator.

`RegistryProofs` proves, for every number of users, appenders and appends:

* `SharedThreadUsesNoDeleted == Spec => []WorkerOnLive`. The invariant `RoundInv` says that
  the list holds appenders that were created, each once, and none that was deleted
  (`ListOK`); that an appender which create has not listed yet is in no list and known to nobody
  else, and one about to be deleted in no list any more (`Unlisted`); and that the
  shared thread holds the spin lock all the way round, and works on an element of the
  list (`Round`). create and destroy take that lock to change the list, so what the thread
  works on stays in the list, and what is in the list is not deleted. `RemoveAtParts`
  is the lemma on erasing from a sequence.
* `RegistryTypes == Spec => []TypeOK`, `DestroyLosesNothing == Spec => []DestroyedIsSaved`
  and `FaultsAreOverlaps == Spec => []FaultsNeedOverlap`. `LifeInv` adds to `RoundInv` who
  owns which appender (`Owners`), that an open appender has its block and that nothing comes
  into the block of one whose close has flushed it (`Closed`), where iterators and pointers
  may be (`Iterators`, `Uncrossed`: whoever did not cross with a create, a destroy or a
  close has a good one), that no block holds more than its four fifths (`Ledger`), and `Balance`:
  what was appended is in the block, in the closer's hands, in the shared thread's, or *over*:
  in the log file, refused by the file system, or replaced by a message. An
  appender that is freed has none of it in a block or in hand (`AllOver`), the last because
  `destroy` takes the spin lock that the shared thread holds from its flush to its write. That an
  iterator stays within `MaxCreates + 2` is the pigeonhole on a list without repetitions.

`ThreadProofs` proves, for every number of users and starts, all five invariants of the
run ThreadLife: `TypeInvariant`, `LastReferenceDeletes`, `OnePthread`, `JoinedOrDetached`
and `NoCancelLeftOver`. They are conjuncts or consequences of `ThreadInv`: only the newest
pthread can be alive, and it is while `isended` is false (`NewestAlone`); the count is the
owner plus that pthread (`Counted`); and `isjoined` agrees with the one join that is in
pthread_join, unless a start crossed with it (`Joined`). `NewestAlone` carries it all: a
start that finds the thread ended makes the newest one, so the reference it takes is the
second at most.

The assumptions are `AppenderAssumption`, `LogBufferAssumption`, `RecordAssumption`,
`RegistryAssumption` and `ThreadAssumption`: the kinds of the parameters, that sentinels differ
from data, and in `Record` the proportions of its buffers. TLC
evaluates each in every run of its module. TLC checked each inductive invariant, too, on the
bounds of a run, before it was proved.

Every invariant and action property of the passing runs is stated by one of these
theorems; some have a hypothesis, which the theorem names, that the run's configuration meets.
Only model-checked are `ReachesFile`, `WorkerDrains`, `CancelEnds`, `JoinReturns` and
`CallsReturn`, the liveness properties, which rest on fairness and ENABLED and are outside what
TLAPS proves.

## 6. What is not modelled

Console logging, the wording of a record's header, dates and paths (no state that matters
here depends on them). The formatter's branch for arrays of 5KB or less, which no caller
takes. `PtrBuffer::Read` and `AutoBuffer`'s Read, Move, Attach, Detach, AllocWrite and
AddCapacity, `mtaf_write_mmap`, `mtaf_read_mmap`, `outside_join`, `unsafe_exit`,
`notifyOne`, trylock and timedlock, which have no caller. Two threads that close the
same appender at once: each appender has one owner here, as the Objective-C wrapper
means it. In `Registry` the owner is also the only one who appends; `Appender` has several
clients on one appender.
Errors of ftruncate and munmap, whose results the code ignores. The atomics are taken to be
atomic and the memory to be sequentially consistent, also where the code reads a plain
variable without a lock: a stale value there is an earlier or later interleaving of
the same read.

## 7. Plan

Done: `Appender` with `Delivery`, `LogBuffer` with `ByteLog`, `Record` over the two
buffers, `Registry`, `Thread`, their runs and the theorems of section 5. Left, in this order:

1. `Registry` with a process that dies and opens again.
2. Console logging, and the wrapper's close beside appends of other threads.

## 8. Running it

    tlc -config AppenderShared.cfg MCAppender     # one run of PROJECT.json
    tlapm AppenderProofs.tla                      # the proofs of a module
