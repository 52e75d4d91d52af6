------------------------------ MODULE Registry ------------------------------
(***************************************************************************)
(* All the shared appenders of a process (loglib/mtaf_appender.cpp, used   *)
(* through MTAppenderFile.mm): each user opens, appends to and closes its  *)
(* own appender, in a thread of its own. They have in common the list of   *)
(* appenders under a spin lock, which append walks without it, and the one *)
(* thread that drains them all, starts with data and ends with the list.   *)
(*                                                                         *)
(* The content of a block is the number of its records, all of one size;   *)
(* a message that a block is nearly full is none, and not counted.         *)
(* Appender.tla has the rest of one appender; here a flush under its mutex *)
(* is one step, and so is a write to the log file.                         *)
(***************************************************************************)
EXTENDS Naturals, Sequences, SequencesExt

CONSTANTS
    Users, Worker,  \* the threads
    NoThread,       \* the holder of a lock that is free
    Nil,            \* a pointer to no appender
    MaxCreates,     \* bound: appenders created
    MaxAppends,     \* bound: appends to each
    Limit,          \* records in a block that make append notify: a third of it,
    Full,           \* and that make append store a message instead: four fifths
    Failing         \* the appenders for whose files fopen, fwrite and fclose may fail

App     == 1..MaxCreates
Threads == Users \cup {Worker}

ASSUME RegistryAssumption ==
    /\ Worker \notin Users /\ NoThread \notin Threads /\ Nil \notin App
    /\ MaxCreates \in Nat /\ MaxAppends \in Nat
    /\ Limit \in Nat \ {0} /\ Full \in Nat \ {0} /\ Failing \subseteq App

VARIABLES
    alive,      \* the process has not faulted
    creates,    \* the appenders created so far
    list,       \* shared_appenders()
    spin,       \* the holder of shared_spinlock()
    freed,      \* the appenders that have been deleted
    close,      \* sg_log_close of each
    buff,       \* sg_log_buff of each is not NULL
    data,       \* the records in the block of each
    bufLock,    \* the holder of sg_mutex_buffer_async of each
    pc,         \* where each thread is
    app,        \* the _appender of each user
    at,         \* the iterator of each thread: a position in the list
    mlog,       \* the appender the iterator of each thread was read for
    dangling,   \* the threads whose iterator points into a vector that was moved
    carried,    \* the records in the AutoBuffer of each thread
    appended,   \* history: the records appended to each
    replaced,   \* history: those of them that a message took the place of
    saved,      \* history: the records of each in its log file
    failed,     \* history: the records of each that the file system refused
    crossed     \* history: the threads under whose walk or task an appender has been
                \* created, closed or destroyed

registry == <<creates, list, spin, freed, dangling, crossed>>
blocks   == <<close, buff, data, bufLock>>
walks    == <<at, mlog>>
hist     == <<appended, replaced, saved, failed>>
vars     == <<alive, registry, blocks, pc, app, walks, carried, hist>>

UserPc   == {"idle", "CreatePush", "OpenPublish", "OpenNotify", "AppendStart", "WalkNext", "WalkClose",
             "WalkLen", "CloseNotify", "CloseTask", "CloseWrite", "CloseFree",
             "DestroyErase", "DestroyFree"}
WorkerPc == {"exited", "Top", "Scan", "Task", "TaskLock", "Write", "BeforeWait", "Wait", "Leaving"}

Init ==
    /\ alive = TRUE /\ creates = 0 /\ list = << >> /\ spin = NoThread
    /\ freed = {} /\ dangling = {} /\ crossed = {}
    /\ close = [a \in App |-> TRUE] /\ buff = [a \in App |-> FALSE]
    /\ data = [a \in App |-> 0] /\ bufLock = [a \in App |-> NoThread]
    /\ pc = [t \in Threads |-> IF t = Worker THEN "exited" ELSE "idle"]
    /\ app = [u \in Users |-> Nil]
    /\ at = [t \in Threads |-> 1] /\ mlog = [t \in Threads |-> Nil]
    /\ carried = [t \in Threads |-> 0]
    /\ appended = [a \in App |-> 0] /\ replaced = [a \in App |-> 0]
    /\ saved = [a \in App |-> 0] /\ failed = [a \in App |-> 0]

-----------------------------------------------------------------------------
Goto(t, l) == pc' = [pc EXCEPT ![t] = l]

\* shared_condition()->notifyAll: a broadcast without anywaynotify.
Notified == IF pc[Worker] = "Wait" THEN "Top" ELSE pc[Worker]
WakeAndGoto(w, t, l) == pc' = [pc EXCEPT ![Worker] = w, ![t] = l]

AlwaysFree(lock) == TRUE
Free(lock) == lock = NoThread

Walking == {u \in Users : pc[u] \in {"WalkNext", "WalkClose", "WalkLen"}}

\* The process faults, or has it by undefined behaviour.
Die == alive' = FALSE /\ UNCHANGED <<registry, blocks, pc, app, walks, carried, hist>>

\* Flush: the whole block goes into t's AutoBuffer, under the mutex.
TakeNoClear(t, a) == carried' = [carried EXCEPT ![t] = data[a]] /\ UNCHANGED data
Take(t, a) == carried' = [carried EXCEPT ![t] = data[a]] /\ data' = [data EXCEPT ![a] = 0]

\* __log2file: what t carries is appended to the log file of a, all of it or what gets there
\* before fopen, fwrite or fclose fails. Nobody keeps the rest.
Stored(a, n) == IF a \in Failing THEN 0..n ELSE {n}

Save(t, a) ==
    /\ \E n \in Stored(a, carried[t]) :
        /\ saved' = [saved EXCEPT ![a] = @ + n]
        /\ failed' = [failed EXCEPT ![a] = @ + (carried[t] - n)]
    /\ carried' = [carried EXCEPT ![t] = 0]
    /\ UNCHANGED <<appended, replaced>>

-----------------------------------------------------------------------------
(* -[MTAppenderFile open]: create, then open. *)

\* create: a closed appender,
CreatedOpen == FALSE
CreatedClosed == TRUE

Create(u) ==
    /\ pc[u] = "idle" /\ app[u] = Nil /\ creates < MaxCreates
    /\ creates' = creates + 1
    /\ app' = [app EXCEPT ![u] = creates']
    /\ close' = [close EXCEPT ![creates'] = CreatedClosed]
    /\ Goto(u, "CreatePush")
    /\ UNCHANGED <<alive, list, spin, freed, dangling, crossed, buff, data, bufLock, walks,
                   carried, hist>>

\* which goes to the end of the list, under the spin lock. The vector may grow out of its
\* memory, and any iterator into it dangles.
CreatePush(u) ==
    /\ pc[u] = "CreatePush" /\ Free(spin)
    /\ list' = Append(list, app[u])
    /\ dangling' \in {dangling, dangling \cup Walking}
    /\ crossed' = crossed \cup Walking
    /\ Goto(u, "OpenPublish")
    /\ UNCHANGED <<alive, creates, spin, freed, blocks, app, walks, carried, hist>>

\* open: the block, then sg_log_close = false; others leave a closed one alone.
OpenPublish(u) ==
    /\ pc[u] = "OpenPublish"
    /\ buff' = [buff EXCEPT ![app[u]] = TRUE]
    /\ close' = [close EXCEPT ![app[u]] = FALSE]
    /\ Goto(u, "OpenNotify")
    /\ UNCHANGED <<alive, registry, data, bufLock, app, walks, carried, hist>>

\* The setmode at the end of open.
OpenNotify(u) ==
    /\ pc[u] = "OpenNotify"
    /\ WakeAndGoto(Notified, u, "idle")
    /\ UNCHANGED <<alive, registry, blocks, app, walks, carried, hist>>

-----------------------------------------------------------------------------
(* -[MTAppenderFile appendText:]: append in async mode. *)

\* In a block that is nearly full a message takes the place of the record.
AppendWrite(u) ==
    /\ pc[u] = "idle" /\ app[u] # Nil
    /\ LET a == app[u] IN
        /\ appended[a] < MaxAppends /\ ~close[a] /\ Free(bufLock[a])
        /\ bufLock' = [bufLock EXCEPT ![a] = u]
        /\ appended' = [appended EXCEPT ![a] = @ + 1]
        /\ IF data[a] < Full
           THEN data' = [data EXCEPT ![a] = @ + 1] /\ UNCHANGED replaced
           ELSE replaced' = [replaced EXCEPT ![a] = @ + 1] /\ UNCHANGED data
    /\ Goto(u, "AppendStart")
    /\ UNCHANGED <<alive, registry, close, buff, app, walks, carried, saved, failed>>

\* The shared thread is started unless it runs, be it on its way out.
Running == pc[Worker] # "exited"

AppendStart(u) ==
    /\ pc[u] = "AppendStart"
    /\ WakeAndGoto(IF Running THEN pc[Worker] ELSE "Top", u, "WalkNext")
    /\ UNCHANGED <<alive, registry, blocks, app, walks, carried, hist>>

\* The walk is over: append unlocks its buffer mutex and returns.
WalkEnds(u, w) ==
    /\ bufLock' = [bufLock EXCEPT ![app[u]] = NoThread]
    /\ dangling' = dangling \ {u} /\ crossed' = crossed \ {u}
    /\ at' = [at EXCEPT ![u] = 1] /\ mlog' = [mlog EXCEPT ![u] = Nil]
    /\ WakeAndGoto(w, u, "idle")

WalkGoesOn(u) ==
    /\ at' = [at EXCEPT ![u] = @ + 1]
    /\ Goto(u, "WalkNext")
    /\ UNCHANGED <<mlog, bufLock, dangling, crossed>>

\* it != end(), and *it.
WalkNext(u) ==
    /\ pc[u] = "WalkNext" /\ u \notin dangling
    /\ \/ at[u] = Len(list) + 1 /\ WalkEnds(u, pc[Worker])
       \/ /\ at[u] <= Len(list)
          /\ mlog' = [mlog EXCEPT ![u] = list[at[u]]]
          /\ Goto(u, "WalkClose")
          /\ UNCHANGED <<at, bufLock, dangling, crossed>>
    /\ UNCHANGED <<alive, creates, list, spin, freed, close, buff, data, app, carried, hist>>

\* Closed appenders are passed over.
WalkClose(u) ==
    /\ pc[u] = "WalkClose" /\ mlog[u] \notin freed
    /\ IF close[mlog[u]]
       THEN WalkGoesOn(u)
       ELSE Goto(u, "WalkLen") /\ UNCHANGED <<walks, bufLock, dangling, crossed>>
    /\ UNCHANGED <<alive, creates, list, spin, freed, close, buff, data, app, carried, hist>>

\* The first block that holds enough makes append notify and leave the walk.
WalkLen(u) ==
    /\ pc[u] = "WalkLen" /\ mlog[u] \notin freed /\ buff[mlog[u]]
    /\ IF data[mlog[u]] >= Limit THEN WalkEnds(u, Notified) ELSE WalkGoesOn(u)
    /\ UNCHANGED <<alive, creates, list, spin, freed, close, buff, data, app, carried, hist>>

\* What is read through an iterator or a pointer that is no longer good: the
\* process faults, or the walk comes to some end.
Stray(u) ==
    /\ \/ pc[u] = "WalkNext" /\ (u \in dangling \/ at[u] > Len(list) + 1)
       \/ pc[u] \in {"WalkClose", "WalkLen"} /\ mlog[u] \in freed
       \/ pc[u] = "WalkLen" /\ ~buff[mlog[u]]
    /\ \/ Die
       \/ /\ \E w \in {pc[Worker], Notified} : WalkEnds(u, w)
          /\ UNCHANGED <<alive, creates, list, spin, freed, close, buff, data, app,
                         carried, hist>>

-----------------------------------------------------------------------------
(* -[MTAppenderFile close]: close, then destroy. *)

CloseCall(u) ==
    /\ pc[u] = "idle" /\ app[u] # Nil
    /\ close' = [close EXCEPT ![app[u]] = TRUE]
    /\ Goto(u, "CloseNotify")
    /\ UNCHANGED <<alive, registry, buff, data, bufLock, app, walks, carried, hist>>

CloseNotify(u) ==
    /\ pc[u] = "CloseNotify"
    /\ WakeAndGoto(Notified, u, "CloseTask")
    /\ UNCHANGED <<alive, registry, blocks, app, walks, carried, hist>>

\* __log_thread_task in place of the shared thread.
CloseTask(u) ==
    /\ pc[u] = "CloseTask" /\ Free(bufLock[app[u]])
    /\ Take(u, app[u])
    /\ Goto(u, IF data[app[u]] = 0 THEN "CloseFree" ELSE "CloseWrite")
    /\ UNCHANGED <<alive, registry, close, buff, bufLock, app, walks, hist>>

CloseWrite(u) ==
    /\ pc[u] = "CloseWrite"
    /\ Save(u, app[u])
    /\ Goto(u, "CloseFree")
    /\ UNCHANGED <<alive, registry, blocks, app, walks>>

CloseFree(u) ==
    /\ pc[u] = "CloseFree" /\ Free(bufLock[app[u]])
    /\ buff' = [buff EXCEPT ![app[u]] = FALSE]
    /\ data' = [data EXCEPT ![app[u]] = 0]
    /\ crossed' = crossed \cup {t \in Threads :
                      pc[t] \in {"WalkLen", "TaskLock"} /\ mlog[t] = app[u]}
    /\ Goto(u, "DestroyErase")
    /\ UNCHANGED <<alive, creates, list, spin, freed, dangling, close, bufLock, app, walks, carried, hist>>

\* destroy: out of the list, under the spin lock.
DestroyErase(u) ==
    /\ pc[u] = "DestroyErase" /\ Free(spin)
    /\ \E i \in 1..Len(list) : list[i] = app[u] /\ list' = RemoveAt(list, i)
    /\ crossed' = crossed \cup Walking
    /\ Goto(u, "DestroyFree")
    /\ UNCHANGED <<alive, creates, spin, freed, dangling, blocks, app, walks, carried, hist>>

DestroyFree(u) ==
    /\ pc[u] = "DestroyFree"
    /\ freed' = freed \cup {app[u]}
    /\ app' = [app EXCEPT ![u] = Nil]
    /\ Goto(u, "idle")
    /\ UNCHANGED <<alive, creates, list, spin, dangling, crossed, blocks, walks, carried, hist>>

-----------------------------------------------------------------------------
(* __async_log_shared_thread_operation. *)

NotHeld     == NoThread
ScanHolder  == Worker
StillHeld   == Worker
ScanRelease == NoThread

\* The list is looked at and walked under the spin lock; an empty one ends the thread.
WorkerTop ==
    /\ pc[Worker] = "Top" /\ Free(spin)
    /\ IF list = << >>
       THEN Goto(Worker, "Leaving") /\ UNCHANGED spin
       ELSE Goto(Worker, "Scan") /\ spin' = ScanHolder
    /\ UNCHANGED <<alive, creates, list, freed, dangling, crossed, blocks, app, walks, carried, hist>>

WorkerNext ==
    /\ Goto(Worker, "Scan")
    /\ at' = [at EXCEPT ![Worker] = @ + 1]
    /\ mlog' = [mlog EXCEPT ![Worker] = Nil]

WorkerScan ==
    /\ pc[Worker] = "Scan"
    /\ \/ /\ at[Worker] > Len(list)
          /\ Goto(Worker, "BeforeWait") /\ spin' = ScanRelease
          /\ at' = [at EXCEPT ![Worker] = 1] /\ UNCHANGED mlog
       \/ /\ at[Worker] <= Len(list) /\ UNCHANGED spin
          /\ LET a == list[at[Worker]] IN
              IF close[a]
              THEN WorkerNext
              ELSE /\ mlog' = [mlog EXCEPT ![Worker] = a]
                   /\ Goto(Worker, "Task") /\ UNCHANGED at
    /\ UNCHANGED <<alive, creates, list, freed, dangling, crossed, blocks, app, carried, hist>>

\* __log_thread_task: the NULL check, then the flush under the mutex, then the file,
\* all with the spin lock held.
WorkerTask ==
    /\ pc[Worker] = "Task"
    /\ IF buff[mlog[Worker]] THEN Goto(Worker, "TaskLock") /\ UNCHANGED walks ELSE WorkerNext
    /\ UNCHANGED <<alive, registry, blocks, app, carried, hist>>

WorkerFlush ==
    /\ pc[Worker] = "TaskLock" /\ Free(bufLock[mlog[Worker]])
    /\ \/ ~buff[mlog[Worker]] /\ Die
       \/ /\ buff[mlog[Worker]]
          /\ Take(Worker, mlog[Worker])
          /\ IF data[mlog[Worker]] = 0 THEN WorkerNext ELSE Goto(Worker, "Write") /\ UNCHANGED walks
          /\ UNCHANGED <<alive, registry, close, buff, bufLock, app, hist>>

WorkerWrite ==
    /\ pc[Worker] = "Write"
    /\ Save(Worker, mlog[Worker])
    /\ WorkerNext
    /\ UNCHANGED <<alive, registry, blocks, app>>

WorkerGoes(from, to) ==
    /\ pc[Worker] = from /\ Goto(Worker, to)
    /\ UNCHANGED <<alive, registry, blocks, app, walks, carried, hist>>

\* Thread::cleanup comes after the loop: until then the thread counts as running.
WorkerLeaves == WorkerGoes("Leaving", "exited")

WorkerWaits == WorkerGoes("BeforeWait", "Wait")

\* The wait of 15 minutes ends.
NeverTimesOut == FALSE
WorkerTimesOut == WorkerGoes("Wait", "Top")

-----------------------------------------------------------------------------
UserMove(u) ==
    \/ OpenPublish(u) \/ OpenNotify(u) \/ AppendStart(u)
    \/ WalkNext(u) \/ WalkClose(u) \/ WalkLen(u) \/ Stray(u)
    \/ CloseNotify(u) \/ CloseWrite(u) \/ DestroyFree(u)
UserAcquire(u) == CreatePush(u) \/ CloseTask(u) \/ CloseFree(u) \/ DestroyErase(u)
WorkerMove == WorkerScan \/ WorkerTask \/ WorkerWrite \/ WorkerLeaves \/ WorkerWaits \/ WorkerTimesOut
WorkerAcquire == WorkerTop \/ WorkerFlush

Next ==
    /\ alive
    /\ \/ \E u \in Users : Create(u) \/ AppendWrite(u) \/ CloseCall(u) \/ UserMove(u) \/ UserAcquire(u)
       \/ WorkerMove \/ WorkerAcquire

Spec == Init /\ [][Next]_vars

\* A thread inside a call goes on, the timed wait ends, and who spins or waits for
\* a lock that is free again and again gets it. Nobody has to call.
FairSpec ==
    /\ Spec
    /\ \A u \in Users : WF_vars(alive /\ UserMove(u)) /\ SF_vars(alive /\ UserAcquire(u))
    /\ WF_vars(alive /\ WorkerMove) /\ SF_vars(alive /\ WorkerAcquire)

-----------------------------------------------------------------------------
\* Types; and no record is counted twice between the block, the buffers and the file.
TypeOK ==
    /\ alive \in BOOLEAN /\ crossed \subseteq Threads
    /\ creates \in 0..MaxCreates /\ list \in Seq(App) /\ freed \subseteq App
    /\ spin \in {Worker, NoThread} /\ dangling \subseteq Users
    /\ close \in [App -> BOOLEAN] /\ buff \in [App -> BOOLEAN]
    /\ {data[a] : a \in App} \cup {appended[a] : a \in App} \cup {replaced[a] : a \in App}
       \cup {saved[a] : a \in App} \cup {failed[a] : a \in App}
       \cup {carried[t] : t \in Threads} \subseteq 0..MaxAppends
    /\ bufLock \in [App -> Users \cup {NoThread}]
    /\ \A u \in Users : pc[u] \in UserPc
    /\ pc[Worker] \in WorkerPc
    /\ app \in [Users -> App \cup {Nil}]
    /\ at \in [Threads -> 1..(MaxCreates + 2)] /\ mlog \in [Threads -> App \cup {Nil}]
    /\ \A a \in App : data[a] <= Full /\ data[a] + saved[a] <= appended[a]

\* When close has returned, every record is in the log file that neither the file system has
\* refused nor a message replaced, also one that the shared thread had taken out of the block
\* when close began: destroy waits for the spin lock, which that thread holds until it has
\* written the file.
DestroyedIsSaved ==
    \A a \in freed : saved[a] + failed[a] + replaced[a] = appended[a]

\* The shared thread never uses an appender that destroy has deleted.
WorkerOnLive == pc[Worker] \in {"Task", "TaskLock", "Write"} => mlog[Worker] \notin freed

\* The process faults only in an append that is walking the list when an appender is
\* created or destroyed, or when the one it looks at is closed (mtaf_appender.cpp:405),
\* and in a task whose appender is closed after its NULL check (314).
FaultsNeedOverlap == ~alive => crossed # {}

\* While the shared thread goes round, what is in a block gets out of it, whatever
\* notification is lost. (One that is on its way out when the data comes drains
\* nothing until the next append or close.)
WorkerDrains ==
    \A a \in App : (data[a] > 0 /\ pc[Worker] \notin {"exited", "Leaving"}) ~> (data[a] = 0 \/ ~alive)

\* Every call returns, create and destroy too, though they spin while the shared thread
\* writes files and waits for the mutexes of appenders.
CallsReturn == \A u \in Users : (pc[u] # "idle") ~> (pc[u] = "idle" \/ ~alive)
=============================================================================
