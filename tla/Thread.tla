------------------------------- MODULE Thread -------------------------------
(***************************************************************************)
(* comm/mtaf_thread.h: a Thread and the RunnableReference it shares with   *)
(* the pthreads it starts, one after the other; and the wait of            *)
(* comm/mtaf_condition.h that a delayed or periodic start sleeps in.       *)
(*                                                                         *)
(* What a method does under splock is one step. The Starters start, cancel *)
(* and signal the thread; the Joiner does too, and joins and deletes it,   *)
(* as the owner of an appender does. A thread that is started gets the     *)
(* next number: its pthread_t.                                             *)
(***************************************************************************)
EXTENDS Naturals, FiniteSets

CONSTANTS
    Starters, Joiner,   \* the threads that call the methods
    MaxStarts,          \* bound: successful pthread_create
    Kinds,              \* "plain": start, "after": start_after, "periodic": start_periodic
    Kills,              \* whether kill is called
    CanFail             \* whether pthread_create may fail

Users    == Starters \cup {Joiner}
Pthreads == 1..MaxStarts
NoTid    == 0

ASSUME ThreadAssumption ==
    /\ Joiner \notin Starters
    /\ MaxStarts \in Nat
    /\ Kinds \subseteq {"plain", "after", "periodic"}
    /\ Kills \in BOOLEAN /\ CanFail \in BOOLEAN

VARIABLES
    owned,      \* the Thread has not been destroyed
    deleted,    \* the RunnableReference has been deleted
    count,      \* its references
    tid, isjoined, isended, isinthread,
    killsig,    \* killsig # 0
    cancelled,  \* iscanceldelaystart
    anyway,     \* Condition::anyway_notify_ of condtime
    life,       \* where each pthread is
    kind,       \* the start routine of each
    os,         \* what the system has to do when it ends: "joinable", "detached", "joined"
    pc,         \* where each user is, "idle" outside
    joining,    \* the pthread_t that join has read
    crossed     \* history: the thread has been started while it was being joined

ref   == <<deleted, count>>
state == <<tid, isjoined, isended, isinthread, killsig>>
cond  == <<cancelled, anyway>>
thr   == <<life, kind, os>>
vars  == <<owned, ref, state, cond, thr, pc, joining, crossed>>

Unborn == "unborn"
Lives  == {Unborn, "created", "begin", "beforeWait", "falling", "asleep", "notified", "woken",
           "running", "cleanup", "ended"}
Alive  == {i \in Pthreads : life[i] \notin {Unborn, "ended"}}

\* The constructor of RunnableReference; that of Thread takes the first reference.
NewReference ==
    /\ deleted = FALSE
    /\ tid = NoTid /\ isjoined = FALSE /\ isended = TRUE /\ isinthread = FALSE
    /\ killsig = FALSE
    /\ cancelled = FALSE /\ anyway = FALSE

Init ==
    /\ owned = TRUE /\ count = 1 /\ NewReference
    /\ life = [i \in Pthreads |-> Unborn]
    /\ kind = [i \in Pthreads |-> "plain"]
    /\ os = [i \in Pthreads |-> "joinable"]
    /\ pc = [u \in Users |-> "idle"]
    /\ joining = NoTid /\ crossed = FALSE

-----------------------------------------------------------------------------
(* References. *)

KeepRef   == count
AddRef    == count + 1

DropRef == count' = count - 1 /\ deleted' = TRUE

\* The last reference deletes the object.
RemoveRef == count' = count - 1 /\ deleted' = (count = 1)

-----------------------------------------------------------------------------
(* What users call. *)

InThreadOnly == isinthread
isruning == ~isended

Joins == {"JoinTid", "Joining"}

Calls(u) == owned /\ pc[u] = "idle"

\* start, start_after, start_periodic: nothing if it runs; else take a reference
\* and create the thread. A delayed start forgets the cancel of an earlier one.
\* When pthread_create fails the reference is given back.
KeepAnyway(k) == cancelled' = (cancelled /\ k = "plain") /\ UNCHANGED anyway
ForgetCancel(k) == IF k = "plain" THEN UNCHANGED cond ELSE cancelled' = FALSE /\ anyway' = FALSE

Created == CHOOSE i \in Pthreads : life[i] = Unborn /\ \A j \in 1..(i - 1) : life[j] # Unborn

Start(u, k) ==
    /\ Calls(u) /\ ~isruning
    /\ ForgetCancel(k)
    /\ \/ /\ \E i \in Pthreads : life[i] = Unborn
          /\ isended' = FALSE /\ count' = AddRef
          /\ tid' = Created
          /\ life' = [life EXCEPT ![Created] = "created"]
          /\ kind' = [kind EXCEPT ![Created] = k]
          /\ crossed' = (crossed \/ pc[Joiner] \in Joins)
       \/ CanFail /\ UNCHANGED <<isended, count, tid, life, kind, crossed>>
    /\ UNCHANGED <<owned, deleted, isjoined, isinthread, killsig, os, pc, joining>>

\* cancel_after and cancel_periodic: the flag, then notifyAll(true), which does
\* not take the mutex of the condition.
Notified == [i \in Pthreads |-> IF life[i] = "asleep" THEN "notified" ELSE life[i]]

Cancel(u) ==
    /\ Calls(u) /\ isruning
    /\ cancelled' = TRUE /\ anyway' = TRUE
    /\ life' = Notified
    /\ UNCHANGED <<owned, ref, state, kind, os, pc, joining, crossed>>

\* kill: a thread that is not up yet sends itself the signal in init.
Kill(u) ==
    /\ Kills /\ Calls(u) /\ isruning
    /\ IF isinthread
       THEN pc' = [pc EXCEPT ![u] = "KillSend"] /\ UNCHANGED killsig
       ELSE killsig' = TRUE /\ UNCHANGED pc
    /\ UNCHANGED <<owned, ref, tid, isjoined, isended, isinthread, cond, thr, joining, crossed>>

\* pthread_kill(tid()), without splock.
KillSend(u) ==
    /\ pc[u] = "KillSend"
    /\ pc' = [pc EXCEPT ![u] = "idle"]
    /\ UNCHANGED <<owned, ref, state, cond, thr, joining, crossed>>

\* join: isjoined under splock; then tid() and pthread_join without it.
Join ==
    /\ Calls(Joiner) /\ isruning
    /\ isjoined' = TRUE
    /\ pc' = [pc EXCEPT ![Joiner] = "JoinTid"]
    /\ UNCHANGED <<owned, ref, tid, isended, isinthread, killsig, cond, thr, joining, crossed>>

JoinTid ==
    /\ pc[Joiner] = "JoinTid"
    /\ joining' = tid
    /\ pc' = [pc EXCEPT ![Joiner] = "Joining"]
    /\ UNCHANGED <<owned, ref, state, cond, thr, crossed>>

\* pthread_join returns when its thread has ended, and frees it.
JoinReturn ==
    /\ pc[Joiner] = "Joining"
    /\ life[joining] = "ended" /\ os[joining] = "joinable"
    /\ os' = [os EXCEPT ![joining] = "joined"]
    /\ pc' = [pc EXCEPT ![Joiner] = "idle"]
    /\ UNCHANGED <<owned, ref, state, cond, life, kind, joining, crossed>>

\* The join of a thread that is detached or was joined before is undefined: it
\* returns ESRCH or never.
JoinLost ==
    /\ pc[Joiner] = "Joining"
    /\ os[joining] # "joinable"
    /\ pc' = [pc EXCEPT ![Joiner] = "idle"]
    /\ UNCHANGED <<owned, ref, state, cond, thr, joining, crossed>>

\* ~Thread, when no method is being called any more.
Destroy ==
    /\ owned /\ \A u \in Users : pc[u] = "idle"
    /\ owned' = FALSE
    /\ RemoveRef
    /\ UNCHANGED <<state, cond, thr, pc, joining, crossed>>

-----------------------------------------------------------------------------
(* What a started thread does. *)

Become(i, from, to) == life[i] = from /\ life' = [life EXCEPT ![i] = to]

Moves(i, from, to) ==
    Become(i, from, to) /\ UNCHANGED <<owned, ref, state, cond, kind, os, pc, joining, crossed>>

\* init, under splock.
InThread(i) ==
    /\ Become(i, "created", IF kind[i] = "plain" THEN "running" ELSE "begin")
    /\ isinthread' = TRUE
    /\ UNCHANGED <<owned, ref, tid, isjoined, isended, killsig, cond, kind, os, pc, joining, crossed>>

\* A delayed thread waits unless it is cancelled by then.
Begin(i) == Moves(i, "begin", IF cancelled THEN "cleanup" ELSE "beforeWait")

\* Condition::wait: a notification that was left is taken instead of the wait.
\* Between this test and the wait a notification finds nobody to wake.
WaitTest(i) ==
    /\ Become(i, "beforeWait", IF anyway THEN "woken" ELSE "falling")
    /\ anyway' = FALSE
    /\ UNCHANGED <<owned, ref, state, cancelled, kind, os, pc, joining, crossed>>

FallAsleep(i) == Moves(i, "falling", "asleep")

\* The wait ends by itself (in time, or spuriously), or after a notification.
NeverByItself == {"notified"}
Wakeable == {"asleep", "notified"}

Wake(i) ==
    /\ life[i] \in Wakeable
    /\ life' = [life EXCEPT ![i] = "woken"]
    /\ anyway' = FALSE
    /\ UNCHANGED <<owned, ref, state, cancelled, kind, os, pc, joining, crossed>>

WakeTest(i) == Moves(i, "woken", IF cancelled THEN "cleanup" ELSE "running")

\* target->run returns; a periodic thread goes round again.
RunReturns(i) == Moves(i, "running", IF kind[i] = "periodic" THEN "begin" ELSE "cleanup")

\* cleanup: who is not being joined detaches himself.
AlwaysDetach(i) == os' = [os EXCEPT ![i] = "detached"]
Detach(i) == os' = IF isjoined THEN os ELSE [os EXCEPT ![i] = "detached"]

KeepJoined   == isjoined
ForgetJoined == FALSE

Cleanup(i) ==
    /\ Become(i, "cleanup", "ended")
    /\ isinthread' = FALSE /\ killsig' = FALSE /\ isended' = TRUE
    /\ Detach(i)
    /\ isjoined' = ForgetJoined
    /\ RemoveRef
    /\ UNCHANGED <<owned, tid, cond, kind, pc, joining, crossed>>

-----------------------------------------------------------------------------
ThreadStep(i) ==
    \/ InThread(i) \/ Begin(i) \/ WaitTest(i) \/ FallAsleep(i) \/ Wake(i) \/ WakeTest(i)
    \/ RunReturns(i) \/ Cleanup(i)

Next ==
    \/ \E u \in Users : (\E k \in Kinds : Start(u, k)) \/ Cancel(u) \/ Kill(u) \/ KillSend(u)
    \/ Join \/ JoinTid \/ JoinReturn \/ JoinLost \/ Destroy
    \/ \E i \in Pthreads : ThreadStep(i)

Spec == Init /\ [][Next]_vars

\* A started thread is scheduled and what it runs returns (the appender's own
\* operation does once the appender is closed); pthread_join returns for a thread
\* that can be joined.
FairSpec == Spec /\ (\A i \in Pthreads : WF_vars(ThreadStep(i))) /\ WF_vars(JoinTid \/ JoinReturn)

-----------------------------------------------------------------------------
\* Types; and count is the number of those who may still use the object.
TypeOK ==
    /\ owned \in BOOLEAN /\ deleted \in BOOLEAN
    /\ count = Cardinality(Alive) + (IF owned THEN 1 ELSE 0)
    /\ tid \in Pthreads \cup {NoTid}
    /\ {isjoined, isended, isinthread, killsig, cancelled, anyway} \subseteq BOOLEAN
    /\ life \in [Pthreads -> Lives] /\ kind \in [Pthreads -> {"plain", "after", "periodic"}]
    /\ os \in [Pthreads -> {"joinable", "detached", "joined"}]
    /\ pc \in [Users -> {"idle", "KillSend", "JoinTid", "Joining"}]
    /\ joining \in Pthreads \cup {NoTid} /\ crossed \in BOOLEAN

\* The object is deleted by the last of the Thread and the threads it started,
\* whoever that is, and by then nobody will use it (RemoveRef; ~Thread does not
\* wait for a running thread).
DeletedByTheLast == deleted <=> ~owned /\ Alive = {}

\* However many users start it, one thread at a time is between its start and its
\* cleanup (the assertion on isinthread in init; start replaces the target, which
\* only that thread runs).
OneAtATime == Cardinality(Alive) <= 1 /\ (isinthread => \E i \in Alive : life[i] # "created")

\* The comment on the class (mtaf_thread.h:29): a thread must not be detached while
\* pthread_join waits for it, or the join may not return.
NoDetachUnderJoin == pc[Joiner] = "Joining" => os[joining] # "detached"

\* As long as nobody starts the thread while it is being joined, every thread that
\* has ended is detached, or joined by the one who said so, and never both: the
\* system frees it, and no join waits for a detached thread.
EndedOnce ==
    ~crossed => /\ \A i \in Pthreads :
                      life[i] = "ended" /\ os[i] = "joinable" => pc[Joiner] \in Joins /\ tid = i
                /\ NoDetachUnderJoin

\* A delayed thread that has not been cancelled does not skip its wait because of
\* the cancel of an earlier one (cancelAnyWayNotify in start_after and start_periodic).
NoOldCancel ==
    anyway /\ (\E i \in Alive : kind[i] # "plain") => cancelled

\* A thread that is cancelled ends, even if the notification comes between the
\* test of anyway_notify_ and the wait.
CancelEnds == (cancelled /\ isruning) ~> ~isruning

\* join returns once what it waits for has come to an end or is cancelled, unless
\* the thread is started again meanwhile.
JoinReturns ==
    (pc[Joiner] \in Joins /\ (cancelled \/ kind[tid] # "periodic"))
        ~> (pc[Joiner] = "idle" \/ crossed)
=============================================================================
