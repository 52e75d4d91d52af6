---------------------------- MODULE ThreadProofs ----------------------------
(***************************************************************************)
(* A Thread, its reference count and the pthreads it starts, for every     *)
(* number of users and starts.                                             *)
(***************************************************************************)
EXTENDS Thread, FiniteSetTheorems, TLAPS

USE ThreadAssumption

-----------------------------------------------------------------------------
(* The invariant. *)

TypesOK ==
    /\ owned \in BOOLEAN /\ deleted \in BOOLEAN /\ count \in Nat
    /\ tid \in Pthreads \cup {NoTid}
    /\ isjoined \in BOOLEAN /\ isended \in BOOLEAN /\ isinthread \in BOOLEAN
    /\ killsig \in BOOLEAN /\ cancelled \in BOOLEAN /\ anyway \in BOOLEAN
    /\ life \in [Pthreads -> Lives] /\ kind \in [Pthreads -> {"plain", "after", "periodic"}]
    /\ os \in [Pthreads -> {"joinable", "detached", "joined"}]
    /\ pc \in [Users -> {"idle", "KillSend", "JoinTid", "Joining"}]
    /\ joining \in Pthreads \cup {NoTid} /\ crossed \in BOOLEAN

\* tid() is the newest pthread, and the only one that may be alive: it is while the
\* Thread runs (isended), and is up once it has said so (isinthread).
NewestAlone ==
    /\ \A i \in Pthreads : life[i] = Unborn <=> i > tid
    /\ \A i \in Pthreads : i \in Alive <=> i = tid /\ ~isended
    /\ ~isended => tid \in Pthreads
    /\ isinthread <=> ~isended /\ life[tid] # "created"

\* The Thread and a pthread that is alive hold one reference each.
Counted ==
    /\ count = (IF isended THEN 0 ELSE 1) + (IF owned THEN 1 ELSE 0)
    /\ deleted <=> ~owned /\ isended

\* As long as nobody starts the thread while it is being joined: whoever is in join waits
\* for the newest pthread, which is joinable and, while it is alive, knows; every
\* other one that has ended is joined or detached.
Joined ==
    /\ \A i \in Pthreads : os[i] # "joinable" => life[i] = "ended"
    /\ pc[Joiner] \in Joins => tid \in Pthreads
    /\ ~crossed =>
        /\ isjoined <=> pc[Joiner] \in Joins /\ ~isended
        /\ pc[Joiner] \in Joins => os[tid] = "joinable"
        /\ pc[Joiner] = "Joining" => joining = tid
        /\ \A i \in Pthreads : life[i] = "ended" /\ os[i] = "joinable" =>
               pc[Joiner] \in Joins /\ i = tid

ThreadInv == TypesOK /\ NewestAlone /\ Counted /\ Joined /\ NoOldCancel

-----------------------------------------------------------------------------
(* What the invariant says of Alive, of the next pthread and of the references. *)

\* The pthreads that are alive: none, or the newest.
LEMMA AliveIs ==
    ASSUME NewestAlone
    PROVE  Alive = IF isended THEN {} ELSE {tid}
<1>1. \A i \in Alive : i \in Pthreads
      BY DEF Alive
<1> QED
    BY <1>1 DEF NewestAlone

\* How many that is.
LEMMA AliveCount ==
    ASSUME NewestAlone
    PROVE  Cardinality(Alive) = IF isended THEN 0 ELSE 1
<1>1. Cardinality({}) = 0 /\ Cardinality({tid}) = 1
      BY FS_EmptySet, FS_Singleton
<1> QED
    BY <1>1, AliveIs

\* pthread_create hands out the number after the newest.
LEMMA CreatedIsNext ==
    ASSUME TypesOK, NewestAlone, NEW u \in Pthreads, life[u] = Unborn
    PROVE  Created = tid + 1 /\ Created \in Pthreads
<1>1. tid \in Nat /\ u > tid /\ u \in Nat /\ u <= MaxStarts
      BY DEF TypesOK, NewestAlone, Pthreads, NoTid
<1>2. tid + 1 \in Pthreads
      BY <1>1 DEF Pthreads
<1> DEFINE First(i) == life[i] = Unborn /\ \A j \in 1..(i - 1) : life[j] # Unborn
<1>3. First(tid + 1)
      BY <1>1, <1>2 DEF NewestAlone, Pthreads
<1>4. ASSUME NEW i \in Pthreads, First(i) PROVE i = tid + 1
      <2>1. i > tid
            BY <1>4 DEF NewestAlone
      <2>2. ~(tid + 1 \in 1..(i - 1))
            BY <1>3, <1>4
      <2> QED
          BY <1>1, <2>1, <2>2 DEF Pthreads
<1>5. Created = CHOOSE i \in Pthreads : First(i)
      BY DEF Created
<1> HIDE DEF First
<1> QED
    BY <1>2, <1>3, <1>4, <1>5

\* RemoveRef deletes the object when the Thread or the pthread that gives its reference
\* back is the last of the two.
LEMMA LastOfTwo ==
    ASSUME TypesOK, Counted, RemoveRef
    PROVE  count' = count - 1 /\ deleted' \in BOOLEAN /\ (deleted' <=> owned # ~isended)
<1>1. deleted' = (count = 1)
      BY DEF RemoveRef
<1>2. (count = 1) <=> owned # ~isended
      BY DEF TypesOK, Counted
<1>3. count' = count - 1
      BY DEF RemoveRef
<1> QED
    BY <1>1, <1>2, <1>3

-----------------------------------------------------------------------------
(* Every step keeps the invariant. *)

\* A new Thread has no pthread, and one reference.
LEMMA InitInv == Init => ThreadInv
<1> SUFFICES ASSUME Init PROVE ThreadInv
    OBVIOUS
<1> USE DEF Init, NewReference, Unborn, NoTid
<1>1. TypesOK
      BY DEF TypesOK, Lives
<1>2. NewestAlone
      BY DEF NewestAlone, Alive, Pthreads
<1>3. Counted
      BY DEF Counted
<1>4. Joined
      BY DEF Joined, Joins, Users
<1>5. NoOldCancel
      BY DEF NoOldCancel
<1> QED
    BY <1>1, <1>2, <1>3, <1>4, <1>5 DEF ThreadInv

\* start: either a new pthread, the only one, with a reference of its own, or nothing.
LEMMA StartStep ==
    ASSUME ThreadInv, NEW u \in Users, NEW k \in Kinds, Start(u, k)
    PROVE  ThreadInv'
<1> USE DEF ThreadInv
<1>1. CASE /\ \E i \in Pthreads : life[i] = Unborn
           /\ isended' = FALSE /\ count' = AddRef
           /\ tid' = Created
           /\ life' = [life EXCEPT ![Created] = "created"]
           /\ kind' = [kind EXCEPT ![Created] = k]
           /\ crossed' = (crossed \/ pc[Joiner] \in Joins)
      <2>1. Created = tid + 1 /\ Created \in Pthreads
            BY <1>1, CreatedIsNext
      <2>2. TypesOK'
            <3>1. life' \in [Pthreads -> Lives]
                    /\ kind' \in [Pthreads -> {"plain", "after", "periodic"}]
                  BY <1>1, <2>1 DEF TypesOK, Lives
            <3>2. cancelled' \in BOOLEAN /\ anyway' \in BOOLEAN
                  BY DEF Start, ForgetCancel, cond, TypesOK
            <3>3. count' \in Nat /\ crossed' \in BOOLEAN
                  BY <1>1 DEF TypesOK, AddRef
            <3> QED
                BY <1>1, <2>1, <3>1, <3>2, <3>3 DEF Start, TypesOK
      <2>3. NewestAlone'
            BY <1>1, <2>1 DEF Start, Calls, isruning, TypesOK, NewestAlone, Alive, Unborn,
                   Pthreads, NoTid
      <2>4. Counted'
            BY <1>1 DEF Start, Calls, isruning, TypesOK, Counted, AddRef
      <2>5. Joined'
            <3>1. isended /\ UNCHANGED <<isjoined, os, pc, joining>>
                    /\ crossed' = (crossed \/ pc[Joiner] \in Joins)
                  BY <1>1 DEF Start, Calls, isruning
            <3>2. \A i \in Pthreads : life'[i] = "ended" <=> life[i] = "ended"
                  BY <1>1, <2>1 DEF NewestAlone, TypesOK, Pthreads, Unborn
            <3>3. tid' \in Pthreads /\ isended' = FALSE
                  BY <1>1, <2>1
            <3>4. crossed' \in BOOLEAN /\ (crossed' <=> crossed \/ pc[Joiner] \in Joins)
                  BY <3>1 DEF TypesOK
            <3> QED
                <4>1. \A i \in Pthreads : os'[i] # "joinable" => life'[i] = "ended"
                      BY <3>1, <3>2 DEF Joined
                <4>2. CASE crossed'
                      BY <3>3, <4>1, <4>2 DEF Joined
                <4>3. CASE ~crossed'
                      <5>1. ~crossed /\ pc[Joiner] \notin Joins /\ pc'[Joiner] \notin Joins
                              /\ isjoined' = FALSE
                            BY <3>1, <3>4, <4>3 DEF Joined, TypesOK
                      <5>2. \A i \in Pthreads : ~(life'[i] = "ended" /\ os'[i] = "joinable")
                            BY <3>1, <3>2, <5>1 DEF Joined
                      <5> QED
                          BY <3>1, <3>3, <4>1, <5>1, <5>2 DEF Joined, Joins
                <4> QED
                    BY <4>2, <4>3
      <2>6. NoOldCancel'
            BY <1>1, <2>1, <2>3, AliveIs
                 DEF Start, ForgetCancel, cond, TypesOK, NewestAlone, NoOldCancel, Alive, Pthreads
      <2> QED
          BY <2>2, <2>3, <2>4, <2>5, <2>6
<1>2. CASE UNCHANGED <<isended, count, tid, life, kind, crossed>>
      BY <1>2 DEF Start, TypesOK, NewestAlone, Counted, Joined, NoOldCancel, Alive,
             ForgetCancel, cond
<1> QED
    BY <1>1, <1>2 DEF Start

\* cancel_after, cancel_periodic and kill leave the pthreads as many as they are.
LEMMA UserStep ==
    ASSUME ThreadInv, NEW u \in Users, Cancel(u) \/ Kill(u) \/ KillSend(u)
    PROVE  ThreadInv'
<1> USE DEF ThreadInv, ref, state, cond, thr
<1>1. CASE Cancel(u)
      <2>1. life' \in [Pthreads -> Lives]
            BY <1>1 DEF Cancel, Notified, TypesOK, Lives
      <2>2. \A i \in Pthreads : life'[i] = life[i] \/ (life[i] = "asleep" /\ life'[i] = "notified")
            BY <1>1 DEF Cancel, Notified
      <2>3. \A i \in Pthreads : i \in Alive <=> i \in Alive'
            BY <2>2 DEF Alive, Unborn
      <2> QED
          BY <1>1, <2>1, <2>2, <2>3
               DEF Cancel, TypesOK, NewestAlone, Counted, Joined, NoOldCancel, Unborn
<1>2. CASE Kill(u)
      <2>1. UNCHANGED <<owned, ref, tid, isjoined, isended, isinthread, cond, thr, joining,
                        crossed>>
            BY <1>2 DEF Kill
      <2>2. /\ killsig' \in BOOLEAN
            /\ pc' \in [Users -> {"idle", "KillSend", "JoinTid", "Joining"}]
            /\ pc'[Joiner] = pc[Joiner] \/ {pc[Joiner], pc'[Joiner]} \cap Joins = {}
            BY <1>2 DEF Kill, Calls, TypesOK, Users, Joins
      <2> QED
          BY <2>1, <2>2 DEF TypesOK, NewestAlone, Counted, Joined, Joins, NoOldCancel, Alive
<1>3. CASE KillSend(u)
      BY <1>3 DEF KillSend, Users, TypesOK, NewestAlone, Counted, Joined, Joins, NoOldCancel, Alive
<1> QED
    BY <1>1, <1>2, <1>3

\* join waits for the pthread it has marked as joined, unless that one was crossed by a
\* start; ~Thread gives its reference back.
LEMMA JoinerStep ==
    ASSUME ThreadInv, Join \/ JoinTid \/ JoinReturn \/ JoinLost \/ Destroy
    PROVE  ThreadInv'
<1> USE DEF ThreadInv, ref, state, cond, thr, Users, Joins
<1>1. CASE Join
      BY <1>1 DEF Join, Calls, isruning, TypesOK, NewestAlone, Counted, Joined, NoOldCancel, Alive
<1>2. CASE JoinTid
      BY <1>2 DEF JoinTid, TypesOK, NewestAlone, Counted, Joined, NoOldCancel, Alive
<1>3. CASE JoinReturn
      BY <1>3 DEF JoinReturn, TypesOK, NewestAlone, Counted, Joined, NoOldCancel, Alive
<1>4. CASE JoinLost
      BY <1>4 DEF JoinLost, TypesOK, NewestAlone, Counted, Joined, NoOldCancel, Alive
<1>5. CASE Destroy
      <2>1. /\ owned /\ owned' = FALSE /\ count' = count - 1
            /\ deleted' \in BOOLEAN /\ (deleted' <=> isended)
            BY <1>5, LastOfTwo DEF Destroy, TypesOK
      <2>2. TypesOK' /\ Counted'
            <3>1. count' = (IF isended THEN 0 ELSE 1) /\ count' \in Nat
                  BY <2>1 DEF TypesOK, Counted
            <3>2. UNCHANGED <<state, cond, thr, pc, joining, crossed>>
                  BY <1>5 DEF Destroy
            <3>3. TypesOK'
                  BY <2>1, <3>1, <3>2 DEF TypesOK
            <3>4. Counted'
                  BY <2>1, <3>1, <3>2 DEF TypesOK, Counted
            <3> QED
                BY <3>3, <3>4
      <2> QED
          BY <1>5, <2>2 DEF Destroy, NewestAlone, Joined, NoOldCancel, Alive
<1> QED
    BY <1>1, <1>2, <1>3, <1>4, <1>5

\* A step of a pthread that is up, between its init and its cleanup.
LEMMA MoveStep ==
    ASSUME ThreadInv, NEW i \in Pthreads, NEW from \in Lives, NEW to \in Lives,
           from \notin {Unborn, "ended", "created"}, to \notin {Unborn, "ended", "created"},
           Become(i, from, to),
           UNCHANGED <<owned, ref, state, cancelled, kind, os, pc, joining, crossed>>,
           anyway' = anyway \/ anyway' = FALSE
    PROVE  ThreadInv'
<1>1. \A j \in Pthreads : life'[j] = life[j] \/ (j = i /\ life'[j] = to /\ life[j] = from)
      BY DEF ThreadInv, TypesOK, Become
<1>2. life' \in [Pthreads -> Lives]
      BY DEF ThreadInv, TypesOK, Become
<1>3. \A j \in Pthreads : j \in Alive <=> j \in Alive'
      BY <1>1 DEF Alive
<1>4. \A j \in Pthreads : (life'[j] = Unborn <=> life[j] = Unborn)
        /\ (life'[j] = "ended" <=> life[j] = "ended")
                          /\ (life'[j] = "created" <=> life[j] = "created")
      BY <1>1
<1>5. \A j \in Alive' : j \in Alive
      BY <1>3 DEF Alive
<1> USE DEF ref, state, ThreadInv
<1>6. TypesOK'
      BY <1>2 DEF TypesOK
<1>7. NewestAlone'
      BY <1>3, <1>4 DEF NewestAlone
<1>8. Counted' /\ Joined'
      BY <1>4 DEF Counted, Joined
<1>9. NoOldCancel'
      BY <1>5 DEF NoOldCancel
<1> QED
    BY <1>6, <1>7, <1>8, <1>9

\* So do init, and cleanup: the pthread leaves joined or detached, with its reference.
LEMMA PthreadStep ==
    ASSUME ThreadInv, NEW i \in Pthreads, ThreadStep(i)
    PROVE  ThreadInv'
<1> USE DEF ref, state, cond, Unborn, Lives
<1>1. CASE InThread(i)
      BY <1>1 DEF InThread, Become, ThreadInv, TypesOK, NewestAlone, Counted, Joined,
             NoOldCancel, Alive
<1>2. CASE Begin(i)
      BY <1>2, MoveStep DEF Begin, Moves, cond
<1>3. CASE WaitTest(i)
      BY <1>3, MoveStep DEF WaitTest
<1>4. CASE FallAsleep(i)
      BY <1>4, MoveStep DEF FallAsleep, Moves
<1>5. CASE Wake(i)
      BY <1>5, MoveStep DEF Wake, Wakeable, Become
<1>6. CASE WakeTest(i)
      BY <1>6, MoveStep DEF WakeTest, Moves
<1>7. CASE RunReturns(i)
      BY <1>7, MoveStep DEF RunReturns, Moves
<1>8. CASE Cleanup(i)
      <2> USE DEF ThreadInv
      <2>1. i = tid /\ ~isended
            BY <1>8 DEF Cleanup, Become, NewestAlone, Alive
      <2>a. count' = count - 1 /\ deleted' \in BOOLEAN /\ (deleted' <=> ~owned)
            BY <1>8, <2>1, LastOfTwo DEF Cleanup, TypesOK
      <2>2. TypesOK'
            <3>1. os' \in [Pthreads -> {"joinable", "detached", "joined"}]
                  BY <1>8 DEF Cleanup, Detach, TypesOK
            <3>2. life' \in [Pthreads -> Lives]
                  BY <1>8 DEF Cleanup, Become, TypesOK
            <3>3. count' \in Nat
                  BY <2>a, <2>1 DEF TypesOK, Counted
            <3> QED
                BY <1>8, <2>a, <3>1, <3>2, <3>3 DEF Cleanup, ForgetJoined, TypesOK
      <2>3. NewestAlone'
            BY <1>8, <2>1 DEF Cleanup, Become, TypesOK, NewestAlone, Alive
      <2>4. Counted'
            BY <1>8, <2>a, <2>1 DEF Cleanup, TypesOK, Counted
      <2>5. Joined'
            BY <1>8, <2>1 DEF Cleanup, Become, Detach, ForgetJoined, TypesOK, NewestAlone,
                   Alive, Joined, Joins
      <2>6. NoOldCancel'
            BY <2>3, AliveIs, <1>8 DEF Cleanup, NoOldCancel, NewestAlone, Alive
      <2> QED
          BY <2>2, <2>3, <2>4, <2>5, <2>6
<1> QED
    BY <1>1, <1>2, <1>3, <1>4, <1>5, <1>6, <1>7, <1>8 DEF ThreadStep

\* Every step.
LEMMA StepInv == ThreadInv /\ [Next]_vars => ThreadInv'
<1> SUFFICES ASSUME ThreadInv, [Next]_vars PROVE ThreadInv'
    OBVIOUS
<1>1. CASE UNCHANGED vars
      BY <1>1 DEF vars, ref, state, cond, thr, ThreadInv, TypesOK, NewestAlone, Counted, Joined,
                  NoOldCancel, Alive
<1>2. CASE Next
      BY <1>2, StartStep, UserStep, JoinerStep, PthreadStep DEF Next
<1> QED
    BY <1>1, <1>2

\* So the invariant holds in every state.
LEMMA Invariant == Spec => []ThreadInv
BY InitInv, StepInv, PTL DEF Spec

-----------------------------------------------------------------------------
\* count is, at any moment, the number of those who may still use the object: the
\* Thread until it is destroyed and the pthread between its start and its cleanup.
THEOREM TypeInvariant == Spec => []TypeOK
<1>1. ThreadInv => TypeOK
      BY AliveCount DEF ThreadInv, TypesOK, Counted, TypeOK
<1> QED
    BY Invariant, <1>1, PTL

\* The record that a Thread shares with its pthreads is deleted by whoever is the last,
\* ~Thread or cleanup, and not before: nobody uses it after that.
THEOREM LastReferenceDeletes == Spec => []DeletedByTheLast
<1>1. ThreadInv => DeletedByTheLast
      BY AliveIs DEF ThreadInv, Counted, DeletedByTheLast
<1> QED
    BY Invariant, <1>1, PTL

\* However many users start the Thread, one pthread at a time is between its start and its
\* cleanup, because start tests isended under the lock under which cleanup sets it.
THEOREM OnePthread == Spec => []OneAtATime
<1>1. ThreadInv => OneAtATime
      BY AliveCount, AliveIs DEF ThreadInv, NewestAlone, OneAtATime
<1> QED
    BY Invariant, <1>1, PTL

\* Without a start during a join, each pthread that has ended is either joined or detached,
\* and join never waits for a detached one: join sets isjoined before it reads tid(), and
\* cleanup, which reads isjoined, ends the only pthread there is.
THEOREM JoinedOrDetached == Spec => []EndedOnce
<1>1. ThreadInv => EndedOnce
      BY DEF ThreadInv, Joined, Joins, EndedOnce, NoDetachUnderJoin
<1> QED
    BY Invariant, <1>1, PTL

\* A delayed or periodic pthread finds no notification of the cancel of an earlier one:
\* its start has taken it back (cancelAnyWayNotify), and only a cancel brings a new one.
THEOREM NoCancelLeftOver == Spec => []NoOldCancel
<1>1. ThreadInv => NoOldCancel
      BY DEF ThreadInv
<1> QED
    BY Invariant, <1>1, PTL
=============================================================================
