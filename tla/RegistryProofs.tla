--------------------------- MODULE RegistryProofs ---------------------------
(***************************************************************************)
(* The shared thread and the appenders it goes round, for every number of  *)
(* users, appenders and appends.                                           *)
(***************************************************************************)
EXTENDS Registry, SequenceTheorems, FiniteSetTheorems, TLAPS

USE RegistryAssumption

Created == 1..creates

Holding == {"Scan", "Task", "TaskLock", "Write"}
Using   == {"Task", "TaskLock", "Write"}

PcOK ==
    /\ pc \in [Threads -> UserPc \cup WorkerPc]
    /\ \A u \in Users : pc[u] \in UserPc

WalksOK == at \in [Threads -> Nat \ {0}] /\ mlog \in [Threads -> Nat \cup {Nil}]

\* The list holds appenders that were created, each once, and none that was deleted.
ListOK ==
    /\ creates \in 0..MaxCreates /\ freed \subseteq Created
    /\ list \in Seq(Created)
    /\ \A i, j \in 1..Len(list) : list[i] = list[j] => i = j
    /\ \A i \in 1..Len(list) : list[i] \notin freed

\* An appender that is about to come into the list is not in it yet, and known to nobody
\* else; one that is about to be deleted is not in it any more.
Outside == {"CreatePush", "DestroyFree"}

Unlisted ==
    /\ app \in [Users -> Created \cup {Nil}]
    /\ \A u \in Users : pc[u] \in Outside =>
          app[u] \in Created /\ \A i \in 1..Len(list) : list[i] # app[u]
    /\ \A u \in Users : pc[u] = "CreatePush" =>
          app[u] \notin freed /\ \A v \in Users : app[v] = app[u] => v = u

\* The shared thread holds the spin lock all the way round the list, and what it
\* works on is in it.
Round ==
    /\ pc[Worker] \in Holding => spin = Worker
    /\ pc[Worker] \in Using => \E i \in 1..Len(list) : list[i] = mlog[Worker]

RoundInv == PcOK /\ WalksOK /\ ListOK /\ Unlisted /\ Round

-----------------------------------------------------------------------------
\* A user's step that leaves the list, the spin lock and the appenders alone, and at
\* most sends the shared thread back to the top, keeps the invariant.
LEMMA QuietStep ==
    ASSUME RoundInv, NEW u \in Users, NEW l \in UserPc \ Outside, NEW w,
           w = pc[Worker] \/ w = "Top",
           pc' = [pc EXCEPT ![Worker] = w, ![u] = l],
           WalksOK', mlog'[Worker] = mlog[Worker],
           UNCHANGED <<creates, list, freed, spin, app>>
    PROVE  RoundInv'
<1>1. PcOK' /\ \A v \in Users \ {u} : pc'[v] = pc[v]
      BY DEF RoundInv, PcOK, Threads, UserPc, WorkerPc
<1>2. pc'[u] = l /\ pc'[Worker] = w
      BY DEF RoundInv, PcOK, Threads
<1>3. ListOK'
      BY DEF RoundInv, ListOK, Created
<1>4. Unlisted'
      BY <1>1, <1>2 DEF RoundInv, Unlisted, Created, Outside
<1>5. Round'
      BY <1>2 DEF RoundInv, Round, Holding, Using
<1> QED
    BY <1>1, <1>3, <1>4, <1>5 DEF RoundInv

\* So does one that leaves the shared thread where it is.
LEMMA GotoStep ==
    ASSUME RoundInv, NEW u \in Users, NEW l \in UserPc \ Outside, Goto(u, l),
           WalksOK', mlog'[Worker] = mlog[Worker],
           UNCHANGED <<creates, list, freed, spin, app>>
    PROVE  RoundInv'
<1>1. pc' = [pc EXCEPT ![Worker] = pc[Worker], ![u] = l]
      BY DEF Goto, RoundInv, PcOK, Threads
<1> QED
    BY <1>1, QuietStep

\* The process that faults changes nothing else.
LEMMA DieStep == ASSUME RoundInv, Die PROVE RoundInv'
BY DEF Die, registry, blocks, walks, RoundInv, PcOK, WalksOK, ListOK, Unlisted, Round, Created

\* create: the new appender has a number that nobody had.
LEMMA CreateStep == ASSUME RoundInv, NEW u \in Users, Create(u) PROVE RoundInv'
<1> DEFINE a == creates + 1
<1>1. /\ creates \in Nat /\ creates' = a /\ a \in 0..MaxCreates
      /\ UNCHANGED <<list, freed, spin, mlog, at>>
      /\ app' = [app EXCEPT ![u] = a] /\ pc' = [pc EXCEPT ![u] = "CreatePush"]
      BY DEF Create, Goto, walks, RoundInv, ListOK
<1>2. Created \subseteq Created' /\ a \in Created' /\ a \notin Created
      BY <1>1 DEF Created
<1>3. PcOK' /\ WalksOK'
      BY <1>1 DEF RoundInv, PcOK, WalksOK, UserPc, Threads
<1>4. ListOK' /\ \A i \in 1..Len(list) : list[i] \in Created
      <2>1. list \in Seq(Created') /\ \A i \in 1..Len(list) : list[i] \in Created
            BY <1>2 DEF RoundInv, ListOK
      <2> QED
          BY <1>1, <1>2, <2>1 DEF RoundInv, ListOK
<1>5. Unlisted'
      <2>1. app' \in [Users -> Created' \cup {Nil}] /\ app'[u] = a
            BY <1>1, <1>2 DEF RoundInv, Unlisted
      <2>2. \A v \in Users \ {u} : app'[v] = app[v] /\ app[v] # a /\ pc'[v] = pc[v]
            <3>1. a # Nil
                  BY <1>1 DEF Create, App
            <3> QED
                BY <1>1, <1>2, <3>1 DEF RoundInv, Unlisted, PcOK, Threads
      <2>3. ASSUME NEW v \in Users, pc'[v] \in Outside
            PROVE  app'[v] \in Created' /\ \A i \in 1..Len(list') : list'[i] # app'[v]
            BY <1>1, <1>2, <1>4, <2>1, <2>2, <2>3 DEF RoundInv, Unlisted
      <2>4. ASSUME NEW v \in Users, pc'[v] = "CreatePush"
            PROVE  app'[v] \notin freed' /\ \A t \in Users : app'[t] = app'[v] => t = v
            <3>1. CASE v = u
                  BY <1>1, <1>2, <2>1, <2>2, <3>1 DEF RoundInv, ListOK
            <3>2. CASE v # u
                  BY <1>1, <2>1, <2>2, <2>4, <3>2 DEF RoundInv, Unlisted
            <3> QED
                BY <3>1, <3>2
      <2> QED
          BY <2>1, <2>3, <2>4 DEF Unlisted
<1>6. Round'
      BY <1>1 DEF RoundInv, Round, PcOK, Threads, Holding, Using
<1> QED
    BY <1>3, <1>4, <1>5, <1>6 DEF RoundInv

\* It joins the list while the shared thread is not going round it.
LEMMA PushStep == ASSUME RoundInv, NEW u \in Users, CreatePush(u) PROVE RoundInv'
<1> DEFINE a == app[u]
<1>1. /\ list' = Append(list, a) /\ UNCHANGED <<creates, freed, app, spin, mlog, at>>
      /\ pc[u] = "CreatePush" /\ pc' = [pc EXCEPT ![u] = "OpenPublish"]
      BY DEF CreatePush, Goto, walks
<1>2. /\ a \in Created /\ a \notin freed /\ Created' = Created
      /\ \A i \in 1..Len(list) : list[i] # a
      /\ \A v \in Users : app[v] = a => v = u
      BY <1>1 DEF RoundInv, Unlisted, Outside, Created
<1>3. PcOK' /\ WalksOK' /\ pc'[Worker] = pc[Worker]
      BY <1>1 DEF RoundInv, PcOK, WalksOK, UserPc, Threads
<1>p. \A v \in Users \ {u} : pc'[v] = pc[v]
      BY <1>1 DEF RoundInv, PcOK, Threads
<1>q. pc'[u] = "OpenPublish"
      BY <1>1 DEF RoundInv, PcOK, Threads
<1> HIDE DEF a
<1>4. /\ Len(list') = Len(list) + 1 /\ Len(list) \in Nat /\ list' \in Seq(Created)
      /\ \A i \in 1..Len(list) : list'[i] = list[i]
      /\ list'[Len(list) + 1] = a
      BY <1>1, <1>2 DEF RoundInv, ListOK
<1>5. ListOK'
      <2>1. \A i, j \in 1..Len(list') : list'[i] = list'[j] => i = j
            BY <1>2, <1>4 DEF RoundInv, ListOK
      <2>2. \A i \in 1..Len(list') : list'[i] \notin freed'
            BY <1>1, <1>2, <1>4 DEF RoundInv, ListOK
      <2> QED
          BY <1>1, <1>2, <1>4, <2>1, <2>2 DEF RoundInv, ListOK
<1>6. Unlisted'
      <2>1. ASSUME NEW v \in Users, pc'[v] \in Outside
            PROVE  app'[v] \in Created' /\ \A i \in 1..Len(list') : list'[i] # app'[v]
            <3>1. v # u /\ pc[v] \in Outside
                  BY <1>p, <1>q, <2>1 DEF Outside
            <3>2. app[v] # a /\ app[v] \in Created /\ \A i \in 1..Len(list) : list[i] # app[v]
                  BY <1>2, <3>1 DEF RoundInv, Unlisted
            <3> QED
                BY <1>1, <1>2, <1>4, <3>2
      <2>2. \A v \in Users : pc'[v] = "CreatePush" => pc[v] = "CreatePush"
            BY <1>p, <1>q
      <2> QED
          BY <1>1, <1>2, <2>1, <2>2 DEF RoundInv, Unlisted
<1>7. Round'
      <2>1. pc[Worker] \notin Holding
            BY DEF CreatePush, Free, RoundInv, Round, Threads
      <2> QED
          BY <1>3, <2>1 DEF Round, Holding, Using
<1> QED
    BY <1>3, <1>5, <1>6, <1>7 DEF RoundInv

\* The position in a sequence that position i has come from when k was removed.
From(i, k) == IF i < k THEN i ELSE i + 1

\* A sequence without its k-th element.
LEMMA RemoveAtParts ==
    ASSUME NEW S, NEW s \in Seq(S), NEW k \in 1..Len(s)
    PROVE  /\ RemoveAt(s, k) \in Seq(S) /\ Len(RemoveAt(s, k)) = Len(s) - 1
           /\ \A i \in 1..Len(RemoveAt(s, k)) : RemoveAt(s, k)[i] = s[From(i, k)]
<1> DEFINE p == SubSeq(s, 1, k - 1)
           q == SubSeq(s, k + 1, Len(s))
<1>1. /\ Len(s) \in Nat /\ k \in Nat /\ 1 <= k /\ k <= Len(s)
      /\ \A i \in 1..Len(s) : s[i] \in S
      OBVIOUS
<1>2. p \in Seq(S) /\ Len(p) = k - 1 /\ \A i \in 1..(k - 1) : p[i] = s[i]
      <2>1. \A i \in 1..(k - 1) : s[i] \in S
            BY <1>1
      <2>2. /\ p \in Seq(S)
            /\ Len(p) = IF 1 <= k - 1 THEN (k - 1) - 1 + 1 ELSE 0
            /\ \A i \in 1..((k - 1) - 1 + 1) : p[i] = s[1 + i - 1]
            BY <1>1, <2>1, SubSeqProperties
      <2> HIDE DEF p
      <2> QED
          BY <1>1, <2>2
<1>3. q \in Seq(S) /\ Len(q) = Len(s) - k /\ \A i \in 1..(Len(s) - k) : q[i] = s[k + i]
      <2>1. \A i \in (k + 1)..Len(s) : s[i] \in S
            BY <1>1
      <2>2. /\ q \in Seq(S)
            /\ Len(q) = IF k + 1 <= Len(s) THEN Len(s) - (k + 1) + 1 ELSE 0
            /\ \A i \in 1..(Len(s) - (k + 1) + 1) : q[i] = s[(k + 1) + i - 1]
            BY <1>1, <2>1, SubSeqProperties
      <2> HIDE DEF q
      <2> QED
          BY <1>1, <2>2
<1>4. RemoveAt(s, k) = p \o q
      BY DEF RemoveAt
<1> HIDE DEF p, q
<1>5. /\ p \o q \in Seq(S) /\ Len(p \o q) = Len(p) + Len(q)
      /\ \A i \in 1..(Len(p) + Len(q)) :
            (p \o q)[i] = IF i <= Len(p) THEN p[i] ELSE q[i - Len(p)]
      BY <1>2, <1>3, ConcatProperties
<1>6. Len(p \o q) = Len(s) - 1
      BY <1>1, <1>2, <1>3, <1>5
<1>7. ASSUME NEW i \in 1..(Len(s) - 1) PROVE (p \o q)[i] = s[From(i, k)]
      <2>1. (p \o q)[i] = IF i <= Len(p) THEN p[i] ELSE q[i - Len(p)]
            BY <1>1, <1>2, <1>3, <1>5
      <2>2. CASE i <= Len(p)
            <3>1. i \in 1..(k - 1) /\ i < k
                  BY <2>2, <1>1, <1>2
            <3> QED
                BY <3>1, <2>1, <2>2, <1>2 DEF From
      <2>3. CASE ~(i <= Len(p))
            <3>1. i - Len(p) \in 1..(Len(s) - k) /\ k + (i - Len(p)) = i + 1 /\ ~(i < k)
                  BY <2>3, <1>1, <1>2
            <3> QED
                BY <3>1, <2>1, <2>3, <1>3 DEF From
      <2> QED
          BY <2>2, <2>3
<1> QED
    BY <1>4, <1>5, <1>6, <1>7

\* destroy takes its appender out of the list, all of it, while the shared thread is
\* not going round.
LEMMA EraseStep == ASSUME RoundInv, NEW u \in Users, DestroyErase(u) PROVE RoundInv'
<1>1. /\ UNCHANGED <<creates, freed, app, spin, mlog, at>>
      /\ pc' = [pc EXCEPT ![u] = "DestroyFree"]
      BY DEF DestroyErase, Goto, walks
<1>2. PICK k \in 1..Len(list) : list[k] = app[u] /\ list' = RemoveAt(list, k)
      BY DEF DestroyErase
<1>3. /\ list \in Seq(Created) /\ Len(list) \in Nat
      /\ k \in Nat /\ 1 <= k /\ k <= Len(list)
      BY <1>2 DEF RoundInv, ListOK
<1>4. /\ list' \in Seq(Created) /\ Len(list') = Len(list) - 1
      /\ \A i \in 1..Len(list') : list'[i] = list[From(i, k)]
      BY <1>2, <1>3, RemoveAtParts
<1>5. ASSUME NEW i \in 1..Len(list') PROVE From(i, k) \in 1..Len(list) /\ From(i, k) # k
      BY <1>3, <1>4 DEF From
<1>6. ASSUME NEW i \in 1..Len(list')
      PROVE  \E j \in 1..Len(list) : list'[i] = list[j] /\ j # k
      BY <1>4, <1>5
<1>7. Created' = Created
      BY <1>1 DEF Created
<1>8. ListOK'
      <2>1. \A i, j \in 1..Len(list') : list'[i] = list'[j] => i = j
            <3> SUFFICES ASSUME NEW i \in 1..Len(list'), NEW j \in 1..Len(list'),
                                    list'[i] = list'[j]
                         PROVE  i = j
                OBVIOUS
            <3>1. From(i, k) \in 1..Len(list) /\ From(j, k) \in 1..Len(list)
                  BY <1>5
            <3>2. list[From(i, k)] = list[From(j, k)]
                  BY <1>4
            <3>3. From(i, k) = From(j, k)
                  BY <3>1, <3>2 DEF RoundInv, ListOK
            <3> QED
                BY <3>3, <1>3, <1>4 DEF From
      <2>2. \A i \in 1..Len(list') : list'[i] \notin freed'
            BY <1>1, <1>6 DEF RoundInv, ListOK
      <2> QED
          BY <1>1, <1>4, <1>7, <2>1, <2>2 DEF RoundInv, ListOK
<1>9. Unlisted'
      <2>1. app[u] \in Created /\ \A i \in 1..Len(list') : list'[i] # app[u]
            BY <1>2, <1>3, <1>6 DEF RoundInv, ListOK
      <2>p. pc'[u] = "DestroyFree" /\ \A v \in Users : v # u => pc'[v] = pc[v]
            BY <1>1 DEF RoundInv, PcOK, Threads
      <2>2. ASSUME NEW v \in Users, v # u, pc'[v] \in Outside
            PROVE  app[v] \in Created /\ \A i \in 1..Len(list') : list'[i] # app[v]
            BY <2>p, <2>2, <1>6 DEF RoundInv, Unlisted
      <2>3. \A v \in Users : pc'[v] = "CreatePush" => pc[v] = "CreatePush"
            BY <2>p
      <2> QED
          BY <1>1, <1>7, <2>1, <2>2, <2>3 DEF RoundInv, Unlisted
<1>10. Round'
      <2>1. pc'[Worker] = pc[Worker]
            BY <1>1 DEF RoundInv, PcOK, Threads
      <2>2. pc[Worker] \notin Holding
            BY DEF DestroyErase, Free, RoundInv, Round, Threads
      <2> QED
          BY <2>1, <2>2 DEF Round, Holding, Using
<1>11. PcOK' /\ WalksOK'
      BY <1>1 DEF RoundInv, PcOK, WalksOK, UserPc, Threads
<1> QED
    BY <1>8, <1>9, <1>10, <1>11 DEF RoundInv

\* The delete at the end of destroy is of an appender that is in no list.
LEMMA FreeStep == ASSUME RoundInv, NEW u \in Users, DestroyFree(u) PROVE RoundInv'
<1>1. /\ UNCHANGED <<creates, list, spin, mlog, at>>
      /\ freed' = freed \cup {app[u]} /\ app' = [app EXCEPT ![u] = Nil]
      /\ pc[u] = "DestroyFree" /\ pc' = [pc EXCEPT ![u] = "idle"]
      BY DEF DestroyFree, Goto, walks
<1>2. app[u] \in Created /\ \A i \in 1..Len(list) : list[i] # app[u]
      BY <1>1 DEF RoundInv, Unlisted, Outside
<1>3. PcOK' /\ WalksOK'
      BY <1>1 DEF RoundInv, PcOK, WalksOK, UserPc, Threads
<1>4. ListOK'
      BY <1>1, <1>2 DEF RoundInv, ListOK, Created
<1>5. Unlisted'
      <2>1. /\ app'[u] = Nil /\ pc'[u] = "idle" /\ Created' = Created
            /\ app' \in [Users -> Created \cup {Nil}]
            /\ \A v \in Users \ {u} : app'[v] = app[v] /\ pc'[v] = pc[v]
            BY <1>1 DEF RoundInv, Unlisted, Created, PcOK, Threads
      <2>2. Nil \notin Created
            BY DEF Created, App, RoundInv, ListOK
      <2>3. ASSUME NEW v \in Users, pc'[v] \in Outside
            PROVE  app'[v] \in Created /\ \A i \in 1..Len(list) : list[i] # app'[v]
            BY <2>1, <2>3 DEF RoundInv, Unlisted, Outside
      <2>4. ASSUME NEW v \in Users, pc'[v] = "CreatePush"
            PROVE  app'[v] \notin freed' /\ \A t \in Users : app'[t] = app'[v] => t = v
            <3>1. v # u /\ pc[v] = "CreatePush" /\ app'[v] = app[v]
                  BY <2>1, <2>4
            <3>2. app[v] # app[u] /\ app[v] \notin freed /\ \A t \in Users : app[t] = app[v] => t = v
                  BY <3>1 DEF RoundInv, Unlisted
            <3>3. app[v] # Nil
                  BY <2>2, <2>3, <2>4, <3>1 DEF Outside
            <3> QED
                BY <1>1, <2>1, <3>1, <3>2, <3>3
      <2> QED
          BY <1>1, <2>1, <2>3, <2>4 DEF Unlisted
<1>6. Round'
      BY <1>1 DEF RoundInv, Round, PcOK, Threads
<1> QED
    BY <1>3, <1>4, <1>5, <1>6 DEF RoundInv

\* The other steps of a user: none of them touches the list.
LEMMA UserStep ==
    ASSUME RoundInv, NEW u \in Users,
           \/ AppendWrite(u) \/ CloseCall(u) \/ OpenPublish(u) \/ OpenNotify(u)
           \/ AppendStart(u) \/ WalkNext(u) \/ WalkClose(u) \/ WalkLen(u) \/ Stray(u)
           \/ CloseNotify(u) \/ CloseWrite(u) \/ CloseTask(u) \/ CloseFree(u)
    PROVE  RoundInv'
<1> USE DEF registry, blocks, walks, UserPc, Outside
<1>u. u # Worker /\ u \in Threads /\ Worker \in Threads
      BY DEF Threads
<1>n. Notified = pc[Worker] \/ Notified = "Top"
      BY DEF Notified
<1>w. WalksOK /\ (UNCHANGED walks => WalksOK' /\ mlog'[Worker] = mlog[Worker])
      BY DEF RoundInv, WalksOK
<1>e. ASSUME NEW w, w = pc[Worker] \/ w = "Top", WalkEnds(u, w),
             UNCHANGED <<creates, list, freed, spin, app>>
      PROVE  RoundInv'
      <2>1. WalksOK' /\ mlog'[Worker] = mlog[Worker]
            BY <1>e, <1>u, <1>w DEF WalkEnds, WalksOK
      <2> QED
          BY <1>e, <2>1, QuietStep DEF WalkEnds, WakeAndGoto
<1>g. ASSUME WalkGoesOn(u), UNCHANGED <<creates, list, freed, spin, app>>
      PROVE  RoundInv'
      <2>1. WalksOK' /\ mlog'[Worker] = mlog[Worker]
            BY <1>g, <1>u, <1>w DEF WalkGoesOn, WalksOK
      <2> QED
          BY <1>g, <2>1, GotoStep DEF WalkGoesOn
<1>1. CASE AppendWrite(u)
      BY <1>1, <1>w, GotoStep DEF AppendWrite
<1>2. CASE CloseCall(u)
      BY <1>2, <1>w, GotoStep DEF CloseCall
<1>3. CASE OpenPublish(u)
      BY <1>3, <1>w, GotoStep DEF OpenPublish
<1>4. CASE OpenNotify(u)
      BY <1>4, <1>w, <1>n, QuietStep DEF OpenNotify, WakeAndGoto
<1>5. CASE AppendStart(u)
      BY <1>5, <1>w, QuietStep DEF AppendStart, WakeAndGoto
<1>6. CASE WalkNext(u)
      <2>1. UNCHANGED <<creates, list, freed, spin, app>>
            BY <1>6 DEF WalkNext
      <2>2. CASE WalkEnds(u, pc[Worker])
            BY <2>1, <2>2, <1>e
      <2>3. CASE /\ at[u] <= Len(list) /\ mlog' = [mlog EXCEPT ![u] = list[at[u]]]
                 /\ Goto(u, "WalkClose") /\ UNCHANGED at
            <3>1. list[at[u]] \in Nat
                  BY <2>3, <1>u DEF RoundInv, WalksOK, ListOK, Created
            <3>2. WalksOK' /\ mlog'[Worker] = mlog[Worker]
                  BY <2>3, <3>1, <1>u, <1>w DEF WalksOK
            <3> QED
                BY <2>1, <2>3, <3>2, GotoStep
      <2> QED
          BY <1>6, <2>2, <2>3 DEF WalkNext
<1>7. CASE WalkClose(u)
      <2>1. UNCHANGED <<creates, list, freed, spin, app>>
            BY <1>7 DEF WalkClose
      <2>2. CASE WalkGoesOn(u)
            BY <2>1, <2>2, <1>g
      <2>3. CASE Goto(u, "WalkLen") /\ UNCHANGED walks
            BY <2>1, <2>3, <1>w, GotoStep
      <2> QED
          BY <1>7, <2>2, <2>3 DEF WalkClose
<1>8. CASE WalkLen(u)
      <2>1. UNCHANGED <<creates, list, freed, spin, app>>
            BY <1>8 DEF WalkLen
      <2>2. WalkEnds(u, Notified) \/ WalkGoesOn(u)
            BY <1>8 DEF WalkLen
      <2> QED
          BY <2>1, <2>2, <1>e, <1>g, <1>n
<1>9. CASE Stray(u)
      <2>1. CASE Die
            BY <2>1, DieStep
      <2>2. CASE /\ \E w \in {pc[Worker], Notified} : WalkEnds(u, w)
                 /\ UNCHANGED <<creates, list, freed, spin, app>>
            BY <2>2, <1>e, <1>n
      <2> QED
          BY <1>9, <2>1, <2>2 DEF Stray
<1>10. CASE CloseNotify(u)
      BY <1>10, <1>w, <1>n, QuietStep DEF CloseNotify, WakeAndGoto
<1>11. CASE CloseWrite(u)
      BY <1>11, <1>w, GotoStep DEF CloseWrite
<1>12. CASE CloseTask(u)
      BY <1>12, <1>w, GotoStep DEF CloseTask
<1>13. CASE CloseFree(u)
      BY <1>13, <1>w, GotoStep DEF CloseFree
<1> QED
    BY <1>1, <1>2, <1>3, <1>4, <1>5, <1>6, <1>7, <1>8, <1>9, <1>10, <1>11, <1>12, <1>13

\* A step of the shared thread that leaves the lock and the list alone keeps what
\* does not speak of it; what it has to show of itself is left to show.
LEMMA WorkerGotoStep ==
    ASSUME RoundInv, NEW l \in WorkerPc, Goto(Worker, l), WalksOK', Round',
           UNCHANGED <<creates, list, freed, app>>
    PROVE  RoundInv'
<1>1. PcOK' /\ \A u \in Users : pc'[u] = pc[u]
      BY DEF RoundInv, PcOK, Goto, Threads
<1> QED
    BY <1>1 DEF RoundInv, ListOK, Unlisted, Created

\* The shared thread takes the spin lock before it looks at the list, works only on
\* what it finds there and releases the lock behind the last appender.
LEMMA WorkerStep ==
    ASSUME RoundInv, WorkerMove \/ WorkerAcquire
    PROVE  RoundInv'
<1> USE DEF registry, blocks, walks, hist, Holding, Using, WorkerPc
<1>t. Worker \in Threads /\ pc[Worker] \in UserPc \cup WorkerPc /\ WalksOK /\ Round
      BY DEF Threads, RoundInv, PcOK
<1>p. ASSUME NEW l, Goto(Worker, l) PROVE pc'[Worker] = l
      BY <1>p, <1>t DEF Goto, RoundInv, PcOK
<1>n. ASSUME WorkerNext, spin = Worker, UNCHANGED <<creates, list, freed, app, spin>>
      PROVE  RoundInv'
      <2>1. WalksOK' /\ pc'[Worker] = "Scan" /\ Goto(Worker, "Scan")
            BY <1>n, <1>t, <1>p DEF WorkerNext, WalksOK
      <2> QED
          BY <1>n, <2>1, WorkerGotoStep DEF Round
<1>g. ASSUME NEW l \in WorkerPc \ Holding, NEW from, WorkerGoes(from, l) PROVE RoundInv'
      <2>1. pc'[Worker] = l /\ WalksOK' /\ Goto(Worker, l) /\ UNCHANGED <<creates, list, freed,
                                                                          app>>
            BY <1>g, <1>t, <1>p DEF WorkerGoes, WalksOK
      <2> QED
          BY <1>g, <2>1, WorkerGotoStep DEF Round
<1>1. CASE WorkerTop
      <2>1. WalksOK' /\ UNCHANGED <<creates, list, freed, app, mlog>>
            BY <1>1, <1>t DEF WorkerTop, WalksOK
      <2>2. CASE Goto(Worker, "Leaving")
            BY <2>1, <2>2, <1>p, WorkerGotoStep DEF Round
      <2>3. CASE Goto(Worker, "Scan") /\ spin' = Worker
            BY <2>1, <2>3, <1>p, WorkerGotoStep DEF Round
      <2> QED
          BY <1>1, <2>2, <2>3 DEF WorkerTop, ScanHolder
<1>2. CASE WorkerScan
      <2>1. spin = Worker /\ UNCHANGED <<creates, list, freed, app>>
            BY <1>2, <1>t DEF WorkerScan, Round
      <2>2. CASE /\ Goto(Worker, "BeforeWait") /\ at' = [at EXCEPT ![Worker] = 1] /\ UNCHANGED mlog
            <3>1. WalksOK'
                  BY <2>2, <1>t DEF WalksOK
            <3> QED
                BY <2>1, <2>2, <3>1, <1>p, WorkerGotoStep DEF Round
      <2>3. CASE WorkerNext /\ UNCHANGED spin
            BY <2>1, <2>3, <1>n
      <2>4. CASE /\ at[Worker] <= Len(list) /\ mlog' = [mlog EXCEPT ![Worker] = list[at[Worker]]]
                 /\ Goto(Worker, "Task") /\ UNCHANGED <<at, spin>>
            <3>1. at[Worker] \in 1..Len(list) /\ list[at[Worker]] \in Nat
                  BY <2>4, <1>t DEF WalksOK, RoundInv, ListOK, Created
            <3>2. WalksOK' /\ mlog'[Worker] = list[at[Worker]]
                  BY <2>4, <3>1, <1>t DEF WalksOK
            <3>3. Round'
                  BY <2>1, <2>4, <3>1, <3>2 DEF Round
            <3> QED
                BY <2>1, <2>4, <3>2, <3>3, WorkerGotoStep
      <2> QED
          BY <1>2, <2>2, <2>3, <2>4 DEF WorkerScan
<1>3. CASE WorkerTask
      <2>1. spin = Worker /\ UNCHANGED <<creates, list, freed, app, spin>>
            BY <1>3, <1>t DEF WorkerTask, Round
      <2>2. CASE Goto(Worker, "TaskLock") /\ UNCHANGED walks
            BY <1>3, <2>1, <2>2, <1>t, <1>p, WorkerGotoStep DEF Round, WalksOK, WorkerTask
      <2> QED
          BY <1>3, <2>1, <2>2, <1>n DEF WorkerTask
<1>4. CASE WorkerFlush
      <2>1. CASE Die
            BY <2>1, DieStep
      <2>2. CASE ~Die
            <3>1. spin = Worker /\ UNCHANGED <<creates, list, freed, app, spin>>
                  BY <1>4, <2>2, <1>t DEF WorkerFlush, Round
            <3>2. CASE Goto(Worker, "Write") /\ UNCHANGED walks
                  BY <1>4, <3>1, <3>2, <1>t, <1>p, WorkerGotoStep DEF Round, WalksOK, WorkerFlush
            <3> QED
                BY <1>4, <2>2, <3>1, <3>2, <1>n DEF WorkerFlush
      <2> QED
          BY <2>1, <2>2
<1>5. CASE WorkerWrite
      <2>1. spin = Worker /\ UNCHANGED <<creates, list, freed, app, spin>> /\ WorkerNext
            BY <1>5, <1>t DEF WorkerWrite, Round
      <2> QED
          BY <2>1, <1>n
<1>6. CASE WorkerLeaves \/ WorkerWaits \/ WorkerTimesOut
      BY <1>6, <1>g DEF WorkerLeaves, WorkerWaits, WorkerTimesOut
<1> QED
    BY <1>1, <1>2, <1>3, <1>4, <1>5, <1>6 DEF WorkerMove, WorkerAcquire

-----------------------------------------------------------------------------
LEMMA RoundInit == Init => RoundInv
<1> SUFFICES ASSUME Init PROVE RoundInv
    OBVIOUS
<1>1. PcOK /\ WalksOK
      BY DEF Init, PcOK, WalksOK, UserPc, WorkerPc, Threads
<1>2. ListOK
      BY DEF Init, ListOK, Created
<1>3. Unlisted
      BY DEF Init, Unlisted, Created, Outside, Threads
<1>4. Round
      BY DEF Init, Round, Holding, Using, Threads
<1> QED
    BY <1>1, <1>2, <1>3, <1>4 DEF RoundInv

LEMMA RoundStep == RoundInv /\ [Next]_vars => RoundInv'
<1> SUFFICES ASSUME RoundInv, [Next]_vars PROVE RoundInv'
    OBVIOUS
<1>1. CASE \E u \in Users : \/ Create(u) \/ AppendWrite(u) \/ CloseCall(u)
                            \/ UserMove(u) \/ UserAcquire(u)
      BY <1>1, CreateStep, PushStep, EraseStep, FreeStep, UserStep DEF UserMove, UserAcquire
<1>2. CASE WorkerMove \/ WorkerAcquire
      BY <1>2, WorkerStep
<1>3. CASE UNCHANGED vars
      BY <1>3 DEF vars, registry, walks, RoundInv, PcOK, WalksOK, ListOK, Unlisted, Round,
                  Created
<1> QED
    BY <1>1, <1>2, <1>3 DEF Next

\* The shared thread never uses an appender that destroy has deleted: it holds the
\* spin lock from the first look at the list to the last write of a file, destroy
\* needs that lock to take an appender out of the list, and deletes it after that.
THEOREM SharedThreadUsesNoDeleted == Spec => []WorkerOnLive
<1>1. RoundInv => WorkerOnLive
      BY DEF RoundInv, Round, ListOK, WorkerOnLive, Using
<1> QED
    BY <1>1, RoundInit, RoundStep, PTL DEF Spec

-----------------------------------------------------------------------------
(* What the records, the owners and the walks have in common, on top of the    *)
(* invariant above.                                                            *)

Closing == {"CloseNotify", "CloseTask", "CloseWrite", "CloseFree", "DestroyErase", "DestroyFree"}
Drained == {"CloseWrite", "CloseFree", "DestroyErase", "DestroyFree"}
Looking == {"WalkClose", "WalkLen", "Task", "TaskLock", "Write"}

\* The types of what RoundInv leaves out. An iterator is never more than one past the
\* appenders that were created, though it may be past the list.
Shapes ==
    /\ alive \in BOOLEAN /\ crossed \subseteq Threads /\ dangling \subseteq Users
    /\ creates <= MaxCreates /\ Len(list) <= creates
    /\ spin \in {Worker, NoThread} /\ pc[Worker] \in WorkerPc
    /\ close \in [App -> BOOLEAN] /\ buff \in [App -> BOOLEAN]
    /\ bufLock \in [App -> Users \cup {NoThread}]

Iterators ==
    /\ mlog \in [Threads -> Created \cup {Nil}]
    /\ \A t \in Threads : at[t] <= creates + 1 /\ (pc[t] \in Looking => at[t] <= creates)

\* A record is refused, replaced or saved; a block never has more than makes it full.
Ledger ==
    /\ saved \in [App -> Nat] /\ failed \in [App -> Nat] /\ replaced \in [App -> Nat]
    /\ \A a \in App : data[a] <= Full

\* The records of each that are in its log file, or that nobody has any more.
over == [a \in App |-> saved[a] + failed[a] + replaced[a]]

Amounts ==
    /\ data \in [App -> Nat] /\ over \in [App -> Nat] /\ appended \in [App -> 0..MaxAppends]
    /\ carried \in [Threads -> Nat]

\* Nobody has a record any more of an appender that is deleted.
AllOver == \A a \in freed : over[a] = appended[a]

\* Every user has an appender of its own, as long as a call of it is not over, and
\* nobody has one that is deleted.
Owners ==
    /\ \A u \in Users : pc[u] # "idle" => app[u] # Nil
    /\ \A u \in Users : app[u] # Nil => app[u] \notin freed
    /\ \A u, v \in Users : app[u] # Nil /\ app[u] = app[v] => u = v

\* An appender that is open has its block; one whose close has begun is closed, and
\* nothing comes into its block after the task of close.
Closed ==
    /\ \A a \in App : ~close[a] => buff[a]
    /\ \A u \in Users : pc[u] \in Closing => close[app[u]]
    /\ \A u \in Users : pc[u] \in Drained => data[app[u]] = 0

\* What the shared thread has taken out of the block of a and not yet written.
InWorker(a) == IF pc[Worker] = "Write" /\ mlog[Worker] = a THEN carried[Worker] ELSE 0

\* Every record is in its block, in the buffer of the shared thread or of a close, in
\* the log file, or gone.
Balance ==
    /\ carried[Worker] # 0 => pc[Worker] = "Write"
    /\ \A u \in Users : carried[u] # 0 => pc[u] = "CloseWrite"
    /\ \A u \in Users : pc[u] = "CloseWrite" =>
          appended[app[u]] = data[app[u]] + over[app[u]] + InWorker(app[u]) + carried[u]
    /\ \A a \in App : (\A u \in Users : app[u] = a => pc[u] # "CloseWrite") =>
          appended[a] = data[a] + over[a] + InWorker(a)

\* A walk that nothing has crossed is inside the list, and looks at an appender in it
\* that has its block.
Uncrossed ==
    /\ dangling \subseteq crossed
    /\ \A u \in Users : u \notin Walking => at[u] = 1
    /\ \A u \in Users \ crossed :
          /\ pc[u] = "WalkNext" => at[u] <= Len(list) + 1
          /\ pc[u] \in {"WalkClose", "WalkLen"} => at[u] <= Len(list) /\ mlog[u] = list[at[u]]
          /\ pc[u] = "WalkLen" => buff[mlog[u]]
    /\ pc[Worker] = "TaskLock" /\ Worker \notin crossed => buff[mlog[Worker]]

LifeInv ==
    /\ RoundInv /\ Ledger /\ Shapes /\ Iterators /\ Amounts /\ Owners /\ Closed /\ Balance
    /\ Uncrossed /\ AllOver /\ FaultsNeedOverlap

-----------------------------------------------------------------------------
(* What the steps leave alone. *)

StepOf(u) == Create(u) \/ AppendWrite(u) \/ CloseCall(u) \/ UserMove(u) \/ UserAcquire(u)
WorkerStepOf == WorkerMove \/ WorkerAcquire

LEMMA GotoOf ==
    ASSUME PcOK, NEW t \in Threads, NEW l, Goto(t, l)
    PROVE  pc'[t] = l /\ \A v \in Threads \ {t} : pc'[v] = pc[v]
BY DEF PcOK, Goto

LEMMA WakeOf ==
    ASSUME PcOK, NEW u \in Users, NEW w, NEW l, WakeAndGoto(w, u, l)
    PROVE  pc'[u] = l /\ pc'[Worker] = w /\ \A v \in Users \ {u} : pc'[v] = pc[v]
BY DEF PcOK, WakeAndGoto, Threads

\* At most, a user's step wakes or starts the shared thread.
Nudged == pc'[Worker] = pc[Worker] \/ (pc[Worker] \in {"Wait", "exited"} /\ pc'[Worker] = "Top")

LEMMA NudgedBy ==
    ASSUME PcOK, NEW u \in Users, NEW l, NEW w, WakeAndGoto(w, u, l),
           w \in {pc[Worker], Notified, IF Running THEN pc[Worker] ELSE "Top"}
    PROVE  Nudged /\ pc'[u] = l /\ \A v \in Users \ {u} : pc'[v] = pc[v]
BY WakeOf DEF Nudged, Notified, Running

LEMMA NudgedNot ==
    ASSUME PcOK, NEW u \in Users, NEW l, Goto(u, l)
    PROVE  Nudged /\ pc'[u] = l /\ \A v \in Users \ {u} : pc'[v] = pc[v]
BY GotoOf DEF Nudged, Threads

\* A walk that ends, one that goes on, and one that faults or ends.
LEMMA WalkEndsParts ==
    ASSUME PcOK, WalksOK, NEW u \in Users, NEW w \in {pc[Worker], Notified}, WalkEnds(u, w)
    PROVE  /\ Nudged /\ pc'[u] = "idle" /\ \A v \in Users \ {u} : pc'[v] = pc[v]
           /\ at'[u] = 1 /\ mlog'[u] = Nil
           /\ \A t \in Threads \ {u} : at'[t] = at[t] /\ mlog'[t] = mlog[t]
           /\ dangling' = dangling \ {u} /\ crossed' = crossed \ {u}
           /\ bufLock' = [bufLock EXCEPT ![app[u]] = NoThread]
<1>1. WakeAndGoto(w, u, "idle")
      BY DEF WalkEnds
<1>2. Nudged /\ pc'[u] = "idle" /\ \A v \in Users \ {u} : pc'[v] = pc[v]
      BY <1>1, NudgedBy
<1>3. u \in Threads
      BY DEF Threads
<1> QED
    BY <1>2, <1>3 DEF WalkEnds, WalksOK

LEMMA WalkGoesOnParts ==
    ASSUME PcOK, WalksOK, NEW u \in Users, WalkGoesOn(u)
    PROVE  /\ Nudged /\ pc'[u] = "WalkNext" /\ \A v \in Users \ {u} : pc'[v] = pc[v]
           /\ at'[u] = at[u] + 1 /\ \A t \in Threads \ {u} : at'[t] = at[t]
           /\ UNCHANGED <<mlog, bufLock, dangling, crossed>>
<1>1. Goto(u, "WalkNext") /\ u \in Threads
      BY DEF WalkGoesOn, Threads
<1>2. Nudged /\ pc'[u] = "WalkNext" /\ \A v \in Users \ {u} : pc'[v] = pc[v]
      BY <1>1, NudgedNot
<1> QED
    BY <1>1, <1>2 DEF WalkGoesOn, WalksOK

\* Every step of a user, as far as the threads are concerned.
LEMMA UserFrame ==
    ASSUME PcOK, WalksOK, NEW u \in Users, StepOf(u)
    PROVE  /\ Nudged
           /\ \A v \in Users \ {u} : pc'[v] = pc[v]
           /\ \A t \in Threads \ {u} : at'[t] = at[t] /\ mlog'[t] = mlog[t]
<1> USE DEF registry, blocks, walks, hist, over
<1>d. ASSUME Die
      PROVE  /\ Nudged /\ \A v \in Users \ {u} : pc'[v] = pc[v]
             /\ UNCHANGED walks
      BY <1>d DEF Die, Nudged
<1>g. ASSUME NEW l, Goto(u, l) PROVE Nudged /\ \A v \in Users \ {u} : pc'[v] = pc[v]
      BY <1>g, NudgedNot
<1>w. ASSUME NEW l, NEW w \in {pc[Worker], Notified, IF Running THEN pc[Worker] ELSE "Top"},
             WakeAndGoto(w, u, l)
      PROVE  Nudged /\ \A v \in Users \ {u} : pc'[v] = pc[v]
      BY <1>w, NudgedBy
<1>u. u \in Threads /\ \A t \in Threads : t # u => t \in Threads \ {u}
      BY DEF Threads
<1>1. CASE Create(u) \/ CreatePush(u) \/ AppendWrite(u) \/ CloseCall(u) \/ OpenPublish(u)
      BY <1>1, <1>g DEF Create, CreatePush, AppendWrite, CloseCall, OpenPublish
<1>2. CASE CloseWrite(u) \/ DestroyFree(u) \/ CloseTask(u) \/ CloseFree(u) \/ DestroyErase(u)
      BY <1>2, <1>g DEF CloseWrite, DestroyFree, CloseTask, CloseFree, DestroyErase
<1>3. CASE OpenNotify(u) \/ AppendStart(u) \/ CloseNotify(u)
      BY <1>3, <1>w DEF OpenNotify, AppendStart, CloseNotify
<1>4. CASE WalkNext(u)
      <2>1. CASE WalkEnds(u, pc[Worker])
            BY <2>1, WalkEndsParts
      <2>2. CASE mlog' = [mlog EXCEPT ![u] = list[at[u]]] /\ Goto(u, "WalkClose") /\ UNCHANGED at
            BY <2>2, <1>g, <1>u DEF WalksOK
      <2> QED
          BY <1>4, <2>1, <2>2 DEF WalkNext
<1>5. CASE WalkClose(u)
      <2>1. CASE WalkGoesOn(u)
            BY <2>1, WalkGoesOnParts
      <2>2. CASE Goto(u, "WalkLen") /\ UNCHANGED walks
            BY <2>2, <1>g
      <2> QED
          BY <1>5, <2>1, <2>2 DEF WalkClose
<1>6. CASE WalkLen(u)
      <2>1. CASE WalkEnds(u, Notified)
            BY <2>1, WalkEndsParts
      <2>2. CASE WalkGoesOn(u)
            BY <2>2, WalkGoesOnParts
      <2> QED
          BY <1>6, <2>1, <2>2 DEF WalkLen
<1>7. CASE Stray(u)
      <2>1. CASE Die
            BY <2>1, <1>d
      <2>2. CASE \E w \in {pc[Worker], Notified} : WalkEnds(u, w)
            BY <2>2, WalkEndsParts
      <2> QED
          BY <1>7, <2>1, <2>2 DEF Stray
<1> QED
    BY <1>1, <1>2, <1>3, <1>4, <1>5, <1>6, <1>7 DEF StepOf, UserMove, UserAcquire

\* What the shared thread works on next, and every step of it.
LEMMA WorkerNextParts ==
    ASSUME PcOK, WalksOK, WorkerNext
    PROVE  /\ pc'[Worker] = "Scan" /\ \A v \in Users : pc'[v] = pc[v]
           /\ at'[Worker] = at[Worker] + 1 /\ mlog'[Worker] = Nil
           /\ \A v \in Users : at'[v] = at[v] /\ mlog'[v] = mlog[v]
<1>1. Worker \in Threads /\ \A v \in Users : v \in Threads \ {Worker}
      BY DEF Threads
<1>2. Goto(Worker, "Scan")
      BY DEF WorkerNext
<1>3. pc'[Worker] = "Scan" /\ \A v \in Users : pc'[v] = pc[v]
      BY <1>1, <1>2, GotoOf
<1> QED
    BY <1>1, <1>3 DEF WorkerNext, WalksOK

LEMMA WorkerGoesParts ==
    ASSUME PcOK, NEW l, Goto(Worker, l)
    PROVE  pc'[Worker] = l /\ \A v \in Users : pc'[v] = pc[v]
BY GotoOf DEF Threads

LEMMA WorkerFrame ==
    ASSUME PcOK, WalksOK, WorkerStepOf
    PROVE  /\ \A v \in Users : pc'[v] = pc[v] /\ at'[v] = at[v] /\ mlog'[v] = mlog[v]
           /\ UNCHANGED <<creates, list, freed, dangling, crossed, close, buff, bufLock, app,
                          appended>>
<1> USE DEF registry, blocks, walks, hist, over
<1>t. Worker \in Threads /\ \A v \in Users : v \in Threads /\ v # Worker
      BY DEF Threads
<1>1. CASE Die
      BY <1>1 DEF Die
<1>2. CASE WorkerTop
      BY <1>2, WorkerGoesParts DEF WorkerTop
<1>3. CASE WorkerScan
      <2>1. CASE WorkerNext
            BY <1>3, <2>1, WorkerNextParts DEF WorkerScan
      <2>2. CASE ~WorkerNext
            BY <1>3, <2>2, <1>t, WorkerGoesParts DEF WorkerScan, WalksOK
      <2> QED
          BY <2>1, <2>2
<1>4. CASE WorkerTask
      BY <1>4, WorkerNextParts, WorkerGoesParts DEF WorkerTask
<1>5. CASE WorkerFlush
      BY <1>5, <1>1, WorkerNextParts, WorkerGoesParts DEF WorkerFlush
<1>6. CASE WorkerWrite
      BY <1>6, WorkerNextParts DEF WorkerWrite, Save
<1>7. CASE WorkerLeaves \/ WorkerWaits \/ WorkerTimesOut
      BY <1>7, WorkerGoesParts DEF WorkerLeaves, WorkerWaits, WorkerTimesOut, WorkerGoes
<1> QED
    BY <1>2, <1>3, <1>4, <1>5, <1>6, <1>7 DEF WorkerStepOf, WorkerMove, WorkerAcquire

\* Walks, and the steps before and after one, change no record and no appender.
Calm(u) == OpenNotify(u) \/ AppendStart(u) \/ WalkNext(u) \/ WalkClose(u) \/ WalkLen(u) \/ Stray(u)
Calming == {"OpenNotify", "AppendStart", "WalkNext", "WalkClose", "WalkLen"}

LEMMA CalmFrame ==
    ASSUME PcOK, WalksOK, NEW u \in Users, Calm(u)
    PROVE  /\ UNCHANGED <<creates, list, spin, freed, close, buff, data, app, carried, appended,
                          over>>
           /\ pc[u] \in Calming /\ pc'[u] \in Calming \cup {"idle"}
<1> USE DEF registry, blocks, walks, hist, over, Calming
<1>1. CASE OpenNotify(u) \/ AppendStart(u)
      BY <1>1, NudgedBy DEF OpenNotify, AppendStart
<1>2. CASE WalkNext(u)
      <2>1. pc'[u] \in Calming \cup {"idle"}
            BY <1>2, WalkEndsParts, NudgedNot DEF WalkNext
      <2> QED
          BY <1>2, <2>1 DEF WalkNext
<1>3. CASE WalkClose(u)
      <2>1. pc'[u] \in Calming \cup {"idle"}
            BY <1>3, WalkGoesOnParts, NudgedNot DEF WalkClose
      <2> QED
          BY <1>3, <2>1 DEF WalkClose
<1>4. CASE WalkLen(u)
      <2>1. pc'[u] \in Calming \cup {"idle"}
            BY <1>4, WalkGoesOnParts, WalkEndsParts DEF WalkLen
      <2> QED
          BY <1>4, <2>1 DEF WalkLen
<1>5. CASE Stray(u)
      <2>1. CASE Die
            BY <1>5, <2>1 DEF Stray, Die
      <2>2. CASE ~Die
            <3>1. pc'[u] \in Calming \cup {"idle"}
                  BY <1>5, <2>2, WalkEndsParts DEF Stray
            <3> QED
                BY <1>5, <2>2, <3>1 DEF Stray
      <2> QED
          BY <2>1, <2>2
<1> QED
    BY <1>1, <1>2, <1>3, <1>4, <1>5 DEF Calm

\* The steps of the shared thread that move no record.
WorkerCalm == WorkerTop \/ WorkerScan \/ WorkerTask \/ WorkerLeaves \/ WorkerWaits \/ WorkerTimesOut

LEMMA WorkerCalmFrame ==
    ASSUME PcOK, WalksOK, WorkerCalm
    PROVE  /\ UNCHANGED <<alive, data, carried, over>>
           /\ pc[Worker] # "Write" /\ pc'[Worker] # "Write"
<1> USE DEF registry, blocks, walks, hist, over
<1>1. CASE WorkerTop \/ WorkerLeaves \/ WorkerWaits \/ WorkerTimesOut
      BY <1>1, WorkerGoesParts DEF WorkerTop, WorkerLeaves, WorkerWaits, WorkerTimesOut, WorkerGoes
<1>2. CASE WorkerScan
      BY <1>2, WorkerGoesParts, WorkerNextParts DEF WorkerScan
<1>3. CASE WorkerTask
      BY <1>3, WorkerGoesParts, WorkerNextParts DEF WorkerTask
<1> QED
    BY <1>1, <1>2, <1>3 DEF WorkerCalm

-----------------------------------------------------------------------------
(* What is counted. *)

\* What is written goes to the file or is refused: either way nobody has it any more.
LEMMA SaveParts ==
    ASSUME Ledger, Amounts, NEW t \in Threads, NEW a \in App, Save(t, a)
    PROVE  /\ over' = [over EXCEPT ![a] = @ + carried[t]]
           /\ carried' = [carried EXCEPT ![t] = 0]
           /\ UNCHANGED <<appended, replaced>>
           /\ saved' \in [App -> Nat] /\ failed' \in [App -> Nat]
<1>1. PICK n \in Stored(a, carried[t]) :
         /\ saved' = [saved EXCEPT ![a] = @ + n]
         /\ failed' = [failed EXCEPT ![a] = @ + (carried[t] - n)]
      BY DEF Save
<1>2. UNCHANGED <<appended, replaced>> /\ carried' = [carried EXCEPT ![t] = 0]
      BY DEF Save
<1>3. n \in Nat /\ carried[t] \in Nat /\ carried[t] - n \in Nat
      BY <1>1 DEF Stored, Amounts
<1>4. saved' \in [App -> Nat] /\ failed' \in [App -> Nat]
      BY <1>1, <1>3 DEF Ledger
<1>5. \A b \in App : over'[b] = IF b = a THEN over[b] + carried[t] ELSE over[b]
      BY <1>1, <1>2, <1>3 DEF Ledger, over
<1>6. over' = [over EXCEPT ![a] = @ + carried[t]]
      BY <1>5 DEF over
<1> QED
    BY <1>2, <1>4, <1>6

-----------------------------------------------------------------------------
(* What keeps each part of the invariant.                                      *)

LEMMA OwnersKept ==
    ASSUME Owners, UNCHANGED <<app, freed>>,
           \A v \in Users : pc'[v] = pc[v] \/ app[v] # Nil
    PROVE  Owners'
BY DEF Owners

LEMMA ClosedKept ==
    ASSUME Closed, UNCHANGED <<close, buff, data, app>>,
           \A v \in Users : /\ pc'[v] \in Closing => pc[v] \in Closing
                            /\ pc'[v] \in Drained => pc[v] \in Drained
    PROVE  Closed'
BY DEF Closed

LEMMA BalanceKept ==
    ASSUME Balance, UNCHANGED <<data, carried, over, appended>>,
           \A v \in Users : (pc'[v] = "CloseWrite") = (pc[v] = "CloseWrite"),
           \A v \in Users : pc[v] = "CloseWrite" => app'[v] = app[v],
           (pc'[Worker] = "Write") = (pc[Worker] = "Write"),
           pc[Worker] = "Write" => mlog'[Worker] = mlog[Worker]
    PROVE  Balance'
<1>1. ASSUME NEW a PROVE InWorker(a)' = InWorker(a)
      BY DEF InWorker
<1>2. ASSUME NEW u \in Users, pc'[u] = "CloseWrite"
      PROVE  (appended[app[u]] = data[app[u]] + over[app[u]] + InWorker(app[u]) + carried[u])'
      <2>1. pc[u] = "CloseWrite" /\ app'[u] = app[u]
            BY <1>2
      <2> QED
          BY <1>1, <2>1 DEF Balance
<1>3. ASSUME NEW a \in App, \A u \in Users : app'[u] = a => pc'[u] # "CloseWrite"
      PROVE  (appended[a] = data[a] + over[a] + InWorker(a))'
      <2>1. \A u \in Users : app[u] = a => pc[u] # "CloseWrite"
            BY <1>3
      <2> QED
          BY <1>1, <2>1 DEF Balance
<1>4. /\ carried'[Worker] # 0 => pc'[Worker] = "Write"
      /\ \A u \in Users : carried'[u] # 0 => pc'[u] = "CloseWrite"
      BY DEF Balance
<1> QED
    BY <1>2, <1>3, <1>4 DEF Balance

LEMMA UncrossedKept ==
    ASSUME Uncrossed, UNCHANGED <<list, buff, at, mlog, dangling, crossed>>,
           \A v \in Users : pc'[v] = pc[v] \/ (v \notin Walking /\ v \notin Walking'),
           pc'[Worker] = "TaskLock" => pc[Worker] = "TaskLock"
    PROVE  Uncrossed'
<1>1. ASSUME NEW v \in Users
      PROVE  /\ v \in Walking' <=> v \in Walking
             /\ pc'[v] \in {"WalkNext", "WalkClose", "WalkLen"} => pc'[v] = pc[v]
      BY DEF Walking
<1> QED
    BY <1>1 DEF Uncrossed

LEMMA IteratorsKept ==
    ASSUME Iterators, UNCHANGED <<creates, at, mlog>>,
           \A t \in Threads : pc'[t] \in Looking => pc[t] \in Looking
    PROVE  Iterators'
BY DEF Iterators, Created

\* An appender of a user is one of the appenders that there can be.
LEMMA OwnedIsApp ==
    ASSUME RoundInv, Shapes, NEW u \in Users, app[u] # Nil
    PROVE  app[u] \in Created /\ app[u] \in App
BY DEF RoundInv, Unlisted, ListOK, Shapes, Created, App

LEMMA DeletedIsApp == ASSUME RoundInv PROVE freed \subseteq App
<1>1. freed \subseteq 1..creates /\ creates \in Nat /\ creates <= MaxCreates
      BY DEF RoundInv, ListOK, Created
<1> QED
    BY <1>1 DEF App

\* The list is no longer than the number of appenders: it has each of them once at most.
LEMMA ShortList ==
    ASSUME NEW n \in Nat, NEW q \in Seq(1..n), \A i, j \in 1..Len(q) : q[i] = q[j] => i = j
    PROVE  Len(q) <= n
<1> DEFINE f == [i \in 1..Len(q) |-> q[i]]
<1>1. Len(q) \in Nat /\ f \in [1..Len(q) -> 1..n]
      OBVIOUS
<1>2. ASSUME NEW k \in Nat PROVE IsFiniteSet(1..k) /\ Cardinality(1..k) = k
      <2>1. 1 \in Int /\ k \in Int
            OBVIOUS
      <2>2. IsFiniteSet(1..k) /\ Cardinality(1..k) = IF 1 > k THEN 0 ELSE k - 1 + 1
            BY <2>1, FS_Interval
      <2> QED
          BY <2>2
<1>3. \A i, j \in 1..Len(q) : f[i] = f[j] => i = j
      OBVIOUS
<1> HIDE DEF f
<1>4. ~(Cardinality(1..n) < Cardinality(1..Len(q)))
      <2> SUFFICES ASSUME Cardinality(1..n) < Cardinality(1..Len(q)) PROVE FALSE
          OBVIOUS
      <2>1. IsFiniteSet(1..n) /\ IsFiniteSet(1..Len(q))
            BY <1>1, <1>2
      <2> DEFINE S == 1..Len(q)
                 T == 1..n
      <2>2. /\ IsFiniteSet(S) /\ IsFiniteSet(T) /\ Cardinality(T) < Cardinality(S)
            /\ f \in [S -> T]
            BY <1>1, <2>1
      <2> HIDE DEF S, T
      <2>3. \E i, j \in S : i # j /\ f[i] = f[j]
            BY <2>2, FS_PigeonHole
      <2> QED
          BY <1>3, <2>3 DEF S
<1> QED
    BY <1>1, <1>2, <1>4

-----------------------------------------------------------------------------
(* The steps of a user.                                                        *)

\* create: the user had no appender, and nobody has the new one.
LEMMA CreateLife == ASSUME LifeInv, alive, RoundInv', Ledger', NEW u \in Users, Create(u)
    PROVE LifeInv'
<1> USE DEF walks, hist
<1>0. /\ RoundInv /\ Ledger /\ Shapes /\ Iterators /\ Amounts /\ Owners /\ Closed /\ Balance
      /\ Uncrossed /\ PcOK /\ WalksOK /\ creates \in Nat /\ freed \subseteq Created
      BY DEF LifeInv, RoundInv, ListOK
<1>1. /\ pc[u] = "idle" /\ app[u] = Nil /\ creates < MaxCreates
      /\ creates' = creates + 1 /\ app' = [app EXCEPT ![u] = creates + 1]
      /\ close' = [close EXCEPT ![creates + 1] = TRUE]
      /\ UNCHANGED <<alive, list, spin, freed, dangling, crossed, buff, data, bufLock, at, mlog,
                     carried, over, appended>>
      BY DEF Create, CreatedClosed, over
<1>2. pc'[u] = "CreatePush" /\ \A t \in Threads \ {u} : pc'[t] = pc[t]
      BY <1>0, GotoOf DEF Create, Threads
<1>3. Shapes'
      <2>1. pc'[Worker] = pc[Worker] /\ Len(list) <= creates'
            BY <1>0, <1>1, <1>2 DEF Threads, Shapes, RoundInv, ListOK
      <2>2. close' \in [App -> BOOLEAN]
            BY <1>0, <1>1 DEF Shapes
      <2> QED
          BY <1>0, <1>1, <2>1, <2>2 DEF Shapes
<1>4. Iterators' /\ Amounts'
      <2>1. Created \subseteq Created'
            BY <1>0, <1>1 DEF Created
      <2>2. mlog' \in [Threads -> Created' \cup {Nil}]
            BY <1>0, <1>1, <2>1 DEF Iterators
      <2>3. \A t \in Threads : pc'[t] \in Looking => pc[t] \in Looking
            BY <1>2 DEF Looking
      <2> QED
          BY <1>0, <1>1, <2>2, <2>3 DEF Iterators, WalksOK, Amounts
<1>5. Owners'
      <2>1. app'[u] = creates + 1 /\ creates + 1 \notin Created /\ creates + 1 # Nil
            BY <1>0, <1>1 DEF RoundInv, Unlisted, Created, App, Shapes
      <2>2. \A v \in Users \ {u} : app'[v] = app[v] /\ app[v] # creates + 1 /\ pc'[v] = pc[v]
            BY <1>0, <1>1, <1>2, <2>1 DEF RoundInv, Unlisted, Created, Threads
      <2> QED
          BY <1>0, <1>1, <2>1, <2>2 DEF Owners
<1>6. Closed'
      <2>1. \A v \in Users : pc'[v] \in Closing => v # u /\ pc'[v] = pc[v] /\ app'[v] = app[v]
            BY <1>0, <1>1, <1>2 DEF Closing, RoundInv, Unlisted, Threads
      <2>2. \A a \in App : close'[a] = IF a = creates + 1 THEN TRUE ELSE close[a]
            BY <1>0, <1>1 DEF Shapes
      <2>3. ASSUME NEW v \in Users, pc'[v] \in Closing PROVE close'[app'[v]]
            <3>1. v # u /\ pc[v] \in Closing /\ app'[v] = app[v]
                  BY <2>1, <2>3
            <3>2. app[v] # Nil
                  BY <1>0, <3>1 DEF Owners, Closing
            <3>3. app[v] \in App /\ close[app[v]]
                  BY <1>0, <3>1, <3>2, OwnedIsApp DEF Closed
            <3> QED
                BY <3>1, <3>3, <2>2
      <2>4. \A v \in Users : pc'[v] \in Drained => data'[app'[v]] = 0
            BY <1>0, <1>1, <2>1 DEF Closed, Drained, Closing
      <2>5. \A a \in App : ~close'[a] => buff'[a]
            BY <1>0, <1>1, <2>2 DEF Closed
      <2> QED
          BY <2>3, <2>4, <2>5 DEF Closed
<1>7. Balance'
      <2>1. \A v \in Users : (pc'[v] = "CloseWrite") = (pc[v] = "CloseWrite")
            BY <1>1, <1>2 DEF Threads
      <2>2. \A v \in Users : pc[v] = "CloseWrite" => app'[v] = app[v]
            BY <1>0, <1>1 DEF RoundInv, Unlisted
      <2>3. pc'[Worker] = pc[Worker]
            BY <1>2 DEF Threads
      <2> QED
          BY <1>0, <1>1, <2>1, <2>2, <2>3, BalanceKept
<1>8. Uncrossed'
      <2>1. u \notin Walking /\ u \notin Walking' /\ pc'[Worker] = pc[Worker]
            BY <1>1, <1>2 DEF Walking, Threads
      <2>2. \A v \in Users \ {u} : pc'[v] = pc[v]
            BY <1>2 DEF Threads
      <2> QED
          BY <1>0, <1>1, <2>1, <2>2, UncrossedKept
<1>9. AllOver' /\ FaultsNeedOverlap'
      BY <1>1 DEF LifeInv, AllOver, FaultsNeedOverlap
<1> QED
    BY <1>3, <1>4, <1>5, <1>6, <1>7, <1>8, <1>9 DEF LifeInv

\* It goes to the end of the list: every walk has been crossed.
LEMMA PushLife == ASSUME LifeInv, alive, RoundInv', Ledger', NEW u \in Users, CreatePush(u)
    PROVE LifeInv'
<1> USE DEF blocks, walks, hist
<1>0. /\ RoundInv /\ Ledger /\ Shapes /\ Iterators /\ Amounts /\ Owners /\ Closed /\ Balance
      /\ Uncrossed /\ PcOK /\ WalksOK
      BY DEF LifeInv, RoundInv
<1>1. /\ pc[u] = "CreatePush" /\ app[u] # Nil /\ crossed' = crossed \cup Walking
      /\ dangling' \in {dangling, dangling \cup Walking}
      /\ UNCHANGED <<alive, creates, spin, freed, close, buff, data, bufLock, app,
                     at, mlog, carried, over, appended>>
      BY <1>0 DEF CreatePush, Owners, over
<1>2. pc'[u] = "OpenPublish" /\ \A t \in Threads \ {u} : pc'[t] = pc[t]
      BY <1>0, GotoOf DEF CreatePush, Threads
<1>c. u \notin Walking /\ u \notin Walking' /\ pc'[Worker] = pc[Worker]
      BY <1>1, <1>2 DEF Walking, Threads
<1>d. \A v \in Users \ {u} : pc'[v] = pc[v]
      BY <1>2 DEF Threads
<1>3. Shapes'
      <2>1. Len(list') <= creates'
            <3>1. /\ creates' \in Nat /\ list' \in Seq(1..creates')
                  /\ \A i, j \in 1..Len(list') : list'[i] = list'[j] => i = j
                  BY DEF RoundInv, ListOK, Created
            <3> QED
                BY <3>1, ShortList
      <2>2. crossed' \subseteq Threads /\ dangling' \subseteq Users
            BY <1>0, <1>1 DEF Shapes, Walking, Threads
      <2> QED
          BY <1>0, <1>1, <1>c, <2>1, <2>2 DEF Shapes
<1>4. Iterators' /\ Amounts' /\ Owners' /\ Closed' /\ Balance'
      <2>1. \A t \in Threads : pc'[t] \in Looking => pc[t] \in Looking
            BY <1>2 DEF Looking
      <2>2. \A v \in Users : pc'[v] = pc[v] \/ app[v] # Nil
            BY <1>1, <1>d
      <2>3. \A v \in Users : /\ pc'[v] \in Closing => pc[v] \in Closing
                             /\ pc'[v] \in Drained => pc[v] \in Drained
            BY <1>1, <1>2, <1>d DEF Closing, Drained
      <2>4. \A v \in Users : (pc'[v] = "CloseWrite") = (pc[v] = "CloseWrite")
            BY <1>1, <1>2, <1>d
      <2>5. Amounts'
            BY <1>0, <1>1 DEF Amounts
      <2> QED
          BY <1>0, <1>1, <1>c, <2>1, <2>2, <2>3, <2>4, <2>5,
             IteratorsKept, OwnersKept, ClosedKept, BalanceKept
<1>5. Uncrossed'
      <2>1. \A v \in Users : v \in Walking' <=> v \in Walking
            BY <1>d, <1>c DEF Walking
      <2>2. /\ \A v \in Users : pc'[v] \in {"WalkNext", "WalkClose", "WalkLen"} => v \in crossed'
            /\ dangling' \subseteq crossed'
            BY <1>0, <1>1, <2>1 DEF Walking, Uncrossed
      <2> QED
          BY <1>0, <1>1, <1>c, <2>1, <2>2 DEF Uncrossed
<1>6. AllOver' /\ FaultsNeedOverlap'
      BY <1>1 DEF LifeInv, AllOver, FaultsNeedOverlap
<1> QED
    BY <1>3, <1>4, <1>5, <1>6 DEF LifeInv

\* open makes the block before it opens the appender.
LEMMA OpenLife == ASSUME LifeInv, alive, RoundInv', Ledger', NEW u \in Users, OpenPublish(u)
    PROVE LifeInv'
<1> USE DEF registry, walks, hist
<1>0. /\ RoundInv /\ Ledger /\ Shapes /\ Iterators /\ Amounts /\ Owners /\ Closed /\ Balance
      /\ Uncrossed /\ PcOK /\ WalksOK
      BY DEF LifeInv, RoundInv
<1>1. /\ pc[u] = "OpenPublish"
      /\ buff' = [buff EXCEPT ![app[u]] = TRUE] /\ close' = [close EXCEPT ![app[u]] = FALSE]
      /\ UNCHANGED <<alive, creates, list, spin, freed, dangling, crossed, data, bufLock, app, at,
                     mlog, carried, over, appended>>
      BY DEF OpenPublish, over
<1>2. pc'[u] = "OpenNotify" /\ \A t \in Threads \ {u} : pc'[t] = pc[t]
      BY <1>0, GotoOf DEF OpenPublish, Threads
<1>a. app[u] \in App /\ app[u] # Nil /\ \A v \in Users \ {u} : app[v] # app[u]
      BY <1>0, <1>1, OwnedIsApp DEF Owners
<1>b. /\ \A a \in App : close'[a] = IF a = app[u] THEN FALSE ELSE close[a]
      /\ \A a \in App : buff'[a] = IF a = app[u] THEN TRUE ELSE buff[a]
      BY <1>0, <1>1 DEF Shapes
<1>c. u \notin Walking /\ u \notin Walking' /\ pc'[Worker] = pc[Worker]
      BY <1>1, <1>2 DEF Walking, Threads
<1>3. Shapes'
      BY <1>0, <1>1, <1>c DEF Shapes
<1>4. Iterators' /\ Amounts' /\ Owners'
      <2>1. \A t \in Threads : pc'[t] \in Looking => pc[t] \in Looking
            BY <1>2 DEF Looking
      <2>2. \A v \in Users : pc'[v] = pc[v] \/ app[v] # Nil
            BY <1>2, <1>a DEF Threads
      <2> QED
          BY <1>0, <1>1, <2>1, <2>2, IteratorsKept, OwnersKept DEF Amounts
<1>5. Closed'
      <2>1. ASSUME NEW v \in Users, pc'[v] \in Closing
            PROVE  v # u /\ pc[v] = pc'[v] /\ app[v] # app[u] /\ app[v] \in App
            <3>1. v # u /\ pc[v] = pc'[v]
                  BY <1>2, <2>1 DEF Closing, Threads
            <3>2. app[v] # Nil
                  BY <1>0, <2>1, <3>1 DEF Owners, Closing
            <3> QED
                BY <1>0, <1>a, <3>1, <3>2, OwnedIsApp
      <2>2. \A v \in Users : pc'[v] \in Closing => close'[app'[v]]
            BY <1>0, <1>1, <1>b, <2>1 DEF Closed
      <2>3. \A v \in Users : pc'[v] \in Drained => data'[app'[v]] = 0
            BY <1>0, <1>1, <2>1 DEF Closed, Drained, Closing
      <2>4. \A a \in App : ~close'[a] => buff'[a]
            BY <1>0, <1>b DEF Closed
      <2> QED
          BY <2>2, <2>3, <2>4 DEF Closed
<1>6. Balance'
      <2>1. \A v \in Users : (pc'[v] = "CloseWrite") = (pc[v] = "CloseWrite")
            BY <1>1, <1>2 DEF Threads
      <2> QED
          BY <1>0, <1>1, <1>c, <2>1, BalanceKept
<1>7. Uncrossed'
      <2>1. \A v \in Users : /\ v \in Walking' <=> v \in Walking
                             /\ v # u => pc'[v] = pc[v]
            BY <1>2, <1>c DEF Walking, Threads
      <2>2. ASSUME NEW v \in Users \ crossed, pc'[v] = "WalkLen" PROVE buff'[mlog'[v]]
            <3>1. pc[v] = "WalkLen" /\ buff[mlog[v]] /\ mlog[v] = list[at[v]] /\ at[v] <= Len(list)
                  BY <1>0, <1>2, <2>1, <2>2 DEF Uncrossed
            <3>2. v \in Threads /\ at[v] \in 1..Len(list)
                  BY <1>0, <3>1 DEF WalksOK, Threads, RoundInv, ListOK
            <3>3. mlog[v] \in App
                  BY <1>0, <3>1, <3>2 DEF RoundInv, ListOK, Created, App, Shapes
            <3> QED
                BY <1>1, <1>b, <3>1, <3>3
      <2>3. pc'[Worker] = "TaskLock" /\ Worker \notin crossed => buff'[mlog'[Worker]]
            <3> SUFFICES ASSUME pc[Worker] = "TaskLock", Worker \notin crossed
                         PROVE  buff'[mlog[Worker]]
                BY <1>1, <1>c
            <3>1. buff[mlog[Worker]] /\ mlog[Worker] \in App
                  BY <1>0 DEF Uncrossed, RoundInv, Round, Using, ListOK, Created, App, Shapes
            <3> QED
                BY <1>b, <3>1
      <2>4. \A v \in Users : v \notin Walking' => at'[v] = 1
            BY <1>0, <1>1, <2>1 DEF Uncrossed
      <2>5. \A v \in Users \ crossed :
               /\ pc'[v] = "WalkNext" => at'[v] <= Len(list') + 1
               /\ pc'[v] \in {"WalkClose", "WalkLen"} =>
                      at'[v] <= Len(list') /\ mlog'[v] = list'[at'[v]]
            BY <1>0, <1>1, <1>2, <2>1 DEF Uncrossed
      <2> QED
          BY <1>0, <1>1, <2>2, <2>3, <2>4, <2>5 DEF Uncrossed
<1>8. AllOver' /\ FaultsNeedOverlap'
      BY <1>1 DEF LifeInv, AllOver, FaultsNeedOverlap
<1> QED
    BY <1>3, <1>4, <1>5, <1>6, <1>7, <1>8 DEF LifeInv

\* append puts its record in a block of an appender that nobody else has.
LEMMA AppendLife == ASSUME LifeInv, alive, RoundInv', Ledger', NEW u \in Users, AppendWrite(u)
    PROVE LifeInv'
<1> USE DEF registry, walks, hist
<1>0. /\ RoundInv /\ Ledger /\ Shapes /\ Iterators /\ Amounts /\ Owners /\ Closed /\ Balance
      /\ Uncrossed /\ PcOK /\ WalksOK
      BY DEF LifeInv, RoundInv
<1> DEFINE a == app[u]
<1>1. /\ pc[u] = "idle" /\ a # Nil /\ appended[a] < MaxAppends /\ ~close[a]
      /\ bufLock' = [bufLock EXCEPT ![a] = u]
      /\ appended' = [appended EXCEPT ![a] = @ + 1]
      /\ \/ data' = [data EXCEPT ![a] = @ + 1] /\ replaced' = replaced
         \/ data' = data /\ replaced' = [replaced EXCEPT ![a] = @ + 1]
      /\ UNCHANGED <<alive, creates, list, spin, freed, dangling, crossed, close, buff, app, at,
                     mlog, carried, saved, failed>>
      BY DEF AppendWrite
<1>2. pc'[u] = "AppendStart" /\ \A t \in Threads \ {u} : pc'[t] = pc[t]
      BY <1>0, GotoOf DEF AppendWrite, Threads
<1>a. a \in App /\ a \notin freed /\ \A v \in Users \ {u} : app[v] # a
      BY <1>0, <1>1, OwnedIsApp DEF Owners
<1> HIDE DEF a
<1>b. /\ data[a] \in Nat /\ over[a] \in Nat /\ appended[a] \in Nat /\ data'[a] \in Nat
      /\ over' \in [App -> Nat] /\ appended'[a] = appended[a] + 1
      /\ \A b \in App \ {a} : data'[b] = data[b] /\ appended'[b] = appended[b]
      <2>1. over' \in [App -> Nat]
            BY DEF over, Ledger
      <2>2. /\ data[a] \in Nat /\ over[a] \in Nat /\ appended[a] \in Nat
            /\ appended'[a] = appended[a] + 1 /\ \A b \in App \ {a} : appended'[b] = appended[b]
            BY <1>0, <1>1, <1>a DEF Amounts
      <2>3. data'[a] \in Nat /\ \A b \in App \ {a} : data'[b] = data[b]
            BY <1>0, <1>1, <1>a DEF Amounts
      <2> QED
          BY <2>1, <2>2, <2>3
<1>o. /\ \A b \in App \ {a} : over'[b] = over[b]
      /\ data'[a] + over'[a] = data[a] + over[a] + 1
      <2>1. \A b \in App : /\ over[b] = saved[b] + failed[b] + replaced[b]
                           /\ over'[b] = saved[b] + failed[b] + replaced'[b]
                           /\ saved[b] \in Nat /\ failed[b] \in Nat /\ replaced[b] \in Nat
            BY <1>0, <1>1 DEF over, Ledger
      <2>2. /\ \A b \in App \ {a} : replaced'[b] = replaced[b]
            /\ \/ data'[a] = data[a] + 1 /\ replaced'[a] = replaced[a]
               \/ data'[a] = data[a] /\ replaced'[a] = replaced[a] + 1
            BY <1>0, <1>1, <1>a DEF Ledger, Amounts
      <2>3. \A b \in App \ {a} : over'[b] = over[b]
            BY <2>1, <2>2
      <2>4. data'[a] + over'[a] = data[a] + over[a] + 1
            <3>1. over[a] = saved[a] + failed[a] + replaced[a]
                    /\ over'[a] = saved[a] + failed[a] + replaced'[a]
                  BY <1>a, <2>1
            <3>2. saved[a] \in Nat /\ failed[a] \in Nat /\ replaced[a] \in Nat /\ data[a] \in Nat
                  BY <1>a, <1>b, <2>1
            <3> QED
                BY <2>2, <3>1, <3>2
      <2> QED
          BY <2>3, <2>4
<1>c. u \notin Walking /\ u \notin Walking' /\ pc'[Worker] = pc[Worker]
      BY <1>1, <1>2 DEF Walking, Threads
<1>d. \A v \in Users \ {u} : pc'[v] = pc[v]
      BY <1>2 DEF Threads
<1>3. Shapes'
      BY <1>0, <1>1, <1>c DEF Shapes
<1>4. Iterators' /\ Owners' /\ Uncrossed'
      <2>1. \A t \in Threads : pc'[t] \in Looking => pc[t] \in Looking
            BY <1>2 DEF Looking
      <2>2. \A v \in Users : pc'[v] = pc[v] \/ app[v] # Nil
            BY <1>1, <1>d DEF a
      <2> QED
          BY <1>0, <1>1, <1>c, <1>d, <2>1, <2>2, IteratorsKept, OwnersKept, UncrossedKept
<1>5. Amounts'
      <2>1. data' \in [App -> Nat] /\ appended' \in [App -> 0..MaxAppends]
            BY <1>0, <1>1, <1>a, <1>b DEF Amounts
      <2> QED
          BY <1>0, <1>1, <1>b, <2>1 DEF Amounts
<1>6. Closed'
      <2>1. ASSUME NEW v \in Users, pc'[v] \in Closing
            PROVE  v # u /\ pc[v] = pc'[v] /\ app[v] # a /\ app[v] \in App
            <3>1. v # u /\ pc[v] = pc'[v]
                  BY <1>2, <1>d, <2>1 DEF Closing
            <3>2. app[v] # Nil
                  BY <1>0, <2>1, <3>1 DEF Owners, Closing
            <3> QED
                BY <1>0, <1>a, <3>1, <3>2, OwnedIsApp
      <2>2. \A v \in Users : pc'[v] \in Closing => close'[app'[v]]
            BY <1>0, <1>1, <2>1 DEF Closed
      <2>3. ASSUME NEW v \in Users, pc'[v] \in Drained PROVE data'[app'[v]] = 0
            <3>1. pc'[v] \in Closing
                  BY <2>3 DEF Drained, Closing
            <3>2. pc[v] \in Drained /\ app[v] \in App \ {a}
                  BY <2>1, <2>3, <3>1
            <3> QED
                BY <1>0, <1>1, <1>b, <3>2 DEF Closed
      <2>4. \A b \in App : ~close'[b] => buff'[b]
            BY <1>0, <1>1 DEF Closed
      <2> QED
          BY <2>2, <2>3, <2>4 DEF Closed
<1>7. Balance'
      <2>1. ASSUME NEW b PROVE InWorker(b)' = InWorker(b)
            BY <1>1, <1>c DEF InWorker
      <2>2. ASSUME NEW v \in Users, pc'[v] = "CloseWrite"
            PROVE  (appended[app[v]] = data[app[v]] + over[app[v]] + InWorker(app[v]) + carried[v])'
            <3>1. v # u /\ pc[v] = "CloseWrite"
                  BY <1>2, <1>d, <2>2
            <3>2. app[v] \in App \ {a}
                  BY <1>0, <1>a, <3>1, OwnedIsApp DEF Owners
            <3> QED
                BY <1>0, <1>1, <1>b, <1>o, <2>1, <3>1, <3>2 DEF Balance
      <2>3. ASSUME NEW b \in App, \A v \in Users : app'[v] = b => pc'[v] # "CloseWrite"
            PROVE  (appended[b] = data[b] + over[b] + InWorker(b))'
            <3>1. \A v \in Users : app[v] = b => pc[v] # "CloseWrite"
                  BY <1>1, <1>d, <2>3
            <3>2. appended[b] = data[b] + over[b] + InWorker(b)
                  BY <1>0, <3>1 DEF Balance
            <3>3. CASE b # a
                  BY <1>1, <1>b, <1>o, <2>1, <3>2, <3>3
            <3>4. CASE b = a
                  <4>1. InWorker(a) \in Nat
                        BY <1>0 DEF InWorker, Amounts, Threads
                  <4> QED
                      BY <1>1, <1>b, <1>o, <2>1, <3>2, <3>4, <4>1
            <3> QED
                BY <3>3, <3>4
      <2>4. /\ carried'[Worker] # 0 => pc'[Worker] = "Write"
            /\ \A v \in Users : carried'[v] # 0 => pc'[v] = "CloseWrite"
            BY <1>0, <1>1, <1>c, <1>d DEF Balance
      <2> QED
          BY <2>2, <2>3, <2>4 DEF Balance
<1>8. AllOver' /\ FaultsNeedOverlap'
      <2>1. \A b \in freed : b \in App \ {a}
            BY <1>0, <1>a, DeletedIsApp
      <2> QED
          BY <1>1, <1>b, <1>o, <2>1 DEF LifeInv, AllOver, FaultsNeedOverlap
<1> QED
    BY <1>3, <1>4, <1>5, <1>6, <1>7, <1>8 DEF LifeInv

\* close shuts the appender, and notifies.
LEMMA CloseCallLife ==
    ASSUME LifeInv, alive, RoundInv', Ledger', NEW u \in Users, CloseCall(u) \/ CloseNotify(u)
    PROVE  LifeInv'
<1> USE DEF registry, blocks, walks, hist, over
<1>0. /\ RoundInv /\ Ledger /\ Shapes /\ Iterators /\ Amounts /\ Owners /\ Closed /\ Balance
      /\ Uncrossed /\ PcOK /\ WalksOK
      BY DEF LifeInv, RoundInv
<1>1. /\ pc[u] \in {"idle", "CloseNotify"} /\ app[u] # Nil
      /\ close' = [close EXCEPT ![app[u]] = TRUE] \/ (pc[u] = "CloseNotify" /\ close' = close)
      /\ UNCHANGED <<alive, creates, list, spin, freed, dangling, crossed, buff, bufLock, data, app,
                     at, mlog, carried, over, appended>>
      BY <1>0 DEF CloseCall, CloseNotify, Owners
<1>2. pc'[u] \in {"CloseNotify", "CloseTask"} /\ \A v \in Users \ {u} : pc'[v] = pc[v]
      BY <1>0, NudgedNot, NudgedBy DEF CloseCall, CloseNotify
<1>w. Nudged
      BY <1>0, NudgedNot, NudgedBy DEF CloseCall, CloseNotify
<1>a. app[u] \in App
      BY <1>0, <1>1, OwnedIsApp
<1>b. \A a \in App : close'[a] = close[a] \/ close'[a] = TRUE
      BY <1>0, <1>1, <1>a DEF Shapes
<1>c. close'[app[u]] = TRUE
      <2>1. CASE close' = [close EXCEPT ![app[u]] = TRUE]
            BY <2>1, <1>0, <1>a DEF Shapes
      <2>2. CASE pc[u] = "CloseNotify" /\ close' = close
            BY <2>2, <1>0, <1>a DEF Closed, Closing, Shapes
      <2> QED
          BY <1>1, <2>1, <2>2
<1>3. Shapes'
      <2>1. pc'[Worker] \in WorkerPc
            BY <1>0, <1>w DEF Nudged, Shapes, WorkerPc
      <2>2. close' \in [App -> BOOLEAN]
            BY <1>0, <1>1 DEF Shapes
      <2> QED
          BY <1>0, <1>1, <2>1, <2>2 DEF Shapes
<1>4. Iterators' /\ Owners' /\ Uncrossed'
      <2>1. \A t \in Threads : pc'[t] \in Looking => pc[t] \in Looking
            BY <1>2, <1>w DEF Looking, Threads, Nudged
      <2>2. \A v \in Users : pc'[v] = pc[v] \/ app[v] # Nil
            BY <1>1, <1>2
      <2>3. \A v \in Users : pc'[v] = pc[v] \/ (v \notin Walking /\ v \notin Walking')
            BY <1>1, <1>2 DEF Walking
      <2>4. pc'[Worker] = "TaskLock" => pc[Worker] = "TaskLock"
            BY <1>w DEF Nudged
      <2> QED
          BY <1>0, <1>1, <2>1, <2>2, <2>3, <2>4, IteratorsKept, OwnersKept, UncrossedKept
<1>5. Amounts'
      BY <1>0, <1>1 DEF Amounts
<1>6. Closed'
      <2>1. ASSUME NEW v \in Users, pc'[v] \in Closing PROVE close'[app'[v]]
            <3>1. CASE v = u
                  BY <1>1, <1>c, <3>1
            <3>2. CASE v # u
                  <4>1. pc[v] \in Closing /\ app[v] # Nil
                        BY <1>0, <1>2, <2>1, <3>2 DEF Owners, Closing
                  <4>2. app[v] \in App /\ close[app[v]]
                        BY <1>0, <4>1, OwnedIsApp DEF Closed
                  <4> QED
                      BY <1>1, <1>b, <4>2
            <3> QED
                BY <3>1, <3>2
      <2>2. \A v \in Users : pc'[v] \in Drained => data'[app'[v]] = 0
            BY <1>0, <1>1, <1>2 DEF Closed, Drained
      <2>3. \A a \in App : ~close'[a] => buff'[a]
            BY <1>0, <1>1, <1>b DEF Closed
      <2> QED
          BY <2>1, <2>2, <2>3 DEF Closed
<1>7. Balance'
      <2>1. \A v \in Users : (pc'[v] = "CloseWrite") = (pc[v] = "CloseWrite")
            BY <1>1, <1>2
      <2>2. (pc'[Worker] = "Write") = (pc[Worker] = "Write")
            BY <1>w DEF Nudged
      <2> QED
          BY <1>0, <1>1, <2>1, <2>2, BalanceKept
<1>8. AllOver' /\ FaultsNeedOverlap'
      BY <1>1 DEF LifeInv, AllOver, FaultsNeedOverlap
<1> QED
    BY <1>3, <1>4, <1>5, <1>6, <1>7, <1>8 DEF LifeInv

\* The task of close takes the whole block, under the mutex.
LEMMA CloseTaskLife == ASSUME LifeInv, alive, RoundInv', Ledger', NEW u \in Users, CloseTask(u)
    PROVE LifeInv'
<1> USE DEF registry, walks, hist
<1>0. /\ RoundInv /\ Ledger /\ Shapes /\ Iterators /\ Amounts /\ Owners /\ Closed /\ Balance
      /\ Uncrossed /\ PcOK /\ WalksOK
      BY DEF LifeInv, RoundInv
<1> DEFINE a == app[u]
<1>1. /\ pc[u] = "CloseTask" /\ a # Nil
      /\ carried' = [carried EXCEPT ![u] = data[a]] /\ data' = [data EXCEPT ![a] = 0]
      /\ UNCHANGED <<alive, creates, list, spin, freed, dangling, crossed, close, buff, bufLock,
                     app,
                     at, mlog, over, appended>>
      BY <1>0 DEF CloseTask, Take, Owners, over
<1>2. /\ pc'[u] = IF data[a] = 0 THEN "CloseFree" ELSE "CloseWrite"
      /\ \A t \in Threads \ {u} : pc'[t] = pc[t]
      BY <1>0, GotoOf DEF CloseTask, Threads
<1>a. a \in App /\ \A v \in Users \ {u} : app[v] # a
      BY <1>0, <1>1, OwnedIsApp DEF Owners
<1> HIDE DEF a
<1>b. /\ data[a] \in Nat /\ data'[a] = 0 /\ \A b \in App \ {a} : data'[b] = data[b]
      /\ carried'[u] = data[a] /\ \A t \in Threads \ {u} : carried'[t] = carried[t]
      /\ data' \in [App -> Nat] /\ carried' \in [Threads -> Nat]
      BY <1>0, <1>1, <1>a DEF Amounts, Threads
<1>c. u \notin Walking /\ u \notin Walking' /\ pc'[Worker] = pc[Worker]
        /\ carried'[Worker] = carried[Worker]
      BY <1>1, <1>2, <1>b DEF Walking, Threads
<1>d. \A v \in Users \ {u} : pc'[v] = pc[v] /\ carried'[v] = carried[v]
      BY <1>2, <1>b DEF Threads
<1>3. Shapes' /\ Amounts'
      BY <1>0, <1>1, <1>b, <1>c DEF Shapes, Amounts
<1>4. Iterators' /\ Owners' /\ Uncrossed'
      <2>1. \A t \in Threads : pc'[t] \in Looking => pc[t] \in Looking
            BY <1>2 DEF Looking
      <2>2. \A v \in Users : pc'[v] = pc[v] \/ app[v] # Nil
            BY <1>1, <1>d DEF a
      <2> QED
          BY <1>0, <1>1, <1>c, <1>d, <2>1, <2>2, IteratorsKept, OwnersKept, UncrossedKept
<1>6. Closed'
      <2>1. \A v \in Users : pc'[v] \in Closing => pc[v] \in Closing
            BY <1>1, <1>d DEF Closing
      <2>2. ASSUME NEW v \in Users, pc'[v] \in Drained PROVE data'[app'[v]] = 0
            <3>1. CASE v = u
                  BY <1>1, <1>b, <3>1 DEF a
            <3>2. CASE v # u
                  <4>1. pc[v] \in Drained /\ app[v] # Nil
                        BY <1>0, <1>d, <2>2, <3>2 DEF Owners, Drained
                  <4>2. app[v] \in App \ {a}
                        BY <1>0, <1>a, <3>2, <4>1, OwnedIsApp
                  <4> QED
                      BY <1>0, <1>1, <1>b, <4>1, <4>2 DEF Closed
            <3> QED
                BY <3>1, <3>2
      <2> QED
          BY <1>0, <1>1, <2>1, <2>2 DEF Closed
<1>7. Balance'
      <2>1. ASSUME NEW b PROVE InWorker(b)' = InWorker(b)
            BY <1>1, <1>c DEF InWorker
      <2>i. InWorker(a) \in Nat /\ over[a] \in Nat
            BY <1>0, <1>a DEF InWorker, Amounts, Threads
      <2>0. appended[a] = data[a] + over[a] + InWorker(a)
            <3>1. \A v \in Users : app[v] = a => pc[v] # "CloseWrite"
                  BY <1>1, <1>a
            <3> QED
                BY <1>0, <1>a, <3>1 DEF Balance
      <2>2. ASSUME NEW v \in Users, pc'[v] = "CloseWrite"
            PROVE  (appended[app[v]] = data[app[v]] + over[app[v]] + InWorker(app[v]) + carried[v])'
            <3>1. CASE v = u
                  <4>1. app'[v] = a /\ carried'[v] = data[a]
                        BY <1>1, <1>b, <3>1 DEF a
                  <4> QED
                      BY <1>1, <1>b, <2>0, <2>1, <2>i, <4>1
            <3>2. CASE v # u
                  <4>1. pc[v] = "CloseWrite"
                        BY <1>d, <2>2, <3>2
                  <4>2. app[v] \in App \ {a}
                        BY <1>0, <1>a, <3>2, <4>1, OwnedIsApp DEF Owners
                  <4> QED
                      BY <1>0, <1>1, <1>b, <1>d, <2>1, <3>2, <4>1, <4>2 DEF Balance
            <3> QED
                BY <3>1, <3>2
      <2>3. ASSUME NEW b \in App, \A v \in Users : app'[v] = b => pc'[v] # "CloseWrite"
            PROVE  (appended[b] = data[b] + over[b] + InWorker(b))'
            <3>1. CASE b = a
                  <4>1. data[a] = 0
                        BY <1>1, <1>2, <2>3, <3>1 DEF a
                  <4> QED
                      BY <1>1, <1>b, <2>0, <2>1, <3>1, <4>1
            <3>2. CASE b # a
                  <4>1. \A v \in Users : app[v] = b => pc[v] # "CloseWrite"
                        BY <1>1, <1>d, <2>3
                  <4> QED
                      BY <1>0, <1>1, <1>b, <2>1, <3>2, <4>1 DEF Balance
            <3> QED
                BY <3>1, <3>2
      <2>4. carried'[Worker] # 0 => pc'[Worker] = "Write"
            BY <1>0, <1>c DEF Balance
      <2>5. \A v \in Users : carried'[v] # 0 => pc'[v] = "CloseWrite"
            BY <1>0, <1>2, <1>b, <1>d DEF Balance
      <2> QED
          BY <2>2, <2>3, <2>4, <2>5 DEF Balance
<1>8. AllOver' /\ FaultsNeedOverlap'
      BY <1>1 DEF LifeInv, AllOver, FaultsNeedOverlap
<1> QED
    BY <1>3, <1>4, <1>6, <1>7, <1>8 DEF LifeInv

\* It writes what it has taken.
LEMMA CloseWriteLife == ASSUME LifeInv, alive, RoundInv', Ledger', NEW u \in Users, CloseWrite(u)
    PROVE LifeInv'
<1> USE DEF registry, blocks, walks
<1>0. /\ RoundInv /\ Ledger /\ Shapes /\ Iterators /\ Amounts /\ Owners /\ Closed /\ Balance
      /\ Uncrossed /\ PcOK /\ WalksOK
      BY DEF LifeInv, RoundInv
<1> DEFINE a == app[u]
<1>1. /\ pc[u] = "CloseWrite" /\ a # Nil
      /\ carried' = [carried EXCEPT ![u] = 0] /\ over' = [over EXCEPT ![a] = @ + carried[u]]
      /\ UNCHANGED <<alive, creates, list, spin, freed, dangling, crossed, close, buff, bufLock,
                     app,
                     at, mlog, data, appended>>
      <2>1. /\ pc[u] = "CloseWrite" /\ a # Nil /\ Save(u, a)
            /\ UNCHANGED <<alive, registry, blocks, app, walks>>
            BY <1>0 DEF CloseWrite, Owners
      <2>2. a \in App /\ u \in Threads
            BY <1>0, <2>1, OwnedIsApp DEF Threads
      <2> QED
          BY <1>0, <2>1, <2>2, SaveParts
<1>2. pc'[u] = "CloseFree" /\ \A t \in Threads \ {u} : pc'[t] = pc[t]
      BY <1>0, GotoOf DEF CloseWrite, Threads
<1>a. a \in App /\ a \notin freed /\ \A v \in Users \ {u} : app[v] # a
      BY <1>0, <1>1, OwnedIsApp DEF Owners
<1>e. appended[a] = data[a] + over[a] + InWorker(a) + carried[u]
      BY <1>0, <1>1 DEF Balance
<1> HIDE DEF a
<1>b. /\ over[a] \in Nat /\ carried[u] \in Nat /\ over'[a] = over[a] + carried[u]
      /\ \A b \in App \ {a} : over'[b] = over[b]
      /\ carried'[u] = 0 /\ \A t \in Threads \ {u} : carried'[t] = carried[t]
      /\ over' \in [App -> Nat] /\ carried' \in [Threads -> Nat]
      BY <1>0, <1>1, <1>a DEF Amounts, Threads
<1>c. u \notin Walking /\ u \notin Walking' /\ pc'[Worker] = pc[Worker]
        /\ carried'[Worker] = carried[Worker]
      BY <1>1, <1>2, <1>b DEF Walking, Threads
<1>d. \A v \in Users \ {u} : pc'[v] = pc[v] /\ carried'[v] = carried[v]
      BY <1>2, <1>b DEF Threads
<1>3. Shapes' /\ Amounts'
      BY <1>0, <1>1, <1>b, <1>c DEF Shapes, Amounts
<1>4. Iterators' /\ Owners' /\ Uncrossed' /\ Closed'
      <2>1. \A t \in Threads : pc'[t] \in Looking => pc[t] \in Looking
            BY <1>2 DEF Looking
      <2>2. \A v \in Users : pc'[v] = pc[v] \/ app[v] # Nil
            BY <1>1, <1>d DEF a
      <2>3. \A v \in Users : /\ pc'[v] \in Closing => pc[v] \in Closing
                             /\ pc'[v] \in Drained => pc[v] \in Drained
            BY <1>1, <1>d DEF Closing, Drained
      <2> QED
          BY <1>0, <1>1, <1>c, <1>d, <2>1, <2>2, <2>3,
             IteratorsKept, OwnersKept, UncrossedKept, ClosedKept
<1>7. Balance'
      <2>1. ASSUME NEW b PROVE InWorker(b)' = InWorker(b)
            BY <1>1, <1>c DEF InWorker
      <2>i. InWorker(a) \in Nat /\ data[a] \in Nat
            BY <1>0, <1>a DEF InWorker, Amounts, Threads
      <2>2. ASSUME NEW v \in Users, pc'[v] = "CloseWrite"
            PROVE  (appended[app[v]] = data[app[v]] + over[app[v]] + InWorker(app[v]) + carried[v])'
            <3>1. v # u /\ pc[v] = "CloseWrite"
                  BY <1>2, <1>d, <2>2
            <3>2. app[v] \in App \ {a}
                  BY <1>0, <1>a, <3>1, OwnedIsApp DEF Owners
            <3> QED
                BY <1>0, <1>1, <1>b, <1>d, <2>1, <3>1, <3>2 DEF Balance
      <2>3. ASSUME NEW b \in App, \A v \in Users : app'[v] = b => pc'[v] # "CloseWrite"
            PROVE  (appended[b] = data[b] + over[b] + InWorker(b))'
            <3>1. CASE b = a
                  BY <1>1, <1>b, <1>e, <2>1, <2>i, <3>1
            <3>2. CASE b # a
                  <4>1. \A v \in Users : app[v] = b => pc[v] # "CloseWrite"
                        BY <1>1, <1>d, <2>3, <3>2 DEF a
                  <4> QED
                      BY <1>0, <1>1, <1>b, <2>1, <3>2, <4>1 DEF Balance
            <3> QED
                BY <3>1, <3>2
      <2>4. carried'[Worker] # 0 => pc'[Worker] = "Write"
            BY <1>0, <1>c DEF Balance
      <2>5. \A v \in Users : carried'[v] # 0 => pc'[v] = "CloseWrite"
            BY <1>0, <1>b, <1>d DEF Balance
      <2> QED
          BY <2>2, <2>3, <2>4, <2>5 DEF Balance
<1>8. AllOver' /\ FaultsNeedOverlap'
      <2>1. \A b \in freed : b \in App \ {a}
            BY <1>0, <1>a, DeletedIsApp
      <2> QED
          BY <1>1, <1>b, <2>1 DEF LifeInv, AllOver, FaultsNeedOverlap
<1> QED
    BY <1>3, <1>4, <1>7, <1>8 DEF LifeInv

\* close deletes a block that its task has emptied; who was about to look at the block
\* has been crossed.
LEMMA CloseFreeLife == ASSUME LifeInv, alive, RoundInv', Ledger', NEW u \in Users, CloseFree(u)
    PROVE LifeInv'
<1> USE DEF walks, hist
<1>0. /\ RoundInv /\ Ledger /\ Shapes /\ Iterators /\ Amounts /\ Owners /\ Closed /\ Balance
      /\ Uncrossed /\ PcOK /\ WalksOK
      BY DEF LifeInv, RoundInv
<1> DEFINE a == app[u]
           hit == {t \in Threads : pc[t] \in {"WalkLen", "TaskLock"} /\ mlog[t] = a}
<1>1. /\ pc[u] = "CloseFree" /\ a # Nil
      /\ buff' = [buff EXCEPT ![a] = FALSE] /\ data' = [data EXCEPT ![a] = 0]
      /\ crossed' = crossed \cup hit
      /\ UNCHANGED <<alive, creates, list, spin, freed, dangling, close, bufLock, app,
                     at, mlog, carried, over, appended>>
      BY <1>0 DEF CloseFree, Owners, over
<1>2. pc'[u] = "DestroyErase" /\ \A t \in Threads \ {u} : pc'[t] = pc[t]
      BY <1>0, GotoOf DEF CloseFree, Threads
<1>a. a \in App /\ a \notin freed /\ close[a] /\ data[a] = 0
      BY <1>0, <1>1, OwnedIsApp DEF Owners, Closed, Closing, Drained
<1>b. data' = data
      BY <1>0, <1>1, <1>a DEF Amounts
<1>c. u \notin Walking /\ u \notin Walking' /\ pc'[Worker] = pc[Worker]
      BY <1>1, <1>2 DEF Walking, Threads
<1>d. \A v \in Users \ {u} : pc'[v] = pc[v]
      BY <1>2 DEF Threads
<1>f. \A b \in App : buff'[b] = IF b = a THEN FALSE ELSE buff[b]
      BY <1>0, <1>1, <1>a DEF Shapes
<1>2a. \A v \in Users : pc'[v] = pc[v] \/ app[v] # Nil
       BY <1>1, <1>d
<1>h. hit \subseteq Threads /\ \A t \in Threads : pc[t] \in {"WalkLen", "TaskLock"}
        /\ mlog[t] = a => t \in hit
      OBVIOUS
<1> HIDE DEF a, hit
<1>3. Shapes' /\ Amounts'
      BY <1>0, <1>1, <1>b, <1>c, <1>h DEF Shapes, Amounts
<1>4. Iterators' /\ Owners'
      <2>1. \A t \in Threads : pc'[t] \in Looking => pc[t] \in Looking
            BY <1>2 DEF Looking
      <2> QED
          BY <1>0, <1>1, <1>2a, <2>1, IteratorsKept, OwnersKept
<1>5. Closed'
      <2>1. \A v \in Users : /\ pc'[v] \in Closing => pc[v] \in Closing
                             /\ pc'[v] \in Drained => pc[v] \in Drained
            BY <1>1, <1>d DEF Closing, Drained
      <2>2. \A b \in App : ~close'[b] => buff'[b]
            BY <1>0, <1>1, <1>a, <1>f DEF Closed
      <2> QED
          BY <1>0, <1>1, <1>b, <2>1, <2>2 DEF Closed
<1>6. Balance'
      <2>1. \A v \in Users : (pc'[v] = "CloseWrite") = (pc[v] = "CloseWrite")
            BY <1>1, <1>2, <1>d
      <2> QED
          BY <1>0, <1>1, <1>b, <1>c, <2>1, BalanceKept
<1>7. Uncrossed'
      <2>1. \A v \in Users : v \in Walking' <=> v \in Walking
            BY <1>d, <1>c DEF Walking
      <2>2. ASSUME NEW v \in Users \ crossed', pc'[v] = "WalkLen" PROVE buff'[mlog'[v]]
            <3>1. v # u /\ pc[v] = "WalkLen" /\ v \in Threads /\ v \notin crossed
                  BY <1>1, <1>2, <1>d, <2>2 DEF Threads
            <3>2. buff[mlog[v]] /\ mlog[v] = list[at[v]] /\ at[v] <= Len(list) /\ mlog[v] # a
                  BY <1>0, <1>1, <1>h, <2>2, <3>1 DEF Uncrossed
            <3>3. at[v] \in 1..Len(list)
                  BY <1>0, <3>1, <3>2 DEF WalksOK, RoundInv, ListOK
            <3>4. mlog[v] \in App
                  BY <1>0, <3>2, <3>3 DEF RoundInv, ListOK, Created, App, Shapes
            <3> QED
                BY <1>1, <1>f, <3>2, <3>4
      <2>3. ASSUME pc'[Worker] = "TaskLock", Worker \notin crossed' PROVE buff'[mlog'[Worker]]
            <3>1. pc[Worker] = "TaskLock" /\ Worker \notin crossed /\ mlog[Worker] # a
                  BY <1>1, <1>c, <1>h, <2>3 DEF Threads
            <3>2. buff[mlog[Worker]] /\ mlog[Worker] \in App
                  BY <1>0, <3>1 DEF Uncrossed, RoundInv, Round, Using, ListOK, Created, App, Shapes
            <3> QED
                BY <1>1, <1>f, <3>1, <3>2
      <2>4. \A v \in Users : v \notin Walking' => at'[v] = 1
            BY <1>0, <1>1, <2>1 DEF Uncrossed
      <2>5. ASSUME NEW v \in Users \ crossed'
            PROVE  /\ pc'[v] = "WalkNext" => at'[v] <= Len(list') + 1
                   /\ pc'[v] \in {"WalkClose", "WalkLen"} =>
                          at'[v] <= Len(list') /\ mlog'[v] = list'[at'[v]]
            BY <1>0, <1>1, <1>2, <1>d DEF Uncrossed
      <2> QED
          BY <1>0, <1>1, <2>2, <2>3, <2>4, <2>5 DEF Uncrossed
<1>8. AllOver' /\ FaultsNeedOverlap'
      BY <1>1 DEF LifeInv, AllOver, FaultsNeedOverlap
<1> QED
    BY <1>3, <1>4, <1>5, <1>6, <1>7, <1>8 DEF LifeInv

\* destroy takes the appender out of the list: every walk has been crossed.
LEMMA EraseLife == ASSUME LifeInv, alive, RoundInv', Ledger', NEW u \in Users, DestroyErase(u)
    PROVE LifeInv'
<1> USE DEF blocks, walks, hist
<1>0. /\ RoundInv /\ Ledger /\ Shapes /\ Iterators /\ Amounts /\ Owners /\ Closed /\ Balance
      /\ Uncrossed /\ PcOK /\ WalksOK
      BY DEF LifeInv, RoundInv
<1>1. /\ pc[u] = "DestroyErase" /\ app[u] # Nil /\ crossed' = crossed \cup Walking
      /\ UNCHANGED <<alive, creates, spin, freed, dangling, close, buff, data, bufLock, app,
                     at, mlog, carried, over, appended>>
      BY <1>0 DEF DestroyErase, Owners, over
<1>2. pc'[u] = "DestroyFree" /\ \A t \in Threads \ {u} : pc'[t] = pc[t]
      BY <1>0, GotoOf DEF DestroyErase, Threads
<1>c. u \notin Walking /\ u \notin Walking' /\ pc'[Worker] = pc[Worker]
      BY <1>1, <1>2 DEF Walking, Threads
<1>d. \A v \in Users \ {u} : pc'[v] = pc[v]
      BY <1>2 DEF Threads
<1>3. Shapes'
      <2>1. PICK k \in 1..Len(list) : list' = RemoveAt(list, k)
            BY DEF DestroyErase
      <2>2. Len(list') = Len(list) - 1
            BY <1>0, <2>1, RemoveAtParts DEF RoundInv, ListOK
      <2>3. Len(list') <= creates'
            BY <1>0, <1>1, <2>2 DEF Shapes, RoundInv, ListOK
      <2>4. crossed' \subseteq Threads
            BY <1>0, <1>1 DEF Shapes, Walking, Threads
      <2> QED
          BY <1>0, <1>1, <1>c, <2>3, <2>4 DEF Shapes
<1>4. Iterators' /\ Amounts' /\ Owners' /\ Closed' /\ Balance'
      <2>1. \A t \in Threads : pc'[t] \in Looking => pc[t] \in Looking
            BY <1>2 DEF Looking
      <2>2. \A v \in Users : pc'[v] = pc[v] \/ app[v] # Nil
            BY <1>1, <1>d
      <2>3. \A v \in Users : /\ pc'[v] \in Closing => pc[v] \in Closing
                             /\ pc'[v] \in Drained => pc[v] \in Drained
            BY <1>1, <1>d DEF Closing, Drained
      <2>4. \A v \in Users : (pc'[v] = "CloseWrite") = (pc[v] = "CloseWrite")
            BY <1>1, <1>2, <1>d
      <2>5. Amounts'
            BY <1>0, <1>1 DEF Amounts
      <2> QED
          BY <1>0, <1>1, <1>c, <2>1, <2>2, <2>3, <2>4, <2>5,
             IteratorsKept, OwnersKept, ClosedKept, BalanceKept
<1>5. Uncrossed'
      <2>1. \A v \in Users : v \in Walking' <=> v \in Walking
            BY <1>d, <1>c DEF Walking
      <2>2. \A v \in Users : pc'[v] \in {"WalkNext", "WalkClose", "WalkLen"} => v \in crossed'
            BY <1>1, <2>1 DEF Walking
      <2> QED
          BY <1>0, <1>1, <1>c, <2>1, <2>2 DEF Uncrossed
<1>6. AllOver' /\ FaultsNeedOverlap'
      BY <1>1 DEF LifeInv, AllOver, FaultsNeedOverlap
<1> QED
    BY <1>3, <1>4, <1>5, <1>6 DEF LifeInv

\* The appender that is deleted has an empty block, nobody is writing records of it,
\* and it is not the one the shared thread works on: its records are all in the file.
LEMMA DestroyFreeLife ==
    ASSUME LifeInv, alive, RoundInv', Ledger', NEW u \in Users, DestroyFree(u)
    PROVE  LifeInv'
<1> USE DEF blocks, walks, hist
<1>0. /\ RoundInv /\ Ledger /\ Shapes /\ Iterators /\ Amounts /\ Owners /\ Closed /\ Balance
      /\ Uncrossed /\ PcOK /\ WalksOK
      BY DEF LifeInv, RoundInv
<1> DEFINE a == app[u]
<1>1. /\ pc[u] = "DestroyFree" /\ a # Nil
      /\ freed' = freed \cup {a} /\ app' = [app EXCEPT ![u] = Nil]
      /\ UNCHANGED <<alive, creates, list, spin, dangling, crossed, close, buff, data, bufLock,
                     at, mlog, carried, over, appended>>
      BY <1>0 DEF DestroyFree, Owners, over
<1>2. pc'[u] = "idle" /\ \A t \in Threads \ {u} : pc'[t] = pc[t]
      BY <1>0, GotoOf DEF DestroyFree, Threads
<1>a. a \in App /\ data[a] = 0 /\ \A v \in Users \ {u} : app[v] # a
      BY <1>0, <1>1, OwnedIsApp DEF Owners, Closed, Drained
<1>l. \A i \in 1..Len(list) : list[i] # a
      BY <1>0, <1>1 DEF RoundInv, Unlisted, Outside
<1>m. app'[u] = Nil /\ \A v \in Users \ {u} : app'[v] = app[v]
      BY <1>0, <1>1 DEF RoundInv, Unlisted
<1>c. u \notin Walking /\ u \notin Walking' /\ pc'[Worker] = pc[Worker]
      BY <1>1, <1>2 DEF Walking, Threads
<1>d. \A v \in Users \ {u} : pc'[v] = pc[v]
      BY <1>2 DEF Threads
<1> HIDE DEF a
<1>3. Shapes' /\ Amounts'
      BY <1>0, <1>1, <1>c DEF Shapes, Amounts
<1>4. Iterators' /\ Uncrossed' /\ Balance'
      <2>1. \A t \in Threads : pc'[t] \in Looking => pc[t] \in Looking
            BY <1>2 DEF Looking
      <2>2. \A v \in Users : (pc'[v] = "CloseWrite") = (pc[v] = "CloseWrite")
            BY <1>1, <1>2, <1>d
      <2>3. \A v \in Users : pc[v] = "CloseWrite" => app'[v] = app[v]
            BY <1>1, <1>m
      <2> QED
          BY <1>0, <1>1, <1>c, <1>d, <2>1, <2>2, <2>3, IteratorsKept, UncrossedKept, BalanceKept
<1>5. Owners'
      BY <1>0, <1>1, <1>2, <1>a, <1>d, <1>m DEF Owners
<1>6. Closed'
      <2>1. \A v \in Users : pc'[v] \in Closing => v # u /\ pc'[v] = pc[v] /\ app'[v] = app[v]
            BY <1>2, <1>d, <1>m DEF Closing
      <2>2. \A v \in Users : pc'[v] \in Drained => pc'[v] \in Closing
            BY DEF Closing, Drained
      <2> QED
          BY <1>0, <1>1, <2>1, <2>2 DEF Closed
<1>7. AllOver'
      <2>1. InWorker(a) = 0
            BY <1>0, <1>l DEF InWorker, RoundInv, Round, Using
      <2>2. appended[a] = data[a] + over[a] + InWorker(a)
            <3>1. \A v \in Users : app[v] = a => pc[v] # "CloseWrite"
                  BY <1>1, <1>a
            <3> QED
                BY <1>0, <1>a, <3>1 DEF Balance
      <2>3. over[a] = appended[a]
            BY <1>0, <1>a, <2>1, <2>2 DEF Amounts
      <2> QED
          BY <1>1, <2>3 DEF LifeInv, AllOver
<1>8. FaultsNeedOverlap'
      BY <1>1 DEF FaultsNeedOverlap
<1> QED
    BY <1>3, <1>4, <1>5, <1>6, <1>7, <1>8 DEF LifeInv

\* What a walk does to itself: only one that something has crossed reads what is not
\* there, and a process that has faulted stays as it was.
LEMMA CalmLife == ASSUME LifeInv, alive, RoundInv', Ledger', NEW u \in Users, Calm(u) PROVE LifeInv'
<1> USE DEF registry, blocks, walks, hist, over
<1>0. /\ RoundInv /\ Ledger /\ Shapes /\ Iterators /\ Amounts /\ Owners /\ Closed /\ Balance
      /\ Uncrossed /\ PcOK /\ WalksOK
      BY DEF LifeInv, RoundInv
<1>1. /\ UNCHANGED <<creates, list, spin, freed, close, buff, data, app, carried, appended, over>>
      /\ pc[u] \in Calming /\ pc'[u] \in Calming \cup {"idle"} /\ app[u] # Nil
      BY <1>0, CalmFrame DEF Calming, Owners
<1>2. /\ Nudged /\ \A v \in Users \ {u} : pc'[v] = pc[v]
      /\ \A t \in Threads \ {u} : at'[t] = at[t] /\ mlog'[t] = mlog[t]
      <2>1. StepOf(u)
            BY DEF Calm, StepOf, UserMove
      <2> QED
          BY <1>0, <2>1, UserFrame
<1>t. u \in Threads /\ Worker \in Threads /\ u # Worker /\ \A v \in Users : v \in Threads
      BY DEF Threads
<1>3. Owners' /\ Closed' /\ Balance' /\ Amounts' /\ AllOver'
      <2>1. \A v \in Users : pc'[v] = pc[v] \/ app[v] # Nil
            BY <1>1, <1>2
      <2>2. \A v \in Users : /\ pc'[v] \in Closing => pc[v] \in Closing
                             /\ pc'[v] \in Drained => pc[v] \in Drained
            BY <1>1, <1>2 DEF Closing, Drained, Calming
      <2>3. \A v \in Users : (pc'[v] = "CloseWrite") = (pc[v] = "CloseWrite")
            BY <1>1, <1>2 DEF Calming
      <2>4. (pc'[Worker] = "Write") = (pc[Worker] = "Write") /\ mlog'[Worker] = mlog[Worker]
            BY <1>2, <1>t DEF Nudged
      <2>5. Amounts' /\ AllOver'
            BY <1>0, <1>1 DEF Amounts, LifeInv, AllOver
      <2> QED
          BY <1>0, <1>1, <2>1, <2>2, <2>3, <2>4, <2>5, OwnersKept, ClosedKept, BalanceKept
<1>4. ASSUME alive' = alive, crossed' \subseteq crossed, dangling' \subseteq dangling,
             bufLock' = bufLock \/ bufLock' = [bufLock EXCEPT ![app[u]] = NoThread]
      PROVE  Shapes' /\ FaultsNeedOverlap'
      <2>1. pc'[Worker] \in WorkerPc
            BY <1>0, <1>2 DEF Shapes, Nudged, WorkerPc
      <2>2. bufLock' \in [App -> Users \cup {NoThread}]
            BY <1>0, <1>4 DEF Shapes
      <2> QED
          BY <1>0, <1>1, <1>4, <2>1, <2>2 DEF Shapes, FaultsNeedOverlap
<1>5. ASSUME at'[u] <= creates + 1, pc'[u] \in Looking => at'[u] <= creates,
             mlog' \in [Threads -> Created \cup {Nil}]
      PROVE  Iterators'
      <2>1. \A t \in Threads \ {u} : pc'[t] \in Looking => pc[t] \in Looking
            BY <1>2, <1>t DEF Nudged, Looking, Threads
      <2> QED
          BY <1>0, <1>1, <1>2, <1>5, <2>1 DEF Iterators, Created
<1>6. ASSUME dangling' \subseteq crossed', crossed \ {u} \subseteq crossed',
             u \notin Walking' => at'[u] = 1,
             u \notin crossed' =>
                /\ pc'[u] = "WalkNext" => at'[u] <= Len(list) + 1
                /\ pc'[u] \in {"WalkClose", "WalkLen"} =>
                       at'[u] <= Len(list) /\ mlog'[u] = list[at'[u]]
                /\ pc'[u] = "WalkLen" => buff[mlog'[u]]
      PROVE  Uncrossed'
      <2>1. \A v \in Users \ {u} : /\ v \in Walking' <=> v \in Walking
                                   /\ v \notin crossed' => v \notin crossed
                                   /\ at'[v] = at[v] /\ mlog'[v] = mlog[v] /\ pc'[v] = pc[v]
            BY <1>2, <1>6, <1>t DEF Walking
      <2>2. pc'[Worker] = "TaskLock" /\ Worker \notin crossed' => buff'[mlog'[Worker]]
            BY <1>0, <1>1, <1>2, <1>6, <1>t DEF Uncrossed, Nudged
      <2>3. \A v \in Users : v \notin Walking' => at'[v] = 1
            BY <1>0, <1>6, <2>1 DEF Uncrossed
      <2>4. ASSUME NEW v \in Users \ crossed'
            PROVE  /\ pc'[v] = "WalkNext" => at'[v] <= Len(list') + 1
                   /\ pc'[v] \in {"WalkClose", "WalkLen"} =>
                          at'[v] <= Len(list') /\ mlog'[v] = list'[at'[v]]
                   /\ pc'[v] = "WalkLen" => buff'[mlog'[v]]
            BY <1>0, <1>1, <1>6, <2>1, <2>4 DEF Uncrossed
      <2> QED
          BY <1>6, <2>2, <2>3, <2>4 DEF Uncrossed
<1>e. ASSUME NEW w \in {pc[Worker], Notified}, WalkEnds(u, w), alive' = alive PROVE LifeInv'
      <2>1. /\ pc'[u] = "idle" /\ at'[u] = 1 /\ mlog'[u] = Nil
            /\ dangling' = dangling \ {u} /\ crossed' = crossed \ {u}
            /\ bufLock' = [bufLock EXCEPT ![app[u]] = NoThread]
            BY <1>0, <1>e, WalkEndsParts
      <2>2. mlog' \in [Threads -> Created \cup {Nil}]
            BY <1>0, <1>e DEF WalkEnds, Iterators
      <2>3. Shapes' /\ FaultsNeedOverlap'
            BY <1>4, <1>e, <2>1
      <2>4. Iterators'
            BY <1>0, <1>5, <2>1, <2>2 DEF Looking, RoundInv, ListOK
      <2>5. Uncrossed'
            BY <1>0, <1>6, <2>1 DEF Uncrossed
      <2> QED
          BY <1>3, <2>3, <2>4, <2>5 DEF LifeInv
<1>g. ASSUME WalkGoesOn(u), pc[u] \in {"WalkClose", "WalkLen"}, alive' = alive PROVE LifeInv'
      <2>1. /\ pc'[u] = "WalkNext" /\ at'[u] = at[u] + 1
            /\ UNCHANGED <<mlog, bufLock, dangling, crossed>>
            BY <1>0, <1>g, WalkGoesOnParts
      <2>2. at[u] \in Nat /\ at[u] <= creates /\ creates \in Nat /\ Len(list) \in Nat
            BY <1>0, <1>g, <1>t DEF Iterators, Looking, WalksOK, RoundInv, ListOK
      <2>3. Shapes' /\ FaultsNeedOverlap'
            BY <1>4, <1>g, <2>1
      <2>4. Iterators'
            BY <1>0, <1>5, <2>1, <2>2 DEF Looking, Iterators
      <2>5. Uncrossed'
            <3>1. u \in Walking'
                  BY <2>1 DEF Walking
            <3>2. u \notin crossed => at'[u] <= Len(list) + 1
                  BY <1>0, <1>g, <2>1, <2>2 DEF Uncrossed
            <3> QED
                BY <1>0, <1>6, <2>1, <3>1, <3>2 DEF Uncrossed
      <2> QED
          BY <1>3, <2>3, <2>4, <2>5 DEF LifeInv
<1>7. CASE OpenNotify(u) \/ AppendStart(u)
      <2>1. /\ pc[u] \in {"OpenNotify", "AppendStart"}
            /\ pc'[u] = IF pc[u] = "OpenNotify" THEN "idle" ELSE "WalkNext"
            /\ UNCHANGED <<alive, bufLock, dangling, crossed, at, mlog>>
            BY <1>0, <1>7, NudgedBy DEF OpenNotify, AppendStart
      <2>2. at[u] = 1 /\ u \notin Walking
            BY <1>0, <2>1 DEF Uncrossed, Walking
      <2>3. Shapes' /\ FaultsNeedOverlap'
            BY <1>4, <2>1
      <2>4. Iterators'
            BY <1>0, <1>5, <2>1, <2>2 DEF Looking, Iterators, RoundInv, ListOK
      <2>5. Uncrossed'
            BY <1>0, <1>6, <2>1, <2>2 DEF Uncrossed, RoundInv, ListOK
      <2> QED
          BY <1>3, <2>3, <2>4, <2>5 DEF LifeInv
<1>8. CASE WalkNext(u)
      <2>1. CASE WalkEnds(u, pc[Worker])
            BY <1>8, <2>1, <1>e DEF WalkNext
      <2>2. CASE /\ at[u] <= Len(list) /\ mlog' = [mlog EXCEPT ![u] = list[at[u]]]
                 /\ Goto(u, "WalkClose") /\ UNCHANGED <<at, bufLock, dangling, crossed>>
            <3>1. pc'[u] = "WalkClose" /\ alive' = alive
                  BY <1>0, <1>8, <2>2, NudgedNot DEF WalkNext
            <3>2. at[u] \in 1..Len(list) /\ list[at[u]] \in Created /\ at[u] <= creates
                  BY <1>0, <1>t, <2>2 DEF WalksOK, RoundInv, ListOK, Shapes
            <3>3. mlog' \in [Threads -> Created \cup {Nil}] /\ mlog'[u] = list[at[u]]
                  BY <1>0, <1>t, <2>2, <3>2 DEF Iterators
            <3>4. Shapes' /\ FaultsNeedOverlap'
                  BY <1>4, <2>2, <3>1
            <3>5. Iterators'
                  BY <1>0, <1>5, <1>t, <2>2, <3>2, <3>3 DEF Iterators
            <3>6. Uncrossed'
                  <4>1. u \in Walking'
                        BY <3>1 DEF Walking
                  <4> QED
                      BY <1>0, <1>6, <2>2, <3>1, <3>3, <4>1 DEF Uncrossed
            <3> QED
                BY <1>3, <3>4, <3>5, <3>6 DEF LifeInv
      <2> QED
          BY <1>8, <2>1, <2>2 DEF WalkNext
<1>9. CASE WalkClose(u)
      <2>1. CASE WalkGoesOn(u)
            BY <1>9, <2>1, <1>g DEF WalkClose
      <2>2. CASE ~WalkGoesOn(u)
            <3>1. /\ pc[u] = "WalkClose" /\ ~close[mlog[u]] /\ Goto(u, "WalkLen")
                  /\ UNCHANGED <<alive, at, mlog, bufLock, dangling, crossed>>
                  BY <1>9, <2>2 DEF WalkClose
            <3>2. pc'[u] = "WalkLen"
                  BY <1>0, <3>1, NudgedNot
            <3>3. Shapes' /\ FaultsNeedOverlap'
                  BY <1>4, <3>1
            <3>4. at[u] <= creates /\ at[u] \in Nat /\ at[u] >= 1 /\ creates \in Nat
                  BY <1>0, <1>t, <3>1 DEF Iterators, Looking, WalksOK, RoundInv, ListOK
            <3>5. Iterators'
                  BY <1>0, <1>5, <3>1, <3>4 DEF Iterators
            <3>6. Uncrossed'
                  <4>1. u \in Walking'
                        BY <3>2 DEF Walking
                  <4>2. ASSUME u \notin crossed
                        PROVE  at[u] <= Len(list) /\ mlog[u] = list[at[u]] /\ buff[mlog[u]]
                        <5>1. at[u] <= Len(list) /\ mlog[u] = list[at[u]]
                              BY <1>0, <3>1, <4>2 DEF Uncrossed
                        <5>2. at[u] \in 1..Len(list)
                              BY <1>0, <3>4, <5>1 DEF RoundInv, ListOK
                        <5>3. mlog[u] \in App
                              BY <1>0, <5>1, <5>2 DEF RoundInv, ListOK, Created, App, Shapes
                        <5> QED
                            BY <1>0, <3>1, <5>1, <5>3 DEF Closed
                  <4> QED
                      BY <1>0, <1>6, <3>1, <3>2, <4>1, <4>2 DEF Uncrossed
            <3> QED
                BY <1>3, <3>3, <3>5, <3>6 DEF LifeInv
      <2> QED
          BY <2>1, <2>2
<1>10. CASE WalkLen(u)
      <2>1. CASE WalkEnds(u, Notified)
            BY <1>10, <2>1, <1>e DEF WalkLen
      <2>2. CASE WalkGoesOn(u)
            BY <1>10, <2>2, <1>g DEF WalkLen
      <2> QED
          BY <1>10, <2>1, <2>2 DEF WalkLen
<1>11. CASE Stray(u)
      <2>1. CASE Die
            <3>1. u \in crossed
                  <4> SUFFICES ASSUME u \notin crossed PROVE FALSE
                      OBVIOUS
                  <4>1. u \notin dangling
                        BY <1>0 DEF Uncrossed
                  <4>2. pc[u] = "WalkNext" => at[u] <= Len(list) + 1
                        BY <1>0 DEF Uncrossed
                  <4>3. pc[u] \in {"WalkClose", "WalkLen"} => mlog[u] \notin freed
                        <5> SUFFICES ASSUME pc[u] \in {"WalkClose", "WalkLen"}
                                     PROVE  mlog[u] \notin freed
                            OBVIOUS
                        <5>1. at[u] <= Len(list) /\ mlog[u] = list[at[u]]
                              BY <1>0 DEF Uncrossed
                        <5>2. at[u] \in 1..Len(list)
                              BY <1>0, <1>t, <5>1 DEF WalksOK, RoundInv, ListOK
                        <5> QED
                            BY <1>0, <5>1, <5>2 DEF RoundInv, ListOK
                  <4>4. pc[u] = "WalkLen" => buff[mlog[u]]
                        BY <1>0 DEF Uncrossed
                  <4>5. at[u] \in Nat /\ Len(list) \in Nat
                        BY <1>0, <1>t DEF WalksOK, RoundInv, ListOK
                  <4> QED
                      BY <1>11, <4>1, <4>2, <4>3, <4>4, <4>5 DEF Stray
            <3>2. /\ UNCHANGED <<pc, at, mlog, dangling, crossed, bufLock>> /\ alive' = FALSE
                  BY <2>1 DEF Die
            <3>3. Shapes' /\ Iterators' /\ Uncrossed'
                  BY <1>0, <1>1, <3>2 DEF Shapes, Iterators, Uncrossed, Created, Walking
            <3>4. FaultsNeedOverlap'
                  BY <3>1, <3>2 DEF FaultsNeedOverlap
            <3> QED
                BY <1>3, <3>3, <3>4 DEF LifeInv
      <2>2. CASE ~Die
            BY <1>11, <2>2, <1>e DEF Stray
      <2> QED
          BY <2>1, <2>2
<1> QED
    BY <1>7, <1>8, <1>9, <1>10, <1>11 DEF Calm

-----------------------------------------------------------------------------
(* The steps of the shared thread.                                             *)

\* Going round the list, it moves no record; it has looked for a block before it asks
\* for the mutex.
LEMMA WorkerCalmLife == ASSUME LifeInv, alive, RoundInv', Ledger', WorkerCalm PROVE LifeInv'
<1> USE DEF registry, blocks, walks, hist, over
<1>0. /\ RoundInv /\ Ledger /\ Shapes /\ Iterators /\ Amounts /\ Owners /\ Closed /\ Balance
      /\ Uncrossed /\ PcOK /\ WalksOK
      BY DEF LifeInv, RoundInv
<1>1. /\ UNCHANGED <<alive, data, carried, over>> /\ pc[Worker] # "Write" /\ pc'[Worker] # "Write"
      BY <1>0, WorkerCalmFrame
<1>2. /\ \A v \in Users : pc'[v] = pc[v] /\ at'[v] = at[v] /\ mlog'[v] = mlog[v]
      /\ UNCHANGED <<creates, list, freed, dangling, crossed, close, buff, bufLock, app, appended>>
      <2>1. WorkerStepOf
            BY DEF WorkerCalm, WorkerStepOf, WorkerMove, WorkerAcquire
      <2> QED
          BY <1>0, <2>1, WorkerFrame
<1>t. Worker \in Threads /\ Worker \notin Users /\ Threads = Users \cup {Worker}
      BY DEF Threads
<1>3. Amounts' /\ Owners' /\ Closed' /\ Balance' /\ AllOver' /\ FaultsNeedOverlap'
      <2>1. Amounts' /\ AllOver' /\ FaultsNeedOverlap'
            BY <1>0, <1>1, <1>2 DEF Amounts, LifeInv, AllOver, FaultsNeedOverlap
      <2> QED
          BY <1>0, <1>1, <1>2, <2>1, OwnersKept, ClosedKept, BalanceKept
<1>4. ASSUME at'[Worker] <= creates + 1, pc'[Worker] \in Looking => at'[Worker] <= creates,
             mlog' \in [Threads -> Created \cup {Nil}],
             pc'[Worker] \in WorkerPc, spin' \in {Worker, NoThread},
             pc'[Worker] = "TaskLock" => buff[mlog'[Worker]]
      PROVE  LifeInv'
      <2>1. Shapes'
            BY <1>0, <1>1, <1>2, <1>4 DEF Shapes
      <2>2. Iterators'
            BY <1>0, <1>2, <1>4, <1>t DEF Iterators, Created
      <2>3. Uncrossed'
            BY <1>0, <1>2, <1>4 DEF Uncrossed, Walking
      <2> QED
          BY <1>3, <2>1, <2>2, <2>3 DEF LifeInv
<1>w. at[Worker] \in Nat /\ at[Worker] <= creates + 1 /\ creates \in Nat /\ Len(list) \in Nat
      BY <1>0, <1>t DEF WalksOK, Iterators, RoundInv, ListOK
<1>n. ASSUME WorkerNext, at[Worker] <= creates, UNCHANGED spin PROVE LifeInv'
      <2>1. pc'[Worker] = "Scan" /\ at'[Worker] = at[Worker] + 1
            BY <1>0, <1>n, WorkerNextParts
      <2>2. mlog' \in [Threads -> Created \cup {Nil}]
            BY <1>0, <1>n DEF WorkerNext, Iterators
      <2> QED
          BY <1>0, <1>4, <1>n, <1>w, <2>1, <2>2 DEF Looking, WorkerPc, Shapes
<1>g. ASSUME NEW l \in WorkerPc \ (Looking \cup {"TaskLock"}), Goto(Worker, l),
             at' = at \/ at' = [at EXCEPT ![Worker] = 1], UNCHANGED mlog,
             spin' \in {spin, Worker, NoThread}
      PROVE  LifeInv'
      <2>1. pc'[Worker] = l
            BY <1>0, <1>g, WorkerGoesParts
      <2>2. at'[Worker] <= creates + 1
            BY <1>0, <1>g, <1>t, <1>w DEF WalksOK
      <2>3. mlog' \in [Threads -> Created \cup {Nil}]
            BY <1>0, <1>g DEF Iterators
      <2> QED
          BY <1>0, <1>4, <1>g, <2>1, <2>2, <2>3 DEF Looking, Shapes
<1> USE DEF WorkerPc, Looking
<1>5. CASE WorkerTop \/ WorkerLeaves \/ WorkerWaits \/ WorkerTimesOut
      BY <1>5, <1>g DEF WorkerTop, ScanHolder, WorkerLeaves, WorkerWaits, WorkerTimesOut, WorkerGoes
<1>6. CASE WorkerScan
      <2>1. CASE /\ Goto(Worker, "BeforeWait") /\ spin' = ScanRelease
                 /\ at' = [at EXCEPT ![Worker] = 1] /\ UNCHANGED mlog
            BY <2>1, <1>g DEF ScanRelease
      <2>2. CASE WorkerNext /\ at[Worker] <= Len(list) /\ UNCHANGED spin
            BY <2>2, <1>0, <1>n, <1>w DEF Shapes
      <2>3. CASE /\ at[Worker] <= Len(list) /\ mlog' = [mlog EXCEPT ![Worker] = list[at[Worker]]]
                 /\ Goto(Worker, "Task") /\ UNCHANGED <<at, spin>>
            <3>1. at[Worker] \in 1..Len(list) /\ list[at[Worker]] \in Created
                    /\ at[Worker] <= creates
                  BY <1>0, <1>t, <1>w, <2>3 DEF WalksOK, RoundInv, ListOK, Shapes
            <3>2. mlog' \in [Threads -> Created \cup {Nil}] /\ pc'[Worker] = "Task"
                  BY <1>0, <2>3, <3>1, WorkerGoesParts DEF Iterators
            <3> QED
                BY <1>0, <1>4, <1>w, <2>3, <3>1, <3>2 DEF Shapes
      <2> QED
          BY <1>6, <2>1, <2>2, <2>3 DEF WorkerScan
<1>7. CASE WorkerTask
      <2>0. pc[Worker] = "Task" /\ UNCHANGED spin /\ at[Worker] <= creates
            BY <1>0, <1>7, <1>t DEF WorkerTask, Iterators
      <2>1. CASE WorkerNext
            BY <2>0, <2>1, <1>n
      <2>2. CASE buff[mlog[Worker]] /\ Goto(Worker, "TaskLock") /\ UNCHANGED walks
            <3>1. pc'[Worker] = "TaskLock" /\ mlog' \in [Threads -> Created \cup {Nil}]
                  BY <1>0, <2>2, WorkerGoesParts DEF Iterators
            <3> QED
                BY <1>0, <1>4, <1>w, <2>0, <2>2, <3>1 DEF Shapes
      <2> QED
          BY <1>7, <2>1, <2>2 DEF WorkerTask
<1> QED
    BY <1>5, <1>6, <1>7 DEF WorkerCalm

\* The task takes the block of an appender, or finds that close has deleted it since
\* the task looked.
LEMMA WorkerFlushLife == ASSUME LifeInv, alive, RoundInv', Ledger', WorkerFlush PROVE LifeInv'
<1> USE DEF registry, blocks, walks, hist, over
<1>0. /\ RoundInv /\ Ledger /\ Shapes /\ Iterators /\ Amounts /\ Owners /\ Closed /\ Balance
      /\ Uncrossed /\ PcOK /\ WalksOK
      BY DEF LifeInv, RoundInv
<1> DEFINE a == mlog[Worker]
<1>t. Worker \in Threads /\ Worker \notin Users /\ Threads = Users \cup {Worker}
      BY DEF Threads
<1>p. pc[Worker] = "TaskLock"
      BY DEF WorkerFlush
<1>a. a \in App /\ carried[Worker] = 0
      BY <1>0, <1>p DEF RoundInv, Round, Using, ListOK, Created, App, Shapes, Balance
<1>1. CASE Die
      <2>1. CASE ~buff[a]
            <3>1. Worker \in crossed
                  BY <1>0, <1>p, <2>1 DEF Uncrossed
            <3>2. /\ UNCHANGED <<creates, list, spin, freed, dangling, crossed, close, buff, data,
                                 bufLock, pc, app, at, mlog, carried, appended, over>>
                  /\ alive' = FALSE
                  BY <1>1 DEF Die
            <3>3. Shapes' /\ Iterators' /\ Amounts' /\ Owners' /\ Closed' /\ Uncrossed'
                  BY <1>0, <3>2 DEF Shapes, Iterators, Amounts, Owners, Closed, Uncrossed, Walking,
                                    Created
            <3>4. Balance'
                  BY <1>0, <3>2, BalanceKept
            <3>5. AllOver' /\ FaultsNeedOverlap'
                  BY <3>1, <3>2 DEF LifeInv, AllOver, FaultsNeedOverlap
            <3> QED
                BY <3>3, <3>4, <3>5 DEF LifeInv
      <2>2. CASE buff[a]
            <3>1. alive' = alive
                  BY <2>2 DEF WorkerFlush
            <3> QED
                BY <1>1, <3>1 DEF Die
      <2> QED
          BY <2>1, <2>2
<1>2. CASE ~Die
      <2>1. /\ carried' = [carried EXCEPT ![Worker] = data[a]] /\ data' = [data EXCEPT ![a] = 0]
            /\ \/ data[a] = 0 /\ WorkerNext
               \/ data[a] # 0 /\ Goto(Worker, "Write") /\ UNCHANGED walks
            /\ UNCHANGED <<alive, creates, list, spin, freed, dangling, crossed, close, buff,
                           bufLock,
                           app, appended, over>>
            BY <1>2 DEF WorkerFlush, Take
      <2>2. \A v \in Users : pc'[v] = pc[v] /\ at'[v] = at[v] /\ mlog'[v] = mlog[v]
            BY <1>0, WorkerFrame DEF WorkerStepOf, WorkerAcquire
      <2>3. /\ data[a] = 0 => pc'[Worker] = "Scan" /\ mlog'[Worker] = Nil
                 /\ at'[Worker] = at[Worker] + 1
            /\ data[a] # 0 => pc'[Worker] = "Write" /\ mlog'[Worker] = a /\ at'[Worker] = at[Worker]
            BY <1>0, <2>1, WorkerNextParts, WorkerGoesParts
      <2>4. mlog' \in [Threads -> Created \cup {Nil}]
            BY <1>0, <2>1 DEF WorkerNext, Iterators
      <2> HIDE DEF a
      <2>5. /\ data[a] \in Nat /\ data'[a] = 0 /\ \A b \in App \ {a} : data'[b] = data[b]
            /\ carried'[Worker] = data[a] /\ \A v \in Users : carried'[v] = carried[v]
            /\ data' \in [App -> Nat] /\ carried' \in [Threads -> Nat]
            BY <1>0, <1>a, <1>t, <2>1 DEF Amounts
      <2>6. Shapes' /\ Amounts'
            BY <1>0, <2>1, <2>3, <2>5 DEF Shapes, Amounts, WorkerPc
      <2>7. Iterators'
            <3>1. at[Worker] \in Nat /\ at[Worker] <= creates /\ creates \in Nat
                  BY <1>0, <1>p, <1>t DEF WalksOK, Iterators, Looking, RoundInv, ListOK
            <3>2. at'[Worker] <= creates + 1 /\ (pc'[Worker] \in Looking => at'[Worker] <= creates)
                  BY <2>3, <3>1 DEF Looking
            <3> QED
                BY <1>0, <1>t, <2>1, <2>2, <2>4, <3>2 DEF Iterators, Created
      <2>8. Owners'
            BY <1>0, <2>1, <2>2, OwnersKept
      <2>9. Closed'
            <3>1. ASSUME NEW v \in Users, pc'[v] \in Drained PROVE data'[app'[v]] = 0
                  <4>1. data[app[v]] = 0 /\ app[v] \in App
                        BY <1>0, <2>2, <3>1, OwnedIsApp DEF Closed, Owners, Drained
                  <4> QED
                      BY <2>1, <2>5, <4>1
            <3> QED
                BY <1>0, <2>1, <2>2, <3>1 DEF Closed
      <2>10. Balance'
            <3>1. ASSUME NEW b \in App
                  PROVE  data'[b] + over[b] + InWorker(b)' = data[b] + over[b] + InWorker(b)
                  <4>1. InWorker(b) = 0
                        BY <1>p DEF InWorker
                  <4>2. CASE b = a
                        <5>1. InWorker(b)' = data[a]
                              BY <2>3, <2>5, <4>2 DEF InWorker
                        <5> QED
                            BY <1>0, <2>5, <4>1, <4>2, <5>1 DEF Amounts
                  <4>3. CASE b # a
                        <5>1. InWorker(b)' = 0
                              BY <2>3, <4>3 DEF InWorker
                        <5> QED
                            BY <2>5, <4>1, <4>3, <5>1
                  <4> QED
                      BY <4>2, <4>3
            <3>2. ASSUME NEW v \in Users, pc'[v] = "CloseWrite"
                  PROVE  (appended[app[v]] = data[app[v]] + over[app[v]] + InWorker(app[v]) + carried[v])'
                  <4>1. pc[v] = "CloseWrite" /\ app[v] \in App
                        BY <1>0, <2>2, <3>2, OwnedIsApp DEF Owners
                  <4>2. appended[app[v]] = data[app[v]] + over[app[v]] + InWorker(app[v]) + carried[v]
                        BY <1>0, <4>1 DEF Balance
                  <4> QED
                      BY <2>1, <2>5, <3>1, <4>1, <4>2
            <3>3. ASSUME NEW b \in App, \A v \in Users : app'[v] = b => pc'[v] # "CloseWrite"
                  PROVE  (appended[b] = data[b] + over[b] + InWorker(b))'
                  <4>1. appended[b] = data[b] + over[b] + InWorker(b)
                        BY <1>0, <2>1, <2>2, <3>3 DEF Balance
                  <4> QED
                      BY <2>1, <3>1, <4>1
            <3>4. /\ carried'[Worker] # 0 => pc'[Worker] = "Write"
                  /\ \A v \in Users : carried'[v] # 0 => pc'[v] = "CloseWrite"
                  BY <1>0, <2>2, <2>3, <2>5 DEF Balance
            <3> QED
                BY <3>2, <3>3, <3>4 DEF Balance
      <2>11. Uncrossed'
            BY <1>0, <2>1, <2>2, <2>3 DEF Uncrossed, Walking
      <2>12. AllOver' /\ FaultsNeedOverlap'
            BY <2>1 DEF LifeInv, AllOver, FaultsNeedOverlap
      <2> QED
          BY <2>6, <2>7, <2>8, <2>9, <2>10, <2>11, <2>12 DEF LifeInv
<1> QED
    BY <1>1, <1>2

\* It writes what it has taken to the file of an appender that is not deleted.
LEMMA WorkerWriteLife == ASSUME LifeInv, alive, RoundInv', Ledger', WorkerWrite PROVE LifeInv'
<1> USE DEF registry, blocks, walks
<1>0. /\ RoundInv /\ Ledger /\ Shapes /\ Iterators /\ Amounts /\ Owners /\ Closed /\ Balance
      /\ Uncrossed /\ PcOK /\ WalksOK
      BY DEF LifeInv, RoundInv
<1> DEFINE a == mlog[Worker]
<1>t. Worker \in Threads /\ Worker \notin Users /\ Threads = Users \cup {Worker}
      BY DEF Threads
<1>1. /\ pc[Worker] = "Write" /\ WorkerNext
      /\ carried' = [carried EXCEPT ![Worker] = 0]
           /\ over' = [over EXCEPT ![a] = @ + carried[Worker]]
      /\ UNCHANGED <<alive, creates, list, spin, freed, dangling, crossed, close, buff, bufLock,
                     data,
                     app, appended>>
      <2>1. /\ pc[Worker] = "Write" /\ WorkerNext /\ Save(Worker, a)
            /\ UNCHANGED <<alive, registry, blocks, app>>
            BY DEF WorkerWrite
      <2>2. a \in App
            BY <1>0, <2>1 DEF RoundInv, Round, Using, ListOK, Created, App, Shapes
      <2> QED
          BY <1>0, <1>t, <2>1, <2>2, SaveParts
<1>2. /\ \A v \in Users : pc'[v] = pc[v] /\ at'[v] = at[v] /\ mlog'[v] = mlog[v]
      /\ pc'[Worker] = "Scan" /\ at'[Worker] = at[Worker] + 1 /\ mlog'[Worker] = Nil
      BY <1>0, <1>1, WorkerNextParts
<1>3. a \in App /\ a \notin freed
      BY <1>0, <1>1 DEF RoundInv, Round, Using, ListOK, Created, App, Shapes
<1>4. mlog' \in [Threads -> Created \cup {Nil}]
      BY <1>0, <1>1 DEF WorkerNext, Iterators
<1> HIDE DEF a
<1>5. /\ over[a] \in Nat /\ carried[Worker] \in Nat /\ over'[a] = over[a] + carried[Worker]
      /\ \A b \in App \ {a} : over'[b] = over[b]
      /\ carried'[Worker] = 0 /\ \A v \in Users : carried'[v] = carried[v]
      /\ over' \in [App -> Nat] /\ carried' \in [Threads -> Nat]
      BY <1>0, <1>1, <1>3, <1>t DEF Amounts
<1>6. Shapes' /\ Amounts'
      BY <1>0, <1>1, <1>2, <1>5 DEF Shapes, Amounts, WorkerPc
<1>7. Iterators'
      <2>1. at[Worker] \in Nat /\ at[Worker] <= creates /\ creates \in Nat
            BY <1>0, <1>1, <1>t DEF WalksOK, Iterators, Looking, RoundInv, ListOK
      <2>2. at'[Worker] <= creates + 1 /\ pc'[Worker] \notin Looking
            BY <1>2, <2>1 DEF Looking
      <2> QED
          BY <1>0, <1>t, <1>1, <1>2, <1>4, <2>2 DEF Iterators, Created
<1>8. Owners' /\ Closed'
      BY <1>0, <1>1, <1>2, OwnersKept, ClosedKept
<1>9. Balance'
      <2>1. ASSUME NEW b \in App
            PROVE  data[b] + over'[b] + InWorker(b)' = data[b] + over[b] + InWorker(b)
            <3>1. InWorker(b)' = 0
                  BY <1>2 DEF InWorker
            <3>2. data[b] \in Nat /\ over[b] \in Nat
                  BY <1>0 DEF Amounts
            <3>3. CASE b = a
                  <4>1. InWorker(b) = carried[Worker]
                        BY <1>1, <3>3 DEF InWorker, a
                  <4> QED
                      BY <1>5, <3>1, <3>2, <3>3, <4>1
            <3>4. CASE b # a
                  <4>1. InWorker(b) = 0
                        BY <3>4 DEF InWorker, a
                  <4> QED
                      BY <1>5, <3>1, <3>2, <3>4, <4>1
            <3> QED
                BY <3>3, <3>4
      <2>2. ASSUME NEW v \in Users, pc'[v] = "CloseWrite"
            PROVE  (appended[app[v]] = data[app[v]] + over[app[v]] + InWorker(app[v]) + carried[v])'
            <3>1. pc[v] = "CloseWrite" /\ app[v] \in App
                  BY <1>0, <1>2, <2>2, OwnedIsApp DEF Owners
            <3>2. appended[app[v]] = data[app[v]] + over[app[v]] + InWorker(app[v]) + carried[v]
                  BY <1>0, <3>1 DEF Balance
            <3> QED
                BY <1>1, <1>5, <2>1, <3>1, <3>2
      <2>3. ASSUME NEW b \in App, \A v \in Users : app'[v] = b => pc'[v] # "CloseWrite"
            PROVE  (appended[b] = data[b] + over[b] + InWorker(b))'
            <3>1. appended[b] = data[b] + over[b] + InWorker(b)
                  BY <1>0, <1>1, <1>2, <2>3 DEF Balance
            <3> QED
                BY <1>1, <2>1, <3>1
      <2>4. /\ carried'[Worker] # 0 => pc'[Worker] = "Write"
            /\ \A v \in Users : carried'[v] # 0 => pc'[v] = "CloseWrite"
            BY <1>0, <1>2, <1>5 DEF Balance
      <2> QED
          BY <2>2, <2>3, <2>4 DEF Balance
<1>10. Uncrossed'
      BY <1>0, <1>1, <1>2 DEF Uncrossed, Walking
<1>11. AllOver' /\ FaultsNeedOverlap'
      <2>1. \A b \in freed : b \in App \ {a}
            BY <1>0, <1>3 DEF RoundInv, ListOK, Shapes, Created, App
      <2> QED
          BY <1>1, <1>5, <2>1 DEF LifeInv, AllOver, FaultsNeedOverlap
<1> QED
    BY <1>6, <1>7, <1>8, <1>9, <1>10, <1>11 DEF LifeInv

-----------------------------------------------------------------------------
\* Nothing is created, open or appended at the start.
LEMMA LifeInit == Init => LifeInv
<1> SUFFICES ASSUME Init PROVE LifeInv
    OBVIOUS
<1>1. RoundInv
      BY RoundInit
<1>2. Ledger /\ Shapes /\ Iterators /\ Amounts
      BY DEF Init, Ledger, over, Shapes, Iterators, Amounts, WorkerPc, Threads, Looking, App
<1>3. Owners /\ Closed
      BY DEF Init, Owners, Closed, Closing, Drained, Threads
<1>4. Balance
      BY DEF Init, Balance, InWorker, over, Threads
<1>5. Uncrossed
      BY DEF Init, Uncrossed, Walking, Threads
<1>6. AllOver /\ FaultsNeedOverlap
      BY DEF Init, AllOver, FaultsNeedOverlap
<1> QED
    BY <1>1, <1>2, <1>3, <1>4, <1>5, <1>6 DEF LifeInv

LEMMA LedgerStep == LifeInv /\ [Next]_vars => Ledger'
<1> SUFFICES ASSUME LifeInv, [Next]_vars PROVE Ledger'
    OBVIOUS
<1>0. RoundInv /\ Ledger /\ Shapes /\ Amounts /\ Owners /\ PcOK /\ WalksOK
      BY DEF LifeInv, RoundInv
<1>k. ASSUME UNCHANGED hist, \A a \in App : data'[a] = data[a] \/ data'[a] = 0 PROVE Ledger'
      BY <1>0, <1>k DEF hist, Ledger
<1>1. CASE UNCHANGED vars
      BY <1>1, <1>k DEF vars, blocks
<1>2. ASSUME NEW u \in Users, StepOf(u) PROVE Ledger'
      <2>1. CASE Create(u) \/ CreatePush(u) \/ CloseCall(u) \/ OpenPublish(u) \/ CloseNotify(u)
                 \/ DestroyErase(u) \/ DestroyFree(u)
            BY <2>1, <1>k DEF Create, CreatePush, CloseCall, OpenPublish, CloseNotify, DestroyErase,
                              DestroyFree, blocks
      <2>2. CASE CloseTask(u) \/ CloseFree(u)
            <3>1. \E a : data' = [data EXCEPT ![a] = 0]
                  BY <2>2 DEF CloseTask, Take, CloseFree
            <3>2. UNCHANGED hist
                  BY <2>2 DEF CloseTask, CloseFree
            <3> QED
                BY <1>0, <1>k, <3>1, <3>2 DEF Amounts
      <2>3. CASE AppendWrite(u)
            <3>1. app[u] \in App
                  BY <1>0, <2>3, OwnedIsApp DEF AppendWrite
            <3>2. saved' = saved /\ failed' = failed
                  BY <2>3 DEF AppendWrite
            <3>3. CASE data[app[u]] < Full
                  BY <1>0, <2>3, <3>1, <3>2, <3>3 DEF AppendWrite, Ledger, Amounts
            <3>4. CASE ~(data[app[u]] < Full)
                  BY <1>0, <2>3, <3>1, <3>2, <3>4 DEF AppendWrite, Ledger
            <3> QED
                BY <3>3, <3>4
      <2>4. CASE CloseWrite(u)
            <3>1. app[u] \in App /\ u \in Threads /\ Save(u, app[u]) /\ data' = data
                  BY <1>0, <2>4, OwnedIsApp DEF CloseWrite, Owners, Threads, blocks
            <3> QED
                BY <1>0, <3>1, SaveParts DEF Ledger
      <2>5. CASE Calm(u)
            <3>1. data' = data
                  BY <1>0, <2>5, CalmFrame
            <3>2. UNCHANGED hist
                  BY <2>5 DEF Calm, OpenNotify, AppendStart, WalkNext, WalkClose, WalkLen, Stray, Die
            <3> QED
                BY <1>k, <3>1, <3>2
      <2> QED
          BY <1>2, <2>1, <2>2, <2>3, <2>4, <2>5 DEF StepOf, UserMove, UserAcquire, Calm
<1>3. CASE WorkerCalm
      <2>1. data' = data
            BY <1>0, <1>3, WorkerCalmFrame
      <2>2. UNCHANGED hist
            BY <1>3 DEF WorkerCalm, WorkerTop, WorkerScan, WorkerTask, WorkerLeaves, WorkerWaits,
                        WorkerTimesOut, WorkerGoes
      <2> QED
          BY <1>k, <2>1, <2>2
<1>4. CASE WorkerFlush
      BY <1>0, <1>4, <1>k DEF WorkerFlush, Die, Take, blocks, Amounts
<1>5. CASE WorkerWrite
      <2>1. /\ mlog[Worker] \in App /\ Worker \in Threads /\ Save(Worker, mlog[Worker])
            /\ data' = data
            BY <1>0, <1>5 DEF WorkerWrite, Threads, blocks,
                              RoundInv, Round, Using, ListOK, Created, App, Shapes
      <2> QED
          BY <1>0, <2>1, SaveParts DEF Ledger
<1> QED
    BY <1>1, <1>2, <1>3, <1>4, <1>5
       DEF Next, StepOf, WorkerCalm, WorkerMove, WorkerAcquire

LEMMA LifeStep == LifeInv /\ [Next]_vars => LifeInv'
<1> SUFFICES ASSUME LifeInv, [Next]_vars PROVE LifeInv'
    OBVIOUS
<1>0. RoundInv' /\ Ledger'
      BY RoundStep, LedgerStep DEF LifeInv
<1>1. CASE UNCHANGED vars
      <2>1. UNCHANGED <<alive, creates, list, spin, freed, dangling, crossed, close, buff, data,
                        bufLock,
                        pc, app, at, mlog, carried, appended, over>>
            BY <1>1 DEF vars, registry, blocks, walks, hist, over
      <2>2. Shapes' /\ Iterators' /\ Amounts' /\ Owners' /\ Closed' /\ Uncrossed'
            BY <2>1 DEF LifeInv, Shapes, Iterators, Amounts, Owners, Closed, Uncrossed, Walking,
                   Created
      <2>3. Balance'
            BY <2>1, BalanceKept DEF LifeInv
      <2>4. AllOver' /\ FaultsNeedOverlap'
            BY <2>1 DEF LifeInv, AllOver, FaultsNeedOverlap
      <2> QED
          BY <1>0, <2>2, <2>3, <2>4 DEF LifeInv
<1>2. CASE Next
      <2>1. alive
            BY <1>2 DEF Next
      <2>2. CASE \E u \in Users : \/ Create(u) \/ AppendWrite(u) \/ CloseCall(u)
                                  \/ UserMove(u) \/ UserAcquire(u)
            <3>1. PICK u \in Users : \/ Create(u) \/ AppendWrite(u) \/ CloseCall(u)
                                     \/ UserMove(u) \/ UserAcquire(u)
                  BY <2>2
            <3>2. CASE \/ Create(u) \/ CreatePush(u) \/ AppendWrite(u) \/ CloseCall(u)
                       \/ OpenPublish(u) \/ CloseNotify(u)
                  BY <1>0, <2>1, <3>2, CreateLife, PushLife, AppendLife, CloseCallLife, OpenLife
            <3>3. CASE \/ CloseTask(u) \/ CloseWrite(u) \/ CloseFree(u) \/ DestroyErase(u)
                       \/ DestroyFree(u)
                  BY <1>0, <2>1, <3>3, CloseTaskLife, CloseWriteLife, CloseFreeLife, EraseLife,
                     DestroyFreeLife
            <3>4. CASE Calm(u)
                  BY <1>0, <2>1, <3>4, CalmLife
            <3> QED
                BY <3>1, <3>2, <3>3, <3>4 DEF UserMove, UserAcquire, Calm
      <2>3. CASE WorkerMove \/ WorkerAcquire
            BY <1>0, <2>1, <2>3, WorkerCalmLife, WorkerFlushLife, WorkerWriteLife
               DEF WorkerMove, WorkerAcquire, WorkerCalm
      <2> QED
          BY <1>2, <2>2, <2>3 DEF Next
<1> QED
    BY <1>1, <1>2

LEMMA LifeAlways == Spec => []LifeInv
BY LifeInit, LifeStep, PTL DEF Spec

\* Every record that was appended is in one place, and what holds records, locks and
\* iterators has the type it should, for every number of users, appenders and appends.
THEOREM RegistryTypes == Spec => []TypeOK
<1>1. LifeInv => TypeOK
      <2> SUFFICES ASSUME LifeInv PROVE TypeOK
          OBVIOUS
      <2>0. /\ RoundInv /\ PcOK /\ WalksOK /\ ListOK /\ Unlisted /\ Shapes /\ Iterators /\ Amounts
            /\ Ledger /\ Owners /\ Balance
            BY DEF LifeInv, RoundInv
      <2>1. Created \subseteq App
            BY <2>0 DEF Created, App, ListOK, Shapes
      <2>2. \A a \in App : InWorker(a) \in Nat
            BY <2>0 DEF InWorker, Amounts, Threads
      <2>3. ASSUME NEW a \in App
            PROVE  /\ data[a] \in 0..MaxAppends /\ appended[a] \in 0..MaxAppends
                   /\ over[a] \in 0..MaxAppends /\ InWorker(a) \in 0..MaxAppends
                   /\ data[a] + over[a] <= appended[a]
                   /\ \A u \in Users : app[u] = a /\ pc[u] = "CloseWrite" =>
                          carried[u] \in 0..MaxAppends
            <3>0. /\ data[a] \in Nat /\ over[a] \in Nat /\ appended[a] \in 0..MaxAppends
                  /\ InWorker(a) \in Nat
                  BY <2>0, <2>2 DEF Amounts
            <3>1. CASE \E u \in Users : app[u] = a /\ pc[u] = "CloseWrite"
                  <4>1. PICK u \in Users : app[u] = a /\ pc[u] = "CloseWrite"
                        BY <3>1
                  <4>2. appended[a] = data[a] + over[a] + InWorker(a) + carried[u]
                          /\ carried[u] \in Nat
                        BY <2>0, <4>1 DEF Balance, Amounts, Threads
                  <4>3. \A v \in Users : app[v] = a => v = u
                        BY <2>0, <4>1 DEF Owners
                  <4> QED
                      BY <3>0, <4>2, <4>3
            <3>2. CASE ~\E u \in Users : app[u] = a /\ pc[u] = "CloseWrite"
                  <4>1. appended[a] = data[a] + over[a] + InWorker(a)
                        BY <2>0, <3>2 DEF Balance
                  <4> QED
                      BY <3>0, <3>2, <4>1
            <3> QED
                BY <3>1, <3>2
      <2>4. ASSUME NEW t \in Threads PROVE carried[t] \in 0..MaxAppends
            <3>0. 0 \in 0..MaxAppends
                  OBVIOUS
            <3>1. CASE carried[t] = 0
                  BY <3>0, <3>1
            <3>2. CASE carried[t] # 0 /\ t = Worker
                  <4>1. pc[Worker] = "Write" /\ mlog[Worker] \in App
                        BY <2>0, <2>1, <3>2 DEF Balance, RoundInv, Round, Using, ListOK
                  <4>2. InWorker(mlog[Worker]) = carried[Worker]
                        BY <4>1 DEF InWorker
                  <4> QED
                      BY <2>3, <3>2, <4>1, <4>2
            <3>3. CASE carried[t] # 0 /\ t \in Users
                  <4>1. pc[t] = "CloseWrite" /\ app[t] \in App
                        BY <2>0, <3>3, OwnedIsApp DEF Balance, Owners
                  <4> QED
                      BY <2>3, <3>3, <4>1
            <3> QED
                BY <3>1, <3>2, <3>3 DEF Threads
      <2>b. ASSUME NEW a \in App
            PROVE  /\ saved[a] \in 0..MaxAppends /\ failed[a] \in 0..MaxAppends
                   /\ replaced[a] \in 0..MaxAppends /\ saved[a] <= over[a]
            <3>1. over[a] = saved[a] + failed[a] + replaced[a] /\ over[a] \in 0..MaxAppends
                  BY <2>3 DEF over
            <3>2. saved[a] \in Nat /\ failed[a] \in Nat /\ replaced[a] \in Nat
                  BY <2>0 DEF Ledger
            <3> QED
                BY <3>1, <3>2
      <2>5. {data[a] : a \in App} \cup {appended[a] : a \in App} \cup {replaced[a] : a \in App}
            \cup {saved[a] : a \in App} \cup {failed[a] : a \in App}
            \cup {carried[t] : t \in Threads} \subseteq 0..MaxAppends
            BY <2>3, <2>4, <2>b
      <2>c. \A a \in App : data[a] <= Full /\ data[a] + saved[a] <= appended[a]
            <3> SUFFICES ASSUME NEW a \in App
                         PROVE  data[a] <= Full /\ data[a] + saved[a] <= appended[a]
                OBVIOUS
            <3>1. data[a] \in Nat /\ saved[a] \in Nat /\ over[a] \in Nat /\ appended[a] \in Nat
                  BY <2>0 DEF Amounts, Ledger
            <3> QED
                BY <2>0, <2>3, <2>b, <3>1 DEF Ledger
      <2>6. list \in Seq(App) /\ freed \subseteq App /\ creates \in 0..MaxCreates
            BY <2>0, <2>1 DEF ListOK, Shapes
      <2>7. app \in [Users -> App \cup {Nil}] /\ mlog \in [Threads -> App \cup {Nil}]
            BY <2>0, <2>1 DEF Unlisted, Iterators
      <2>8. at \in [Threads -> 1..(MaxCreates + 2)]
            <3>1. \A t \in Threads : at[t] \in 1..(MaxCreates + 2)
                  BY <2>0 DEF WalksOK, Iterators, Shapes, ListOK
            <3> QED
                BY <2>0, <3>1 DEF WalksOK
      <2>9. \A u \in Users : pc[u] \in UserPc
            BY <2>0 DEF PcOK
      <2> QED
          BY <2>0, <2>5, <2>c, <2>6, <2>7, <2>8, <2>9 DEF TypeOK, Shapes
<1> QED
    BY <1>1, LifeAlways, PTL

\* close and destroy leave no record behind but those that a message has replaced and
\* those that the file system has refused: destroy cannot take the appender out of the
\* list while the shared thread carries records of it to the file, and close has emptied
\* the block before.
THEOREM DestroyLosesNothing == Spec => []DestroyedIsSaved
<1>1. LifeInv => DestroyedIsSaved
      <2>1. LifeInv => AllOver /\ freed \subseteq App
            BY DEF LifeInv, RoundInv, ListOK, Shapes, Created, App
      <2> QED
          BY <2>1 DEF AllOver, over, DestroyedIsSaved
<1> QED
    BY <1>1, LifeAlways, PTL

\* The process faults in an append or in a task only if an appender was created,
\* closed or destroyed under it: by itself, neither uses memory that is not there.
THEOREM FaultsAreOverlaps == Spec => []FaultsNeedOverlap
<1>1. LifeInv => FaultsNeedOverlap
      BY DEF LifeInv
<1> QED
    BY <1>1, LifeAlways, PTL
=============================================================================
