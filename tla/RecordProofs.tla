---------------------------- MODULE RecordProofs ----------------------------
(***************************************************************************)
(* The text of a record, from append to the log file, for every length of  *)
(* the buffers in the proportions of the code, every header, every body    *)
(* and every number of appends, flushes and reopens.                       *)
(***************************************************************************)
EXTENDS Record, FiniteSetTheorems, SequenceTheorems, WellFoundedInduction, TLAPS

-----------------------------------------------------------------------------
(* Sequences. *)

\* Sequences with the same elements are the same.
LEMMA SameSeq ==
    ASSUME NEW S, NEW s \in Seq(S), NEW t \in Seq(S), Len(s) = Len(t),
           \A k \in 1..Len(s) : s[k] = t[k]
    PROVE  s = t
OBVIOUS

\* One more element at the end.
LEMMA AppendIs ==
    ASSUME NEW S, NEW s \in Seq(S), NEW e \in S
    PROVE  /\ Append(s, e) \in Seq(S) /\ Len(Append(s, e)) = Len(s) + 1 /\ Append(s, e)[Len(s) + 1] = e
           /\ \A i \in 1..Len(s) : Append(s, e)[i] = s[i]
OBVIOUS

\* How a prefix is recognised.
LEMMA PrefixIs ==
    ASSUME NEW S, NEW s \in Seq(S), NEW t \in Seq(S), Len(s) <= Len(t),
           \A k \in 1..Len(s) : s[k] = t[k]
    PROVE  IsPrefix(s, t)
<1>1. SubSeq(s, 1, Len(s)) = SubSeq(t, 1, Len(s))
      OBVIOUS
<1> QED
    BY <1>1 DEF IsPrefix

\* The least of some natural numbers that are bounded.
LEMMA LeastOf ==
    ASSUME NEW n \in Nat, NEW E \in SUBSET (1..n), E # {}
    PROVE  \E m \in E : \A j \in E : m <= j
<1> DEFINE T == {1..i : i \in E}
           R == StrictSubsetOrdering(1..n)
<1>1. IsWellFoundedOn(R, FiniteSubsetsOf(1..n))
      BY FS_StrictSubsetOrderingWellFounded
<1>2. T \subseteq FiniteSubsetsOf(1..n)
      <2> SUFFICES ASSUME NEW i \in E PROVE 1..i \in SUBSET (1..n) /\ IsFiniteSet(1..i)
          BY DEF FiniteSubsetsOf
      <2>1. i \in Nat /\ i <= n
            OBVIOUS
      <2> QED
          BY <2>1, FS_Interval
<1>3. T # {}
      OBVIOUS
<1> HIDE DEF R
<1>4. \E x \in T : \A y \in T : ~(<<y, x>> \in R)
      BY <1>1, <1>2, <1>3, WFMin
<1>5. PICK m \in E : \A j \in E : ~(<<1..j, 1..m>> \in R)
      BY <1>4
<1>6. ASSUME NEW j \in E, ~(m <= j) PROVE FALSE
      <2>1. j \in Nat /\ m \in Nat /\ j < m /\ m <= n
            BY <1>6
      <2>2. /\ 1..j \in SUBSET (1..n) /\ 1..m \in SUBSET (1..n)
            /\ 1..j \subseteq 1..m /\ m \in 1..m /\ m \notin 1..j
            BY <2>1
      <2>3. <<1..j, 1..m>> \in R
            BY <2>2 DEF R, StrictSubsetOrdering
      <2> QED
          BY <1>5, <2>3
<1> QED
    BY <1>5, <1>6

\* The sequences that FlattenSeq adds up: after i of the rows.
Adds(f, rows, n) ==
    f = [i \in 1..n |-> IF i = 1 THEN rows[i] ELSE f[i - 1] \o rows[i]]
Sums(rows) == CHOOSE f : Adds(f, rows, Len(rows))

\* FlattenSeq is defined by a recursive function: these are its values.
LEMMA FlattenIs ==
    ASSUME NEW rows, Len(rows) # 0
    PROVE  FlattenSeq(rows) = Sums(rows)[Len(rows)]
BY DEF FlattenSeq, Sums, Adds

\* They begin with the first row,
LEMMA AddsFirst ==
    ASSUME NEW f, NEW rows, NEW n \in Nat \ {0}, Adds(f, rows, n)
    PROVE  f[1] = rows[1]
<1>1. \A i \in 1..n : f[i] = IF i = 1 THEN rows[i] ELSE f[i - 1] \o rows[i]
      BY Zenon DEF Adds
<1>2. 1 \in 1..n
      OBVIOUS
<1> QED
    BY <1>1, <1>2, Zenon

\* and add one row after the other.
LEMMA AddsAre ==
    ASSUME NEW f, NEW rows, NEW n \in Nat \ {0}, Adds(f, rows, n)
    PROVE  /\ f[1] = rows[1]
           /\ \A i \in 1..n : i # 1 => f[i] = f[i - 1] \o rows[i]
<1>1. \A i \in 1..n : f[i] = IF i = 1 THEN rows[i] ELSE f[i - 1] \o rows[i]
      BY Zenon DEF Adds
<1> QED
    BY <1>1, AddsFirst, Zenon

\* There are such sums, for the first n rows.
LEMMA SumsExist ==
    ASSUME NEW S, NEW rows \in Seq(Seq(S)), NEW n \in 1..Len(rows)
    PROVE  \E f : Adds(f, rows, n) /\ f \in [1..n -> Seq(S)]
<1> DEFINE Has(k) == \E f : Adds(f, rows, k) /\ f \in [1..k -> Seq(S)]
           Bad == {k \in 1..n : ~Has(k)}
<1>0. n \in Nat /\ n <= Len(rows) /\ Len(rows) \in Nat /\ \A i \in 1..n : rows[i] \in Seq(S)
      OBVIOUS
<1>1. Has(1)
      <2>1. [i \in 1..1 |-> rows[i]] \in [1..1 -> Seq(S)]
            BY <1>0
      <2>2. Adds([i \in 1..1 |-> rows[i]], rows, 1)
            BY DEF Adds
      <2> QED
          BY <2>1, <2>2
<1>2. ASSUME NEW k \in 1..(n - 1), Has(k) PROVE Has(k + 1)
      <2>0. k \in Nat /\ k + 1 \in 1..n /\ k \in 1..k /\ k + 1 # 1 /\ rows[k + 1] \in Seq(S)
            BY <1>0
      <2>1. PICK f : Adds(f, rows, k) /\ f \in [1..k -> Seq(S)]
            BY <1>2
      <2> DEFINE g == [i \in 1..(k + 1) |-> IF i <= k THEN f[i] ELSE f[k] \o rows[k + 1]]
      <2>2. f[k] \o rows[k + 1] \in Seq(S) /\ \A i \in 1..k : f[i] \in Seq(S)
            BY <2>0, <2>1
      <2>3. g \in [1..(k + 1) -> Seq(S)]
            <3> SUFFICES ASSUME NEW i \in 1..(k + 1)
                         PROVE  (IF i <= k THEN f[i] ELSE f[k] \o rows[k + 1]) \in Seq(S)
                OBVIOUS
            <3> QED
                BY <2>0, <2>2
      <2>4. /\ \A i \in 1..k : g[i] = f[i] /\ i \in 1..(k + 1)
            /\ g[k + 1] = f[k] \o rows[k + 1]
            /\ g = [i \in 1..(k + 1) |-> g[i]]
            <3>1. \A i \in 1..k : i \in 1..(k + 1) /\ i <= k
                  BY <2>0
            <3>2. k + 1 \in 1..(k + 1) /\ ~(k + 1 <= k)
                  BY <2>0
            <3> QED
                BY <3>1, <3>2, Zenon
      <2> HIDE DEF g
      <2>5. ASSUME NEW i \in 1..(k + 1)
            PROVE  g[i] = IF i = 1 THEN rows[i] ELSE g[i - 1] \o rows[i]
            <3>1. CASE i = k + 1
                  <4>1. i - 1 = k /\ i # 1
                        BY <2>0, <3>1
                  <4>2. g[k] = f[k]
                        BY <2>0, <2>4
                  <4> QED
                      BY <2>4, <3>1, <4>1, <4>2, Zenon
            <3>2. CASE i # k + 1 /\ i # 1
                  <4>1. i - 1 \in 1..k /\ i \in 1..k
                        BY <2>0, <3>2
                  <4>2. f[i] = f[i - 1] \o rows[i]
                        <5>1. k \in Nat \ {0}
                              BY <2>0
                        <5> QED
                            BY <2>1, <3>2, <4>1, <5>1, AddsAre, Zenon
                  <4>3. g[i] = f[i] /\ g[i - 1] = f[i - 1]
                        BY <2>4, <4>1
                  <4> QED
                      BY <3>2, <4>2, <4>3, Zenon
            <3>3. CASE i = 1
                  <4>1. f[1] = rows[1] /\ 1 \in 1..k
                        <5>1. k \in Nat \ {0} /\ 1 \in 1..k
                              BY <2>0
                        <5>2. f[1] = rows[1]
                              BY <2>1, <5>1, AddsFirst
                        <5> QED
                            BY <5>1, <5>2
                  <4> QED
                      BY <2>4, <3>3, <4>1
            <3> QED
                BY <2>0, <3>1, <3>2, <3>3
      <2>6. Adds(g, rows, k + 1)
            <3>1. [i \in 1..(k + 1) |-> g[i]]
                   = [i \in 1..(k + 1) |-> IF i = 1 THEN rows[i] ELSE g[i - 1] \o rows[i]]
                  BY <2>5, Zenon
            <3> QED
                BY <2>4, <3>1, Zenon DEF Adds
      <2> QED
          BY <2>3, <2>6
<1> HIDE DEF Has
<1>3. ASSUME Bad = {} PROVE Has(n)
      <2>1. n \in 1..n
            OBVIOUS
      <2> QED
          BY <1>3, <2>1, Zenon
<1>4. ASSUME Bad # {} PROVE FALSE
      <2>1. PICK m \in Bad : \A j \in Bad : m <= j
            BY <1>0, <1>4, LeastOf
      <2>2. m # 1 /\ m \in 1..n
            BY <1>1, <2>1
      <2>3. m - 1 \in 1..(n - 1) /\ m - 1 \in 1..n /\ ~(m <= m - 1) /\ (m - 1) + 1 = m
            BY <1>0, <2>2
      <2>4. Has(m - 1)
            BY <2>1, <2>3
      <2>5. Has((m - 1) + 1)
            BY <1>2, <2>3, <2>4
      <2> QED
          BY <2>1, <2>3, <2>5
<1>5. Has(n)
      BY <1>3, <1>4
<1> QED
    BY <1>5 DEF Has

\* So the function in FlattenSeq is them.
LEMMA SumsAre ==
    ASSUME NEW S, NEW rows \in Seq(Seq(S)), Len(rows) # 0
    PROVE  /\ Sums(rows)[1] = rows[1]
           /\ \A i \in 1..Len(rows) : i # 1 => Sums(rows)[i] = Sums(rows)[i - 1] \o rows[i]
<1>1. Len(rows) \in 1..Len(rows) /\ Len(rows) \in Nat \ {0}
      OBVIOUS
<1>2. \E f : Adds(f, rows, Len(rows))
      BY <1>1, SumsExist
<1>3. Adds(Sums(rows), rows, Len(rows))
      BY <1>2 DEF Sums
<1> QED
    BY <1>1, <1>3, AddsAre

\* Sums over rows that begin with the same n begin with the same n.
LEMMA SumsAgree ==
    ASSUME NEW S, NEW rows \in Seq(Seq(S)), NEW more \in Seq(Seq(S)), NEW n \in 1..Len(rows),
           n <= Len(more), \A i \in 1..n : more[i] = rows[i]
    PROVE  Sums(rows)[n] = Sums(more)[n] /\ Sums(rows)[n] \in Seq(S)
<1> DEFINE f == Sums(rows) g == Sums(more)
           Same(k) == f[k] = g[k] /\ f[k] \in Seq(S)
           Bad == {k \in 1..n : ~Same(k)}
<1>0. /\ n \in Nat /\ n <= Len(rows) /\ Len(rows) \in Nat /\ Len(more) \in Nat /\ Len(more) # 0
      /\ Len(rows) # 0 /\ 1 \in 1..n /\ \A i \in 1..n : rows[i] \in Seq(S)
      OBVIOUS
<1>1. /\ f[1] = rows[1] /\ g[1] = more[1]
      /\ \A i \in 1..n : i # 1 => f[i] = f[i - 1] \o rows[i] /\ g[i] = g[i - 1] \o more[i]
      <2>2. f[1] = rows[1] /\ \A i \in 1..Len(rows) : i # 1 => f[i] = f[i - 1] \o rows[i]
            BY <1>0, SumsAre
      <2>3. g[1] = more[1] /\ \A i \in 1..Len(more) : i # 1 => g[i] = g[i - 1] \o more[i]
            BY <1>0, SumsAre
      <2> HIDE DEF f, g
      <2>4. \A i \in 1..n : i \in 1..Len(rows) /\ i \in 1..Len(more)
            BY <1>0
      <2> QED
          BY <2>2, <2>3, <2>4
<1> HIDE DEF f, g
<1>2. Same(1)
      BY <1>0, <1>1
<1>3. ASSUME NEW k \in 1..n, k # 1, Same(k - 1) PROVE Same(k)
      <2>1. f[k] = f[k - 1] \o rows[k] /\ g[k] = g[k - 1] \o rows[k]
            BY <1>1, <1>3
      <2>2. f[k] = g[k]
            BY <1>3, <2>1
      <2>3. f[k - 1] \o rows[k] \in Seq(S)
            BY <1>0, <1>3
      <2> QED
          BY <2>1, <2>2, <2>3
<1> HIDE DEF Same
<1>4. ASSUME Bad = {} PROVE Same(n)
      <2>1. n \in 1..n
            OBVIOUS
      <2> QED
          BY <1>4, <2>1, Zenon
<1>5. ASSUME Bad # {} PROVE FALSE
      <2>1. PICK m \in Bad : \A j \in Bad : m <= j
            BY <1>0, <1>5, LeastOf
      <2>2. m \in 1..n /\ m # 1
            BY <1>2, <2>1
      <2>3. m - 1 \in 1..n /\ ~(m <= m - 1)
            BY <1>0, <2>2
      <2>4. Same(m - 1)
            BY <2>1, <2>3
      <2> QED
          BY <1>3, <2>1, <2>2, <2>4
<1>6. Same(n)
      BY <1>4, <1>5
<1> QED
    BY <1>6 DEF Same, f, g

\* One more row at the end.
LEMMA FlattenAppend ==
    ASSUME NEW S, NEW rows \in Seq(Seq(S)), NEW row \in Seq(S)
    PROVE  /\ rows # << >> => FlattenSeq(Append(rows, row)) = FlattenSeq(rows) \o row
           /\ FlattenSeq(Append(<< >>, row)) = row
           /\ FlattenSeq(rows) \in Seq(S)
<1>1. ASSUME NEW rs \in Seq(Seq(S))
      PROVE  /\ Append(rs, row) \in Seq(Seq(S)) /\ Len(Append(rs, row)) = Len(rs) + 1
             /\ \A i \in 1..Len(rs) : Append(rs, row)[i] = rs[i]
             /\ Append(rs, row)[Len(rs) + 1] = row
      OBVIOUS
<1>2. ASSUME NEW rs \in Seq(Seq(S)), Len(rs) # 0
      PROVE  FlattenSeq(rs) = Sums(rs)[Len(rs)] /\ FlattenSeq(rs) \in Seq(S)
      <2>1. Len(rs) \in 1..Len(rs) /\ \A i \in 1..Len(rs) : rs[i] = rs[i]
            BY <1>2
      <2> QED
          BY <1>2, <2>1, FlattenIs, SumsAgree
<1>3. ASSUME rows # << >> PROVE FlattenSeq(Append(rows, row)) = FlattenSeq(rows) \o row
      <2> DEFINE n == Len(rows) more == Append(rows, row)
      <2>1. n \in Nat /\ n # 0 /\ more \in Seq(Seq(S)) /\ Len(more) = n + 1 /\ more[n + 1] = row
            BY <1>1, <1>3, EmptySeq
      <2>2. Sums(rows)[n] = Sums(more)[n]
            <3>1. n \in 1..Len(rows) /\ n <= Len(more) /\ \A i \in 1..n : more[i] = rows[i]
                  BY <1>1, <2>1
            <3> HIDE DEF n, more
            <3> QED
                BY <2>1, <3>1, SumsAgree
      <2>3. FlattenSeq(more) = Sums(more)[n + 1] /\ Sums(more)[n + 1] = Sums(more)[n] \o row
            <3> HIDE DEF n, more
            <3>1. n + 1 \in 1..Len(more) /\ n + 1 # 1 /\ (n + 1) - 1 = n /\ Len(more) # 0
                  BY <2>1
            <3> QED
                BY <1>2, <2>1, <3>1, SumsAre
      <2>4. FlattenSeq(rows) = Sums(rows)[n]
            BY <2>1, FlattenIs
      <2> QED
          BY <2>2, <2>3, <2>4
<1>4. FlattenSeq(Append(<< >>, row)) = row
      <2> DEFINE one == Append(<< >>, row)
      <2>1. one \in Seq(Seq(S)) /\ Len(one) = 1 /\ one[1] = row
            OBVIOUS
      <2> HIDE DEF one
      <2>2. FlattenSeq(one) = Sums(one)[1] /\ Sums(one)[1] = one[1]
            <3>1. Len(one) # 0
                  BY <2>1
            <3> QED
                BY <1>2, <2>1, <3>1, SumsAre
      <2> QED
          BY <2>1, <2>2 DEF one
<1>5. FlattenSeq(rows) \in Seq(S)
      <2>1. CASE Len(rows) = 0
            BY <2>1 DEF FlattenSeq
      <2>2. CASE Len(rows) # 0
            BY <1>2, <2>2
      <2> QED
          BY <2>1, <2>2
<1> QED
    BY <1>3, <1>4, <1>5

-----------------------------------------------------------------------------
(* Buffers over the memory of others. *)

Byte == Char \cup {Nul, CR, NL, HeaderByte, Other}

\* A buffer over max bytes that leaves those behind them alone; and one whose cursors are
\* where its writes have left them.
Buffer(max) ==
    {b \in [mem : [0..(max + 4) -> Byte], pos : Nat, length : Nat, max : {max}] :
        b.length <= max /\ b.pos <= b.length /\ \A i \in (max + 1)..(max + 4) : b.mem[i] = Other}
Written(max) == {b \in Buffer(max) : b.pos = b.length}

\* What is in a buffer.
LEMMA ContentIs ==
    ASSUME NEW max \in Nat, NEW b \in Buffer(max)
    PROVE  /\ Content(b) \in Seq(Byte) /\ Len(Content(b)) = b.length
           /\ \A k \in 1..b.length : Content(b)[k] = b.mem[k] /\ b.mem[k] \in Byte
<1>1. b.mem \in [0..(max + 4) -> Byte] /\ b.length \in Nat /\ b.length <= max
      BY DEF Buffer
<1>2. \A k \in 1..b.length : b.mem[k] \in Byte
      BY <1>1
<1> QED
    BY <1>1, <1>2 DEF Content

\* Bytes r that are m but for s at the offset at.
Stored(max, m, s, at, r) ==
    /\ r \in [0..(max + 4) -> Byte]
    /\ \A i \in 0..(max + 4) :
        /\ i <= at => r[i] = m[i]
        /\ at < i /\ i <= at + Len(s) => r[i] = s[i - at]
        /\ at + Len(s) < i => r[i] = m[i]

\* memcpy and its like store s and nothing else.
LEMMA PutIs ==
    ASSUME NEW max \in Nat, NEW m \in [0..(max + 4) -> Byte], NEW s \in Seq(Byte), NEW at \in Nat
    PROVE  Stored(max, m, s, at, Put(m, s, at))
<1>1. ASSUME NEW i \in 0..(max + 4), i - at \in DOMAIN s PROVE s[i - at] \in Byte
      BY <1>1
<1>2. Put(m, s, at) \in [0..(max + 4) -> Byte]
      BY <1>1 DEF Put
<1>3. ASSUME NEW i \in 0..(max + 4)
      PROVE  Put(m, s, at)[i] = IF at < i /\ i <= at + Len(s) THEN s[i - at] ELSE m[i]
      <2>1. i - at \in DOMAIN s <=> at < i /\ i <= at + Len(s)
            OBVIOUS
      <2>2. Put(m, s, at)[i] = IF i - at \in DOMAIN s THEN s[i - at] ELSE m[i]
            BY DEF Put
      <2> QED
          BY <2>1, <2>2
<1>4. ASSUME NEW i \in 0..(max + 4)
      PROVE  /\ i <= at => ~(at < i /\ i <= at + Len(s))
             /\ at + Len(s) < i => ~(at < i /\ i <= at + Len(s))
      OBVIOUS
<1> QED
    BY <1>2, <1>3, <1>4 DEF Stored

\* Write, where the last one has left off: what fits of s comes behind what is there, and
\* a terminator where there is room.
Wrote(max, b, s, n, r) ==
    /\ r \in Written(max) /\ r.length = b.length + n /\ n \in 0..Len(s)
    /\ \A k \in 0..b.length : r.mem[k] = b.mem[k]
    /\ \A k \in 1..n : r.mem[b.length + k] = s[k]
    /\ r.length < max - 4 => \A k \in 1..3 : r.mem[r.length + k] = Nul

LEMMA WriteIs ==
    ASSUME NEW max \in Nat, NEW b \in Written(max), NEW s \in Seq(Byte)
    PROVE  Wrote(max, b, s, Lesser(Len(s), max - b.length), Write(b, s))
<1> DEFINE n == Lesser(Len(s), max - b.length)
           r == Write(b, s)
<1>0. /\ b.max = max /\ b.mem \in [0..(max + 4) -> Byte] /\ b.pos = b.length /\ b.length \in 0..max
      /\ \A i \in (max + 1)..(max + 4) : b.mem[i] = Other
      /\ b = [mem |-> b.mem, pos |-> b.pos, length |-> b.length, max |-> b.max]
      /\ b \in [mem : [0..(max + 4) -> Byte], pos : Nat, length : Nat, max : {max}]
      BY DEF Written, Buffer
<1>1. n \in 0..Len(s) /\ n <= max - b.length /\ b.length + n \in 0..max /\ n = Lesser(Len(s), max - b.length)
      BY <1>0 DEF Lesser
<1> HIDE DEF n
<1>2. Fits(b, s) = n /\ Greater(b.length, b.pos + n) = b.length + n
      BY <1>0, <1>1 DEF Fits, Greater
<1>3. Lesser(b.pos + Len(s), b.length + n) = b.length + n
      BY <1>0, <1>1 DEF Lesser
<1> DEFINE t == SubSeq(s, 1, n)
           m1 == Put(b.mem, t, b.pos)
           m2 == Put(m1, Terminator, b.pos + n)
<1>4. t \in Seq(Byte) /\ Len(t) = n /\ \A k \in 1..n : t[k] = s[k]
      BY <1>1
<1>5. /\ Terminator \in Seq(Byte) /\ Len(Terminator) = 4
      /\ Terminator[1] = Nul /\ Terminator[2] = Nul /\ Terminator[3] = Nul
      BY DEF Terminator, Byte
<1>6. r = [mem |-> IF b.length + n < max - 4 THEN m2 ELSE m1,
           length |-> b.length + n, pos |-> b.length + n, max |-> max]
      <2>1. r = [b EXCEPT !.mem = IF HasRoom(b, b.length + n) THEN m2 ELSE m1,
                          !.length = b.length + n, !.pos = b.length + n]
            BY <1>2, <1>3 DEF Write
      <2> HIDE DEF r
      <2> QED
          BY <1>0, <2>1 DEF HasRoom
<1> HIDE DEF t, r
<1>7. /\ m1 \in [0..(max + 4) -> Byte]
      /\ \A i \in 0..(max + 4) :
            /\ i <= b.pos => m1[i] = b.mem[i]
            /\ b.pos < i /\ i <= b.pos + n => m1[i] = t[i - b.pos]
            /\ b.pos + n < i => m1[i] = b.mem[i]
      <2>1. b.pos \in Nat
            BY <1>0
      <2>2. Stored(max, b.mem, t, b.pos, m1)
            BY <1>0, <1>4, <2>1, PutIs
      <2> QED
          BY <1>4, <2>2 DEF Stored
<1> HIDE DEF m1
<1>8. /\ m2 \in [0..(max + 4) -> Byte]
      /\ \A i \in 0..(max + 4) :
            /\ i <= b.pos + n => m2[i] = m1[i]
            /\ b.pos + n < i /\ i <= b.pos + n + 4 => m2[i] = Terminator[i - (b.pos + n)]
            /\ b.pos + n + 4 < i => m2[i] = m1[i]
      <2>1. b.pos + n \in Nat
            BY <1>0, <1>1
      <2>2. Stored(max, m1, Terminator, b.pos + n, m2)
            BY <1>5, <1>7, <2>1, PutIs
      <2> QED
          BY <1>5, <2>2 DEF Stored
<1> HIDE DEF m2
<1>9. /\ r.mem \in [0..(max + 4) -> Byte] /\ r.pos = b.length + n /\ r.length = b.length + n
      /\ r.max = max /\ r.mem = IF b.length + n < max - 4 THEN m2 ELSE m1
      /\ r \in [mem : [0..(max + 4) -> Byte], pos : Nat, length : Nat, max : {max}]
      BY <1>0, <1>1, <1>6, <1>7, <1>8
<1>10. \A i \in 0..(max + 4) : i <= b.length + n => r.mem[i] = m1[i]
       BY <1>0, <1>1, <1>8, <1>9
<1>11. \A i \in (max + 1)..(max + 4) : r.mem[i] = Other
       <2> SUFFICES ASSUME NEW i \in (max + 1)..(max + 4) PROVE r.mem[i] = Other
           OBVIOUS
       <2>1. i \in 0..(max + 4) /\ b.pos + n < i /\ b.mem[i] = Other
             BY <1>0, <1>1
       <2>2. CASE b.length + n < max - 4
             BY <1>0, <1>1, <1>7, <1>8, <1>9, <2>1, <2>2
       <2>3. CASE ~(b.length + n < max - 4)
             BY <1>7, <1>9, <2>1, <2>3
       <2> QED
           BY <2>2, <2>3
<1>12. r \in Written(max)
       BY <1>1, <1>9, <1>11 DEF Written, Buffer
<1>13. \A k \in 0..b.length : r.mem[k] = b.mem[k]
       BY <1>0, <1>1, <1>7, <1>10
<1>14. \A k \in 1..n : r.mem[b.length + k] = s[k]
       <2> SUFFICES ASSUME NEW k \in 1..n PROVE r.mem[b.length + k] = s[k]
           OBVIOUS
       <2>1. /\ b.length + k \in 0..(max + 4) /\ b.pos < b.length + k /\ b.length + k <= b.pos + n
             /\ (b.length + k) - b.pos = k
             BY <1>0, <1>1
       <2> QED
           BY <1>0, <1>4, <1>7, <1>10, <2>1
<1>15. ASSUME r.length < max - 4, NEW k \in 1..3 PROVE r.mem[r.length + k] = Nul
       <2>1. /\ r.length + k \in 0..(max + 4) /\ b.pos + n < r.length + k
             /\ r.length + k <= b.pos + n + 4 /\ (r.length + k) - (b.pos + n) = k
             <3>1. r.length = b.length + n /\ b.pos + n = b.length + n /\ b.length + n \in Nat
                   BY <1>0, <1>1, <1>9
             <3> DEFINE end == b.length + n
             <3>2. b.pos + n = end /\ r.length = end /\ end \in Nat
                   BY <3>1
             <3> HIDE DEF m1, m2, end
             <3>3. end < max - 4
                   BY <1>15, <3>2
             <3>4. /\ end + k \in 0..(max + 4) /\ end < end + k /\ end + k <= end + 4
                   /\ (end + k) - end = k
                   BY <3>2, <3>3
             <3> QED
                 BY <3>2, <3>4
       <2>2. r.mem[r.length + k] = Terminator[k]
             BY <1>8, <1>9, <1>15, <2>1
       <2> QED
           BY <1>5, <2>2
<1>16. Wrote(max, b, s, n, r)
       BY <1>1, <1>9, <1>12, <1>13, <1>14, <1>15 DEF Wrote
<1> QED
    BY <1>16 DEF n, r

\* A buffer of these bytes with nothing written to it.
EmptyOver(max, m) == [mem |-> m, pos |-> 0, length |-> 0, max |-> max]

LEMMA EmptyIs ==
    ASSUME NEW max \in Nat, NEW m \in [0..(max + 4) -> Byte],
           \A i \in (max + 1)..(max + 4) : m[i] = Other
    PROVE  /\ EmptyOver(max, m) \in Written(max)
           /\ EmptyOver(max, m).length = 0 /\ EmptyOver(max, m).mem = m
<1>1. EmptyOver(max, m) \in [mem : [0..(max + 4) -> Byte], pos : Nat, length : Nat, max : {max}]
      BY DEF EmptyOver
<1>2. /\ EmptyOver(max, m).mem = m /\ EmptyOver(max, m).pos = 0
      /\ EmptyOver(max, m).length = 0 /\ EmptyOver(max, m).max = max
      BY DEF EmptyOver
<1> QED
    BY <1>1, <1>2 DEF Written, Buffer

\* The constructor's.
LEMMA OverIs ==
    ASSUME NEW max \in Nat
    PROVE  /\ Over(max, Nul, Other) \in Written(max) /\ Over(max, Nul, Other).length = 0
           /\ Over(max, Nul, Other).mem[0] = Other
           /\ Over(max, Nul, Other) = EmptyOver(max, Over(max, Nul, Other).mem)
<1> DEFINE m == [i \in 0..(max + 4) |-> IF i \in 1..max THEN Nul ELSE Other]
<1>1. Over(max, Nul, Other) = EmptyOver(max, m)
      BY DEF Over, EmptyOver
<1>2. m \in [0..(max + 4) -> Byte]
      BY DEF Byte
<1>3. m[0] = Other
      OBVIOUS
<1>4. \A i \in (max + 1)..(max + 4) : m[i] = Other
      OBVIOUS
<1> HIDE DEF m
<1> QED
    BY <1>1, <1>2, <1>3, <1>4, EmptyIs

\* One byte of it changed, or the one before it.
LEMMA ChangedIs ==
    ASSUME NEW max \in Nat, NEW b \in Buffer(max), NEW at \in 0..max, NEW byte \in Byte
    PROVE  LET r == EmptyOver(max, [b.mem EXCEPT ![at] = byte])
           IN r \in Written(max) /\ r.length = 0 /\ (at # 0 => r.mem[0] = b.mem[0])
<1> DEFINE m == [b.mem EXCEPT ![at] = byte]
<1>1. b.mem \in [0..(max + 4) -> Byte] /\ \A i \in (max + 1)..(max + 4) : b.mem[i] = Other
      BY DEF Buffer
<1>2. m \in [0..(max + 4) -> Byte]
      BY <1>1
<1>3. \A i \in (max + 1)..(max + 4) : m[i] = Other
      <2>1. \A i \in (max + 1)..(max + 4) : i \in 0..(max + 4) /\ i # at
            OBVIOUS
      <2> QED
          BY <1>1, <2>1
<1>4. at # 0 => m[0] = b.mem[0]
      BY <1>1
<1> HIDE DEF m
<1>5. /\ EmptyOver(max, m) \in Written(max)
      /\ EmptyOver(max, m).length = 0 /\ EmptyOver(max, m).mem = m
      BY <1>2, <1>3, EmptyIs
<1> QED
    BY <1>4, <1>5 DEF m

-----------------------------------------------------------------------------
(* mtaf_log_formater. *)

\* What the assumption says of the lengths.
LEMMA Lengths ==
    /\ TempLen \in Nat /\ HeaderCap \in Nat /\ Reserve \in Nat /\ BlockLen \in Nat /\ Unit \in Nat
    /\ FormatCap \in Nat /\ MaxAppends \in Nat
    /\ TempLen > 0 /\ HeaderCap > 1 /\ Reserve > 0 /\ BlockLen > 0 /\ Unit > 0 /\ FormatCap > 0
    /\ HeaderCap + Reserve + Len(ErrorText) < TempLen /\ Len(Message) < TempLen
    /\ (BlockLen * 4) \div 5 + TempLen < BlockLen - 3
    /\ Len(ErrorText) \in Nat \ {0} /\ Len(Message) \in Nat \ {0}
    /\ ErrorText \in Seq(Char) /\ Message \in Seq(Char)
<1>1. ErrorText \in Seq(Char) /\ Message \in Seq(Char) /\ ErrorText # << >> /\ Message # << >>
      BY RecordAssumption
<1>2. Len(ErrorText) \in Nat \ {0} /\ Len(Message) \in Nat \ {0}
      BY <1>1, EmptySeq
<1>3. {TempLen, HeaderCap, Reserve, BlockLen, Unit, FormatCap, MaxAppends} \subseteq Nat \ {0}
      BY RecordAssumption
<1>4. /\ TempLen \in Nat \ {0} /\ HeaderCap \in Nat \ {0} /\ Reserve \in Nat \ {0} /\ BlockLen \in Nat \ {0}
      /\ Unit \in Nat \ {0} /\ FormatCap \in Nat \ {0} /\ MaxAppends \in Nat \ {0}
      BY <1>3
<1>5. /\ HeaderCap > 1 /\ HeaderCap + Reserve + Len(ErrorText) < TempLen /\ Len(Message) < TempLen
      /\ (BlockLen * 4) \div 5 + TempLen < BlockLen - 3
      BY RecordAssumption
<1> QED
    BY <1>1, <1>2, <1>4, <1>5

\* What mtaf_log_formater is called with.
Logged == Seq(Char) \cup {NoBody}

\* What the body of a record comes to, behind a header.
Said(header, body) ==
    IF body = NoBody THEN ErrorText
    ELSE SubSeq(body, 1, Lesser(Len(body), Greater(0, TempLen - Lesser(TempLen, header) - Reserve)))

\* It is cut so that the line can end.
LEMMA SaidIs ==
    ASSUME NEW header \in Nat, NEW body \in Logged
    PROVE  /\ Said(header, body) \in Seq(Char) /\ Said(header, body) \in Seq(Byte)
           /\ body # NoBody /\ header + Reserve < TempLen
                => Said(header, body) = SubSeq(body, 1, Lesser(Len(body), TempLen - Reserve - header))
           /\ body # NoBody /\ header < TempLen => header + Len(Said(header, body)) < TempLen
<1>1. CASE body = NoBody
      BY <1>1, Lengths DEF Said, Byte
<1>2. CASE body # NoBody
      <2> DEFINE l == Lesser(TempLen, header)
                 n == Lesser(Len(body), Greater(0, TempLen - l - Reserve))
      <2>1. body \in Seq(Char) /\ Len(body) \in Nat
            BY <1>2 DEF Logged
      <2>2. l \in Nat /\ l <= TempLen /\ (header <= TempLen => l = header)
            BY Lengths DEF Lesser
      <2>3. /\ n \in 0..Len(body) /\ (n = 0 \/ n + l + Reserve <= TempLen)
            /\ l + Reserve <= TempLen => n = Lesser(Len(body), TempLen - l - Reserve)
            <3> DEFINE g == Greater(0, TempLen - l - Reserve)
            <3>1. g = IF l + Reserve <= TempLen THEN TempLen - l - Reserve ELSE 0
                  BY <2>2, Lengths DEF Greater
            <3>0. n = Lesser(Len(body), g)
                  OBVIOUS
            <3> HIDE DEF g, l, n
            <3>2. g \in Nat /\ (g = 0 \/ g + l + Reserve <= TempLen)
                  BY <2>2, <3>1, Lengths
            <3>3. n \in 0..Len(body) /\ n <= g
                  BY <2>1, <3>0, <3>2 DEF Lesser
            <3>4. l + Reserve <= TempLen => n = Lesser(Len(body), TempLen - l - Reserve)
                  BY <3>0, <3>1
            <3> QED
                BY <2>2, <3>2, <3>3, <3>4, Lengths
      <2>4. Said(header, body) = SubSeq(body, 1, n)
            BY <1>2 DEF Said
      <2> HIDE DEF n, l
      <2>5. SubSeq(body, 1, n) \in Seq(Char) /\ Len(SubSeq(body, 1, n)) = n
            BY <2>1, <2>3
      <2>6. SubSeq(body, 1, n) \in Seq(Byte)
            BY <2>5 DEF Byte
      <2>7. ASSUME header + Reserve < TempLen PROVE n = Lesser(Len(body), TempLen - Reserve - header)
            <3>1. l = header /\ l + Reserve <= TempLen
                  BY <2>2, <2>7, Lengths
            <3>2. TempLen - l - Reserve = TempLen - Reserve - header
                  BY <3>1, Lengths
            <3> QED
                BY <2>3, <3>1, <3>2
      <2>8. ASSUME header < TempLen PROVE header + n < TempLen
            BY <2>2, <2>3, <2>8, Lengths
      <2> QED
          BY <1>2, <2>4, <2>5, <2>6, <2>7, <2>8
<1> QED
    BY <1>1, <1>2

\* The array before anything is written to it.
Fresh(before) == [Over(TempLen, Nul, Other) EXCEPT !.mem[0] = before]

LEMMA FreshIs ==
    ASSUME NEW before \in {NL, Other}
    PROVE  Fresh(before) \in Written(TempLen) /\ Fresh(before).length = 0
<1> DEFINE o == Over(TempLen, Nul, Other)
<1>1. o \in Buffer(TempLen) /\ o = EmptyOver(TempLen, o.mem) /\ 0 \in 0..TempLen
      BY Lengths, OverIs DEF Written
<1>2. Fresh(before) = [o EXCEPT !.mem = [@ EXCEPT ![0] = before]]
      BY DEF Fresh
<1>3. before \in Byte
      BY DEF Byte
<1> HIDE DEF o
<1>4. Fresh(before) = EmptyOver(TempLen, [o.mem EXCEPT ![0] = before])
      BY <1>1, <1>2 DEF EmptyOver
<1> QED
    BY <1>1, <1>3, <1>4, Lengths, ChangedIs

\* The header: as long as it is said to be, up to the array; its printed part is no NUL.
LEMMA HeaderIs ==
    ASSUME NEW b \in Written(TempLen), b.length = 0, NEW n \in Nat, NEW r, r = Header(b, n)
    PROVE  /\ r \in Written(TempLen) /\ r.length = Lesser(TempLen, n)
           /\ \A k \in 1..Lesser(n, HeaderCap - 1) : r.mem[k] = HeaderByte
<1>0. /\ b.max = TempLen /\ b.mem \in [0..(TempLen + 4) -> Byte] /\ b.pos = 0 /\ b.length = 0
      /\ \A i \in (TempLen + 1)..(TempLen + 4) : b.mem[i] = Other
      /\ b \in [mem : [0..(TempLen + 4) -> Byte], pos : Nat, length : Nat, max : {TempLen}]
      BY DEF Written, Buffer
<1>1. CASE n = 0
      <2>1. r = b
            BY <1>1 DEF Header
      <2>2. Lesser(TempLen, n) = 0 /\ Lesser(n, HeaderCap - 1) = 0
            BY <1>1, Lengths DEF Lesser
      <2> QED
          BY <1>0, <2>1, <2>2
<1>2. CASE n # 0
      <2> DEFINE l == Lesser(n, HeaderCap - 1)
                 h == [i \in 1..l |-> HeaderByte]
                 printed == h \o <<Nul>>
                 m == Put(b.mem, printed, b.pos)
                 len == Lesser(TempLen, n)
      <2>1. l \in Nat /\ l + 1 <= HeaderCap /\ l + 1 <= TempLen
            BY Lengths DEF Lesser
      <2>2. len \in 0..TempLen /\ Lesser(len, len) = len /\ Lesser(n, len) = len
            BY Lengths DEF Lesser
      <2>3. h \in Seq(Byte) /\ Len(h) = l /\ \A k \in 1..l : h[k] = HeaderByte
            BY <2>1 DEF Byte
      <2>4. <<Nul>> \in Seq(Byte) /\ Len(<<Nul>>) = 1
            BY DEF Byte
      <2> HIDE DEF h
      <2>5. /\ printed \in Seq(Byte) /\ Len(printed) = l + 1
            /\ \A k \in 1..l : printed[k] = HeaderByte
            BY <2>1, <2>3, <2>4
      <2>6. r = [b EXCEPT !.mem = m, !.length = len, !.pos = len]
            <3>1. r = SetLength([b EXCEPT !.mem = Put(@, printed, b.pos)], b.pos + n, b.length + n)
                  BY <1>2 DEF Header, h
            <3> HIDE DEF printed
            <3>2. b.pos + n = n /\ b.length + n = n
                  BY <1>0
            <3>3. [b EXCEPT !.mem = Put(@, printed, b.pos)] = [b EXCEPT !.mem = m]
                  BY <1>0
            <3> HIDE DEF m
            <3>4. r = SetLength([b EXCEPT !.mem = m], n, n)
                  BY <3>1, <3>2, <3>3
            <3>5. [b EXCEPT !.mem = m].max = TempLen
                  BY <1>0
            <3>6. r = [[b EXCEPT !.mem = m] EXCEPT !.length = len, !.pos = Lesser(n, len)]
                  BY <3>4, <3>5 DEF SetLength
            <3> QED
                BY <1>0, <2>2, <3>6
      <2> HIDE DEF printed, len
      <2>7. Stored(TempLen, b.mem, printed, b.pos, m)
            BY <1>0, <2>5, Lengths, PutIs
      <2> HIDE DEF m
      <2>8. /\ r.mem = m /\ r.length = len /\ r.pos = len /\ r.max = TempLen
            /\ m \in [0..(TempLen + 4) -> Byte]
            /\ r \in [mem : [0..(TempLen + 4) -> Byte], pos : Nat, length : Nat, max : {TempLen}]
            <3>1. m \in [0..(TempLen + 4) -> Byte]
                  BY <2>7 DEF Stored
            <3>2. b = [mem |-> b.mem, pos |-> b.pos, length |-> b.length, max |-> TempLen]
                  BY <1>0
            <3>3. r = [mem |-> m, pos |-> len, length |-> len, max |-> TempLen]
                  BY <1>0, <2>6, <3>2
            <3> QED
                BY <2>2, <3>1, <3>3
      <2>9. \A i \in (TempLen + 1)..(TempLen + 4) : m[i] = Other
            <3> SUFFICES ASSUME NEW i \in (TempLen + 1)..(TempLen + 4) PROVE m[i] = Other
                OBVIOUS
            <3>1. i \in 0..(TempLen + 4) /\ b.pos + Len(printed) < i
                  BY <1>0, <2>1, <2>5, Lengths
            <3> QED
                BY <1>0, <2>7, <3>1 DEF Stored
      <2>10. \A k \in 1..l : m[k] = HeaderByte
            <3> SUFFICES ASSUME NEW k \in 1..l PROVE m[k] = HeaderByte
                OBVIOUS
            <3> HIDE DEF l
            <3>1. k \in 0..(TempLen + 4) /\ b.pos < k /\ k <= b.pos + Len(printed) /\ k - b.pos = k
                  BY <1>0, <2>1, <2>5, Lengths
            <3> QED
                BY <2>5, <2>7, <3>1 DEF Stored
      <2>11. r \in Written(TempLen)
            <3> HIDE DEF l
            <3>1. r.length <= TempLen /\ r.pos <= r.length /\ r.pos = r.length
                  BY <2>2, <2>8, Lengths
            <3> QED
                BY <2>8, <2>9, <3>1 DEF Written, Buffer
      <2> QED
          BY <2>8, <2>10, <2>11 DEF len
<1> QED
    BY <1>1, <1>2

\* The end of a line: there is a newline already, or there is no room, or it is written.
LEMMA EndLineIs ==
    ASSUME NEW b \in Written(TempLen), NEW r, r = EndLine(b)
    PROVE  /\ r \in Written(TempLen)
           /\ \A k \in 0..b.length : r.mem[k] = b.mem[k]
           /\ \/ b.mem[b.length] = NL /\ r.length = b.length
              \/ b.mem[b.length] # NL /\ b.length = TempLen /\ r.length = b.length
              \/ /\ b.mem[b.length] # NL /\ b.length < TempLen
                 /\ r.length = b.length + 1 /\ r.mem[r.length] = NL
<1>0. b.pos = b.length /\ b.length \in 0..TempLen
      BY DEF Written, Buffer
<1>1. CASE b.mem[b.length] = NL
      BY <1>0, <1>1 DEF EndLine
<1>2. CASE b.mem[b.length] # NL
      <2> DEFINE n == Lesser(Len(<<NL>>), TempLen - b.length)
      <2>1. <<NL>> \in Seq(Byte) /\ Len(<<NL>>) = 1 /\ <<NL>>[1] = NL
            BY DEF Byte
      <2>2. n = IF b.length = TempLen THEN 0 ELSE 1
            BY <1>0, <2>1, Lengths DEF Lesser
      <2>3. r = Write(b, <<NL>>)
            BY <1>0, <1>2 DEF EndLine
      <2>4. /\ r \in Written(TempLen) /\ r.length = b.length + n
            /\ \A k \in 0..b.length : r.mem[k] = b.mem[k]
            /\ \A k \in 1..n : r.mem[b.length + k] = <<NL>>[k]
            <3>1. Wrote(TempLen, b, <<NL>>, n, r)
                  BY <2>1, <2>3, Lengths, WriteIs
            <3> QED
                BY <3>1 DEF Wrote
      <2> QED
          BY <1>0, <1>2, <2>1, <2>2, <2>4, Lengths
<1> QED
    BY <1>1, <1>2

\* What mtaf_log_formater makes of c.
Formed(c, f) ==
    /\ f \in Written(TempLen)
    /\ f.length > 0 => f.mem[1] # Nul
    /\ f.length > 0 /\ c.header + Len(ErrorText) < TempLen => f.mem[f.length] = NL
    /\ c.header < HeaderCap =>
        /\ \A k \in 1..f.length : f.mem[k] # Nul
        /\ (c.header = 0 /\ c.body = << >> /\ f.length = 0) \/ Content(f) = AsAsked(c)

\* A line of mtaf_log_formater: header, body and newline, each where it should be, and no
\* NUL in them as long as snprintf printed all of the header.
LEMMA FormattedIs ==
    ASSUME NEW c, c.header \in Nat, c.body \in Logged, NEW before \in {NL, Other}
    PROVE  Formed(c, Formatted(c, before))
<1> DEFINE h == Header(Fresh(before), c.header)
           s == Said(c.header, c.body)
           n == Lesser(Len(s), TempLen - h.length)
           b == Body(h, c.body)
           f == EndLine(b)
<1>1. Formatted(c, before) = f
      BY DEF Formatted, Fresh
<1>2. /\ h \in Written(TempLen) /\ h.length = Lesser(TempLen, c.header)
      /\ \A k \in 1..Lesser(c.header, HeaderCap - 1) : h.mem[k] = HeaderByte
      BY FreshIs, HeaderIs
<1> HIDE DEF h
<1>3. h.max = TempLen /\ h.length \in 0..TempLen
      BY <1>2 DEF Written, Buffer
<1>4. /\ s \in Seq(Char) /\ s \in Seq(Byte) /\ Len(s) \in Nat
      /\ c.body # NoBody /\ c.header + Reserve < TempLen
            => s = SubSeq(c.body, 1, Lesser(Len(c.body), TempLen - Reserve - c.header))
      /\ c.body # NoBody /\ c.header < TempLen => c.header + Len(s) < TempLen
      /\ c.body = NoBody => s = ErrorText
      <2>1. /\ s \in Seq(Char) /\ s \in Seq(Byte)
            /\ c.body # NoBody /\ c.header + Reserve < TempLen
                  => s = SubSeq(c.body, 1, Lesser(Len(c.body), TempLen - Reserve - c.header))
            /\ c.body # NoBody /\ c.header < TempLen => c.header + Len(s) < TempLen
            BY SaidIs
      <2>2. c.body = NoBody => s = ErrorText
            BY DEF Said
      <2> HIDE DEF s
      <2> QED
          BY <2>1, <2>2
<1>5. b = Write(h, s)
      BY <1>2, <1>3 DEF Body, BodyRoom, Said
<1> HIDE DEF b, s
<1>6. Wrote(TempLen, h, s, n, b)
      BY <1>2, <1>4, <1>5, Lengths, WriteIs
<1>7. /\ b \in Written(TempLen) /\ b.length = h.length + n /\ n \in 0..Len(s)
      /\ \A k \in 0..h.length : b.mem[k] = h.mem[k]
      /\ \A k \in 1..n : b.mem[h.length + k] = s[k]
      BY <1>6 DEF Wrote
<1>8. n = Lesser(Len(s), TempLen - h.length)
      OBVIOUS
<1> HIDE DEF n
<1>9. b.length \in 0..TempLen
      BY <1>7 DEF Written, Buffer
<1>10. /\ f \in Written(TempLen)
       /\ \A k \in 0..b.length : f.mem[k] = b.mem[k]
       /\ \/ b.mem[b.length] = NL /\ f.length = b.length
          \/ b.mem[b.length] # NL /\ b.length = TempLen /\ f.length = b.length
          \/ /\ b.mem[b.length] # NL /\ b.length < TempLen
             /\ f.length = b.length + 1 /\ f.mem[f.length] = NL
       BY <1>7, EndLineIs
<1> HIDE DEF f
<1>11. NL # Nul /\ HeaderByte # Nul /\ Nul \notin Char
       BY RecordAssumption
<1>12. ASSUME f.length > 0 PROVE f.mem[1] # Nul
       <2>1. CASE c.header > 0
             <3>1. 1 \in 1..Lesser(c.header, HeaderCap - 1) /\ 1 \in 0..h.length
                   BY <1>2, <2>1, Lengths DEF Lesser
             <3>2. 1 \in 0..b.length
                   BY <1>3, <1>7, <3>1
             <3> QED
                 BY <1>2, <1>7, <1>10, <1>11, <3>1, <3>2
       <2>2. CASE c.header = 0 /\ n > 0
             <3>1. h.length = 0
                   BY <1>2, <2>2, Lengths DEF Lesser
             <3>2. 1 \in 1..n /\ h.length + 1 = 1 /\ 1 \in 0..b.length /\ 1 \in 1..Len(s)
                   BY <1>7, <2>2, <3>1
             <3>3. s[1] \in Char
                   BY <1>4, <3>2
             <3>4. f.mem[1] = b.mem[1] /\ b.mem[1] = s[1]
                   BY <1>7, <1>10, <3>2
             <3> QED
                 BY <1>11, <3>3, <3>4
       <2>3. CASE c.header = 0 /\ ~(n > 0)
             <3>1. h.length = 0
                   BY <1>2, <2>3, Lengths DEF Lesser
             <3>2. b.length = 0
                   BY <1>7, <2>3, <3>1
             <3> QED
                 BY <1>10, <1>11, <1>12, <3>2
       <2> QED
           BY <2>1, <2>2, <2>3
<1>13. ASSUME f.length > 0, c.header + Len(ErrorText) < TempLen PROVE f.mem[f.length] = NL
       <2>1. c.header < TempLen /\ h.length = c.header
             BY <1>2, <1>13, Lengths DEF Lesser
       <2>2. c.header + Len(s) < TempLen
             BY <1>4, <1>13, <2>1
       <2>3. b.length < TempLen
             <3>1. n \in Nat /\ n <= Len(s) /\ Len(s) \in Nat /\ b.length = c.header + n
                   BY <1>4, <1>7, <2>1
             <3> QED
                 BY <2>2, <3>1, Lengths
       <2>4. b.length \in 0..b.length
             BY <1>9
       <2> QED
           BY <1>9, <1>10, <2>3, <2>4
<1>14. ASSUME c.header < HeaderCap
       PROVE  /\ \A k \in 1..f.length : f.mem[k] # Nul
              /\ (c.header = 0 /\ c.body = << >> /\ f.length = 0) \/ Content(f) = AsAsked(c)
       <2> DEFINE head == [i \in 1..c.header |-> HeaderByte]
                  text == head \o s
       <2>1. /\ h.length = c.header /\ Lesser(c.header, HeaderCap - 1) = c.header
             /\ c.header + Reserve < TempLen /\ c.header + Len(s) < TempLen
             <3>1. c.header + Reserve < TempLen /\ c.header + Len(ErrorText) < TempLen /\ c.header < TempLen
                   BY <1>14, Lengths
             <3>2. c.header + Len(s) < TempLen
                   BY <1>4, <3>1
             <3>3. h.length = c.header
                   BY <1>2, <3>1, Lengths DEF Lesser
             <3>4. Lesser(c.header, HeaderCap - 1) = c.header
                   BY <1>14, Lengths DEF Lesser
             <3> QED
                 BY <3>1, <3>2, <3>3, <3>4
       <2>2. n = Len(s) /\ b.length = c.header + Len(s) /\ b.length < TempLen
             BY <1>4, <1>7, <1>8, <2>1, Lengths DEF Lesser
       <2>3. /\ head \in Seq(Byte) /\ Len(head) = c.header
             /\ \A k \in 1..c.header : head[k] = HeaderByte
             BY DEF Byte
       <2> HIDE DEF head
       <2>4. /\ text \in Seq(Byte) /\ Len(text) = b.length
             /\ \A k \in 1..c.header : text[k] = HeaderByte
             /\ \A k \in 1..Len(s) : text[c.header + k] = s[k]
             <3>1. text \in Seq(Byte) /\ Len(text) = Len(head) + Len(s)
                   BY <1>4, <2>3
             <3>2. /\ \A k \in 1..Len(head) : text[k] = head[k]
                   /\ \A k \in 1..Len(s) : text[Len(head) + k] = s[k]
                   BY <1>4, <2>3
             <3> HIDE DEF text
             <3> QED
                 BY <2>2, <2>3, <3>1, <3>2
       <2> HIDE DEF text
       <2>5. \A k \in 1..b.length : b.mem[k] = text[k] /\ text[k] # Nul /\ f.mem[k] = b.mem[k]
             <3> SUFFICES ASSUME NEW k \in 1..b.length
                          PROVE  b.mem[k] = text[k] /\ text[k] # Nul /\ f.mem[k] = b.mem[k]
                 OBVIOUS
             <3>1. CASE k <= c.header
                   <4>1. k \in 1..c.header /\ k \in 0..h.length /\ k \in 0..b.length
                         BY <1>9, <2>1, <3>1
                   <4> QED
                       BY <1>2, <1>7, <1>10, <1>11, <2>1, <2>4, <4>1
             <3>2. CASE k > c.header
                   <4>1. /\ k - c.header \in 1..n /\ k - c.header \in 1..Len(s) /\ k \in 0..b.length
                         /\ h.length + (k - c.header) = k /\ c.header + (k - c.header) = k
                         BY <1>9, <2>1, <2>2, <3>2
                   <4>2. s[k - c.header] \in Char
                         BY <1>4, <4>1
                   <4>3. b.mem[h.length + (k - c.header)] = s[k - c.header]
                         BY <1>7, <4>1
                   <4>4. text[c.header + (k - c.header)] = s[k - c.header]
                         BY <2>4, <4>1
                   <4>5. b.mem[k] = s[k - c.header] /\ text[k] = s[k - c.header]
                         BY <4>1, <4>3, <4>4
                   <4> QED
                       BY <1>10, <1>11, <4>1, <4>2, <4>5
             <3> QED
                 BY <3>1, <3>2
       <2>6. AsAsked(c) = IF text # << >> /\ Last(text) = NL THEN text ELSE Append(text, NL)
             <3>1. s = IF c.body = NoBody THEN ErrorText
                       ELSE SubSeq(c.body, 1, Lesser(Len(c.body), TempLen - Reserve - c.header))
                   BY <1>4, <2>1
             <3> QED
                 BY <3>1 DEF AsAsked, text, head
       <2>7. /\ Content(f) \in Seq(Byte) /\ Len(Content(f)) = f.length
             /\ \A k \in 1..f.length : Content(f)[k] = f.mem[k]
             <3>1. f \in Buffer(TempLen)
                   BY <1>10 DEF Written
             <3> QED
                 BY <3>1, Lengths, ContentIs
       <2>8. CASE f.length = b.length
             <3>1. b.mem[b.length] = NL
                   BY <1>9, <1>10, <2>2, <2>8
             <3>2. Content(f) = text
                   BY <2>4, <2>5, <2>7, <2>8, SameSeq
             <3>3. ASSUME text # << >> PROVE AsAsked(c) = text
                   <4>1. b.length # 0
                         BY <2>4, <3>3, EmptySeq
                   <4>2. b.length \in 1..b.length
                         BY <1>9, <4>1
                   <4> QED
                       BY <2>4, <2>5, <2>6, <3>1, <3>3, <4>2 DEF Last
             <3>4. ASSUME text = << >> PROVE c.header = 0 /\ c.body = << >> /\ f.length = 0
                   <4>1. b.length = 0
                         BY <2>4, <3>4
                   <4>2. c.header = 0 /\ Len(s) = 0
                         BY <1>4, <2>2, <4>1
                   <4>3. c.body # NoBody
                         BY <1>4, <4>2, Lengths
                   <4>4. c.body \in Seq(Char) /\ Len(c.body) \in Nat
                         BY <4>3 DEF Logged
                   <4>5. Len(s) = Lesser(Len(c.body), TempLen - Reserve - c.header)
                         <5>1. Lesser(Len(c.body), TempLen - Reserve - c.header) \in 0..Len(c.body)
                               <6>1. TempLen - Reserve - c.header \in Nat
                                     BY <2>1, Lengths
                               <6> QED
                                   BY <4>4, <6>1 DEF Lesser
                         <5> QED
                             BY <1>4, <2>1, <4>3, <4>4, <5>1
                   <4>6. Len(c.body) = 0
                         BY <2>1, <4>2, <4>4, <4>5, Lengths DEF Lesser
                   <4> QED
                       BY <2>8, <4>1, <4>2, <4>4, <4>6, EmptySeq
             <3>5. \A k \in 1..f.length : f.mem[k] # Nul
                   BY <2>5, <2>8
             <3> QED
                 BY <3>2, <3>3, <3>4, <3>5
       <2>9. CASE f.length # b.length
             <3>1. b.mem[b.length] # NL /\ f.length = b.length + 1 /\ f.mem[b.length + 1] = NL
                   BY <1>10, <2>9
             <3>2. ~(text # << >> /\ Last(text) = NL)
                   <4> SUFFICES ASSUME text # << >> PROVE Last(text) # NL
                       OBVIOUS
                   <4>1. b.length # 0
                         BY <2>4, EmptySeq
                   <4>2. b.length \in 1..b.length
                         BY <1>9, <4>1
                   <4> QED
                       BY <2>4, <2>5, <3>1, <4>2 DEF Last
             <3>3. /\ Append(text, NL) \in Seq(Byte) /\ Len(Append(text, NL)) = f.length
                   /\ \A k \in 1..b.length : Append(text, NL)[k] = text[k]
                   /\ Append(text, NL)[b.length + 1] = NL
                   <4>1. NL \in Byte
                         BY DEF Byte
                   <4> QED
                       BY <2>4, <3>1, <4>1
             <3>4. ASSUME NEW k \in 1..f.length
                   PROVE  Content(f)[k] = Append(text, NL)[k] /\ f.mem[k] # Nul
                   <4>1. CASE k = b.length + 1
                         BY <1>11, <2>7, <3>1, <3>3, <4>1
                   <4>2. CASE k # b.length + 1
                         <5>1. k \in 1..b.length
                               BY <1>9, <3>1, <4>2
                         <5> QED
                             BY <2>5, <2>7, <3>3, <5>1
                   <4> QED
                       BY <4>1, <4>2
             <3>5. Content(f) = Append(text, NL)
                   BY <2>7, <3>3, <3>4, SameSeq
             <3> QED
                 BY <2>6, <3>2, <3>4, <3>5
       <2> QED
           BY <2>8, <2>9
<1> QED
    BY <1>1, <1>10, <1>12, <1>13, <1>14 DEF Formed

\* The message that takes the place of a record.
LEMMA OverflowedIs ==
    ASSUME NEW b \in Written(TempLen)
    PROVE  Overflowed(b) \in Written(TempLen) /\ Overflowed(b).mem[1] # Nul
<1> DEFINE printed == Message \o <<Nul>>
           m == Put(b.mem, printed, 0)
           r == Overflowed(b)
           len == Len(Message)
<1>0. /\ b \in [mem : [0..(TempLen + 4) -> Byte], pos : Nat, length : Nat, max : {TempLen}]
      /\ b.mem \in [0..(TempLen + 4) -> Byte]
      /\ \A i \in (TempLen + 1)..(TempLen + 4) : b.mem[i] = Other
      BY DEF Written, Buffer
<1>1. /\ printed \in Seq(Byte) /\ Len(printed) = len + 1 /\ printed[1] = Message[1] /\ Message[1] \in Char
      /\ len \in Nat /\ len > 0 /\ len < TempLen /\ Lesser(TempLen, len) = len /\ Lesser(len, len) = len
      <2>1. Message \in Seq(Byte) /\ <<Nul>> \in Seq(Byte) /\ Len(<<Nul>>) = 1
            BY Lengths DEF Byte
      <2>2. 1 \in 1..Len(Message) /\ Message[1] \in Char
            BY Lengths
      <2>3. printed \in Seq(Byte) /\ Len(printed) = len + 1 /\ printed[1] = Message[1]
            BY <2>1, <2>2, Lengths
      <2>4. Lesser(TempLen, len) = len /\ Lesser(len, len) = len
            BY Lengths DEF Lesser
      <2> QED
          BY <2>2, <2>3, <2>4, Lengths
<1>2. r = SetLength([b EXCEPT !.mem = m], len, len)
      BY DEF Overflowed
<1> HIDE DEF printed, len
<1>3. Stored(TempLen, b.mem, printed, 0, m)
      BY <1>0, <1>1, Lengths, PutIs
<1> HIDE DEF m, r
<1>4. r = [[b EXCEPT !.mem = m] EXCEPT !.length = len, !.pos = len]
      <2>1. [b EXCEPT !.mem = m].max = TempLen
            BY <1>0
      <2> QED
          BY <1>1, <1>2, <2>1 DEF SetLength
<1>5. m \in [0..(TempLen + 4) -> Byte] /\ m[1] = Message[1]
      <2>1. 1 \in 0..(TempLen + 4) /\ 0 < 1 /\ 1 <= 0 + Len(printed) /\ 1 - 0 = 1
            BY <1>1, Lengths
      <2> QED
          BY <1>1, <1>3, <2>1 DEF Stored
<1>6. \A i \in (TempLen + 1)..(TempLen + 4) : m[i] = Other
      <2>1. \A i \in (TempLen + 1)..(TempLen + 4) : i \in 0..(TempLen + 4) /\ 0 + Len(printed) < i
            BY <1>1, Lengths
      <2> QED
          BY <1>0, <1>3, <2>1 DEF Stored
<1>7. r = [mem |-> m, pos |-> len, length |-> len, max |-> TempLen]
      BY <1>0, <1>4
<1>8. r \in Written(TempLen)
      <2>1. r \in [mem : [0..(TempLen + 4) -> Byte], pos : Nat, length : Nat, max : {TempLen}]
            BY <1>1, <1>5, <1>7
      <2>2. r.mem = m /\ r.pos = len /\ r.length = len
            BY <1>7
      <2>3. r.length <= TempLen /\ r.pos <= r.length /\ r.pos = r.length
            BY <1>1, <2>2, Lengths
      <2> QED
          BY <1>6, <2>1, <2>2, <2>3 DEF Written, Buffer
<1>9. r.mem[1] = Message[1] /\ Nul \notin Char
      BY <1>5, <1>7, RecordAssumption
<1>10. r \in Written(TempLen) /\ r.mem[1] # Nul
      BY <1>1, <1>8, <1>9
<1> QED
    BY <1>10 DEF r

-----------------------------------------------------------------------------
(* The lines in the block. *)

\* What the lines of the block are, and the text that all of them make.
Line == [header : Nat, full : BOOLEAN, text : Seq(Byte) \ {<< >>}]
All == Texts(lines)
UpTo(i) == Texts(SubSeq(lines, 1, i))

\* The block holds what fits of the lines, and ends with them.
Holds ==
    /\ block \in Buffer(BlockLen) /\ block.mem[0] = Other
    /\ lines \in Seq(Line)
    /\ \A k \in 1..Lesser(BlockLen, Len(All)) : block.mem[k] = All[k]
    /\ state = "up" => block.pos = block.length /\ block.length = Lesser(BlockLen, Len(All))
    /\ state = "opened" => block.length = BlockLen
    /\ lines # << >> => Len(All) > 0
    /\ Len(All) > 0 => block.mem[1] # Nul

\* Whole lines: they come before the end of the block, as far as they go the text is
\* theirs, and they end in a newline.
Fitting(i) ==
    /\ UpTo(i) \in Seq(Byte) /\ Len(UpTo(i)) <= Len(All)
    /\ \A k \in 1..Len(UpTo(i)) : UpTo(i)[k] = All[k]
    /\ ~lines[i].full =>
        /\ Len(UpTo(i)) < BlockLen - 4
        /\ lines[i].header + Len(ErrorText) < TempLen => Last(lines[i].text) = NL

\* What the reader goes by: a terminator behind a whole line, and no NUL before it.
Readable ==
    /\ state = "up" /\ lines # << >> /\ ~lines[Len(lines)].full
        => \A k \in 1..3 : block.mem[block.length + k] = Nul
    /\ (\A i \in 1..Len(lines) : ~lines[i].full /\ lines[i].header < HeaderCap)
        => \A k \in 1..Len(All) : All[k] # Nul

\* The block and the lines in it.
Whole == Holds /\ (\A i \in 1..Len(lines) : Fitting(i)) /\ Readable

\* The texts of lines.
LEMMA RowsAre ==
    ASSUME NEW ls \in Seq(Line)
    PROVE  LET rows == [i \in DOMAIN ls |-> ls[i].text]
           IN rows \in Seq(Seq(Byte)) /\ Len(rows) = Len(ls) /\ \A i \in 1..Len(ls) : rows[i] = ls[i].text
<1> DEFINE Text == Seq(Byte)
<1>1. \A i \in 1..Len(ls) : ls[i].text \in Text
      <2>1. \A i \in 1..Len(ls) : ls[i] \in Line
            OBVIOUS
      <2> QED
          BY <2>1 DEF Line
<1> HIDE DEF Text
<1>2. DOMAIN ls = 1..Len(ls) /\ Len(ls) \in Nat
      OBVIOUS
<1>3. [i \in DOMAIN ls |-> ls[i].text] \in Seq(Text)
      BY <1>1, <1>2
<1> QED
    BY <1>2, <1>3 DEF Text

\* A line more in the block is its text more at the end.
LEMMA TextsIs ==
    /\ Texts(<< >>) = << >>
    /\ \A ls \in Seq(Line) :
        /\ Texts(ls) \in Seq(Byte)
        /\ \A l \in Line : Texts(Append(ls, l)) = Texts(ls) \o l.text
<1>1. Texts(<< >>) = << >>
      <2>1. [i \in DOMAIN << >> |-> << >>[i].text] = << >>
            OBVIOUS
      <2>2. FlattenSeq(<< >>) = << >>
            BY DEF FlattenSeq
      <2> QED
          BY <2>1, <2>2 DEF Texts
<1>2. ASSUME NEW ls \in Seq(Line) PROVE Texts(ls) \in Seq(Byte)
      <2> DEFINE rows == [i \in DOMAIN ls |-> ls[i].text]
      <2>1. rows \in Seq(Seq(Byte))
            BY RowsAre
      <2>2. << >> \in Seq(Byte)
            OBVIOUS
      <2> HIDE DEF rows
      <2>3. FlattenSeq(rows) \in Seq(Byte)
            BY <2>1, <2>2, FlattenAppend
      <2> QED
          BY <2>3 DEF Texts, rows
<1>3. ASSUME NEW ls \in Seq(Line), NEW l \in Line
      PROVE  Texts(Append(ls, l)) = Texts(ls) \o l.text
      <2> DEFINE rows == [i \in DOMAIN ls |-> ls[i].text]
                 more == [i \in DOMAIN Append(ls, l) |-> Append(ls, l)[i].text]
      <2>1. /\ rows \in Seq(Seq(Byte)) /\ Len(rows) = Len(ls)
            /\ \A i \in 1..Len(ls) : rows[i] = ls[i].text
            BY RowsAre
      <2>0. l.text \in Seq(Byte) /\ Len(ls) \in Nat
            BY DEF Line
      <2>2. more = Append(rows, l.text)
            <3>1. /\ Append(ls, l) \in Seq(Line) /\ Len(Append(ls, l)) = Len(ls) + 1
                  /\ \A i \in 1..Len(ls) : Append(ls, l)[i] = ls[i]
                  /\ Append(ls, l)[Len(ls) + 1] = l
                  BY AppendIs
            <3>2. /\ more \in Seq(Seq(Byte)) /\ Len(more) = Len(ls) + 1
                  /\ \A i \in 1..(Len(ls) + 1) : more[i] = Append(ls, l)[i].text
                  BY <3>1, RowsAre
            <3>3. /\ Append(rows, l.text) \in Seq(Seq(Byte)) /\ Len(Append(rows, l.text)) = Len(ls) + 1
                  /\ \A i \in 1..Len(ls) : Append(rows, l.text)[i] = rows[i]
                  /\ Append(rows, l.text)[Len(ls) + 1] = l.text
                  <4> HIDE DEF rows
                  <4> QED
                      BY <2>0, <2>1, AppendIs
            <3> HIDE DEF rows, more
            <3>4. ASSUME NEW i \in 1..(Len(ls) + 1) PROVE more[i] = Append(rows, l.text)[i]
                  <4>1. more[i] = Append(ls, l)[i].text
                        BY <3>2
                  <4>2. CASE i = Len(ls) + 1
                        BY <3>1, <3>3, <4>1, <4>2
                  <4>3. CASE i # Len(ls) + 1
                        <5>1. i \in 1..Len(ls)
                              BY <2>0, <4>3
                        <5>2. rows[i] = ls[i].text
                              BY <2>1, <5>1
                        <5> QED
                            BY <3>1, <3>3, <4>1, <5>1, <5>2
                  <4> QED
                      BY <4>2, <4>3
            <3> QED
                BY <3>2, <3>3, <3>4, SameSeq
      <2> HIDE DEF rows, more
      <2>3. CASE rows # << >>
            <3>1. FlattenSeq(Append(rows, l.text)) = FlattenSeq(rows) \o l.text
                  BY <2>0, <2>1, <2>3, FlattenAppend
            <3> QED
                BY <2>2, <3>1 DEF Texts, rows, more
      <2>4. CASE rows = << >>
            <3>1. FlattenSeq(more) = l.text
                  BY <2>0, <2>1, <2>2, <2>4, FlattenAppend
            <3>2. FlattenSeq(rows) = << >>
                  BY <2>4 DEF FlattenSeq
            <3>3. << >> \o l.text = l.text
                  BY <2>0
            <3>4. Texts(Append(ls, l)) = FlattenSeq(more) /\ Texts(ls) = FlattenSeq(rows)
                  BY DEF Texts, rows, more
            <3> QED
                BY <3>1, <3>2, <3>3, <3>4
      <2> QED
          BY <2>3, <2>4
<1> QED
    BY <1>1, <1>2, <1>3

\* __Clear.
LEMMA ClearedIs ==
    ASSUME NEW b \in Buffer(BlockLen)
    PROVE  /\ Cleared(b) \in Written(BlockLen) /\ Cleared(b).length = 0
           /\ Cleared(b).mem[0] = b.mem[0]
<1>1. Nul \in Byte /\ 1 \in 0..BlockLen /\ 1 # 0
      BY Lengths DEF Byte
<1>2. b = [mem |-> b.mem, pos |-> b.pos, length |-> b.length, max |-> BlockLen]
      BY DEF Buffer
<1>3. b \in [mem : [0..(BlockLen + 4) -> Byte], pos : Nat, length : Nat, max : {BlockLen}]
      BY DEF Buffer
<1>4. Cleared(b) = EmptyOver(BlockLen, [b.mem EXCEPT ![1] = Nul])
      <2> DEFINE m == [b.mem EXCEPT ![1] = Nul]
      <2>1. Cleared(b) = [b EXCEPT !.mem = m, !.pos = 0, !.length = 0]
            BY <1>2 DEF Cleared
      <2> HIDE DEF m
      <2>2. Cleared(b) = EmptyOver(BlockLen, m)
            BY <1>3, <2>1 DEF EmptyOver
      <2> QED
          BY <2>2 DEF m
<1> QED
    BY <1>1, <1>4, Lengths, ChangedIs

\* A cleared block.
LEMMA NothingIn ==
    ASSUME block' \in Buffer(BlockLen), block'.mem[0] = Other,
           block'.pos = block'.length, block'.length = 0, lines' = << >>, state' # "opened"
    PROVE  Whole'
<1>1. All' = << >> /\ Len(All') = 0 /\ Lesser(BlockLen, 0) = 0 /\ Len(lines') = 0 /\ lines' \in Seq(Line)
      BY TextsIs, Lengths DEF All, Lesser
<1>2. Holds'
      <2>1. \A k \in 1..Lesser(BlockLen, Len(All')) : block'.mem[k] = All'[k]
            BY <1>1
      <2>2. block'.length = Lesser(BlockLen, Len(All')) /\ ~(Len(All') > 0) /\ block'.length # BlockLen
            BY <1>1, Lengths
      <2>3. state' # "opened"
            OBVIOUS
      <2> QED
          BY <1>1, <2>1, <2>2, <2>3 DEF Holds
<1>3. \A i \in 1..Len(lines') : Fitting(i)'
      BY <1>1
<1>4. Readable'
      BY <1>1 DEF Readable
<1> QED
    BY <1>2, <1>3, <1>4 DEF Whole

\* A write of one more line. One that is not a message, because the block is below four
\* fifths, fits and leaves room for the terminator.
LEMMA BlockWritten ==
    ASSUME Whole, state = "up", state' = state,
           NEW h \in Nat, NEW t \in Seq(Byte) \ {<< >>}, t[1] # Nul, Len(t) <= TempLen,
           ~NearlyFull /\ h + Len(ErrorText) < TempLen => Last(t) = NL,
           ~NearlyFull /\ h < HeaderCap => \A k \in 1..Len(t) : t[k] # Nul,
           block' = Write(IF block.length = 0 THEN Cleared(block) ELSE block, t),
           lines' = Append(lines, [header |-> h, full |-> NearlyFull, text |-> t])
    PROVE  Whole'
<1> DEFINE T == All
           l == [header |-> h, full |-> NearlyFull, text |-> t]
           b == IF block.length = 0 THEN Cleared(block) ELSE block
           n == Lesser(Len(t), BlockLen - b.length)
<1>1. /\ block \in Buffer(BlockLen) /\ block.mem[0] = Other /\ lines \in Seq(Line) /\ Len(lines) \in Nat
      /\ \A k \in 1..Lesser(BlockLen, Len(T)) : block.mem[k] = T[k]
      /\ block.pos = block.length /\ block.length = Lesser(BlockLen, Len(T))
      /\ Len(T) > 0 => block.mem[1] # Nul
      BY DEF Whole, Holds
<1>2. /\ block.max = BlockLen /\ block.mem \in [0..(BlockLen + 4) -> Byte] /\ block.length \in 0..BlockLen
      /\ \A i \in (BlockLen + 1)..(BlockLen + 4) : block.mem[i] = Other
      BY <1>1 DEF Buffer
<1>3. l \in Line /\ l.header = h /\ l.full = NearlyFull /\ l.text = t /\ NearlyFull \in BOOLEAN
      BY DEF Line, NearlyFull
<1> HIDE DEF l
<1>4. /\ T \in Seq(Byte) /\ Len(T) \in Nat /\ All' = T \o t
      <2>1. lines' = Append(lines, l)
            BY DEF l
      <2>2. Texts(lines) \in Seq(Byte) /\ Texts(Append(lines, l)) = Texts(lines) \o l.text
            BY <1>1, <1>3, TextsIs
      <2>3. All' = Texts(lines')
            BY DEF All
      <2> QED
          BY <1>3, <2>1, <2>2, <2>3 DEF All
<1> HIDE DEF T
<1>5. /\ All' \in Seq(Byte) /\ Len(All') = Len(T) + Len(t) /\ Len(t) \in Nat /\ Len(t) > 0
      /\ \A k \in 1..Len(T) : All'[k] = T[k]
      /\ \A k \in 1..Len(t) : All'[Len(T) + k] = t[k]
      BY <1>4, EmptySeq
<1>6. /\ b \in Written(BlockLen) /\ b.length = block.length /\ b.mem[0] = Other
      /\ \A k \in 1..block.length : b.mem[k] = T[k]
      <2>1. CASE block.length # 0
            BY <1>1, <1>2, <2>1 DEF Written
      <2>2. CASE block.length = 0
            BY <1>1, <2>2, ClearedIs
      <2> QED
          BY <2>1, <2>2
<1>7. /\ block' \in Written(BlockLen) /\ block'.length = block.length + n /\ n \in 0..Len(t)
      /\ \A k \in 0..block.length : block'.mem[k] = b.mem[k]
      /\ \A k \in 1..n : block'.mem[block.length + k] = t[k]
      /\ block'.length < BlockLen - 4 => \A k \in 1..3 : block'.mem[block'.length + k] = Nul
      <2>1. block' = Write(b, t)
            OBVIOUS
      <2> HIDE DEF b
      <2>2. Wrote(BlockLen, b, t, n, block')
            BY <1>6, <2>1, Lengths, WriteIs
      <2> HIDE DEF n
      <2> QED
          BY <1>6, <2>2 DEF Wrote
<1>8. n = Lesser(Len(t), BlockLen - block.length)
      BY <1>6
<1> HIDE DEF b, n
<1>9. block'.length = Lesser(BlockLen, Len(All'))
      <2>1. block'.length = Lesser(BlockLen, Len(T)) + Lesser(Len(t), BlockLen - Lesser(BlockLen, Len(T)))
            BY <1>1, <1>7, <1>8
      <2>2. \A x, y \in Nat :
                Lesser(BlockLen, x) + Lesser(y, BlockLen - Lesser(BlockLen, x)) = Lesser(BlockLen, x + y)
            BY Lengths DEF Lesser
      <2> QED
          BY <1>4, <1>5, <2>1, <2>2
<1>10. \A k \in 1..block'.length : block'.mem[k] = All'[k]
       <2> SUFFICES ASSUME NEW k \in 1..block'.length PROVE block'.mem[k] = All'[k]
           OBVIOUS
       <2>1. CASE k <= block.length
             <3>1. k \in 0..block.length /\ k \in 1..block.length /\ k \in 1..Len(T)
                   BY <1>1, <1>2, <1>4, <2>1, Lengths DEF Lesser
             <3> QED
                 BY <1>5, <1>6, <1>7, <3>1
       <2>2. CASE ~(k <= block.length)
             <3>0. block'.length = block.length + n /\ n \in Nat /\ n <= Len(t) /\ block.length \in Nat
                   BY <1>2, <1>5, <1>7
             <3> DEFINE j == k - block.length
             <3>1. j \in 1..n /\ j \in 1..Len(t) /\ block.length + j = k
                   <4>1. k \in Nat /\ k <= block.length + n
                         BY <3>0
                   <4>2. block.length < k
                         BY <2>2, <3>0, <4>1
                   <4>3. Len(t) \in Nat
                         BY <1>5
                   <4> QED
                       BY <3>0, <4>1, <4>2, <4>3
             <3> HIDE DEF j
             <3>2. block.length = Len(T)
                   <4>1. Lesser(Len(t), BlockLen - block.length) > 0
                         BY <1>8, <3>0, <3>1
                   <4> QED
                       BY <1>1, <1>2, <1>4, <1>5, <4>1, Lengths DEF Lesser
             <3>3. block'.mem[block.length + j] = t[j] /\ All'[Len(T) + j] = t[j]
                   BY <1>5, <1>7, <3>1
             <3> QED
                 BY <3>1, <3>2, <3>3
       <2> QED
           BY <2>1, <2>2
<1>11. /\ lines' \in Seq(Line) /\ Len(lines') = Len(lines) + 1 /\ lines'[Len(lines) + 1] = l
       /\ \A i \in 1..Len(lines) : lines'[i] = lines[i] /\ SubSeq(lines', 1, i) = SubSeq(lines, 1, i)
       /\ SubSeq(lines', 1, Len(lines) + 1) = lines'
       <2>1. lines' = Append(lines, l)
             BY DEF l
       <2> QED
           BY <1>1, <1>3, <2>1
<1>12. Holds'
       <2>1. block'.mem[0] = Other
             BY <1>2, <1>6, <1>7
       <2>2. block' \in Buffer(BlockLen) /\ block'.pos = block'.length
             BY <1>7 DEF Written
       <2>3. block'.mem[1] # Nul
             <3>1. CASE Len(T) > 0
                   <4>1. 1 \in 0..block.length /\ 1 \in 1..Lesser(BlockLen, Len(T)) /\ 1 \in 1..block.length
                         BY <1>1, <1>4, <3>1, Lengths DEF Lesser
                   <4> QED
                       BY <1>1, <1>6, <1>7, <3>1, <4>1
             <3>2. CASE ~(Len(T) > 0)
                   <4>0. block.length = 0
                         BY <1>1, <1>4, <3>2, Lengths DEF Lesser
                   <4>1. 1 \in 1..n /\ block.length + 1 = 1
                         BY <1>5, <1>8, <4>0, Lengths DEF Lesser
                   <4> QED
                       BY <1>7, <4>1
             <3> QED
                 BY <3>1, <3>2
       <2>4. Len(All') > 0
             BY <1>4, <1>5
       <2> QED
           BY <1>9, <1>10, <1>11, <2>1, <2>2, <2>3, <2>4 DEF Holds
<1>13. ASSUME ~NearlyFull PROVE Len(All') < BlockLen - 4
       <2> DEFINE F == (BlockLen * 4) \div 5
       <2>1. F \in Int /\ F + TempLen < BlockLen - 3 /\ ~(block.length >= F)
             BY <1>13, Lengths DEF NearlyFull
       <2> HIDE DEF F
       <2>2. Len(T) < F
             BY <1>1, <1>4, <2>1, Lengths DEF Lesser
       <2> QED
           BY <1>4, <1>5, <2>1, <2>2, Lengths
<1>14. ASSUME NEW i \in 1..Len(lines') PROVE Fitting(i)'
       <2>1. CASE i <= Len(lines)
             <3>1. i \in 1..Len(lines)
                   BY <1>1, <1>11, <2>1
             <3>2. UpTo(i)' = UpTo(i) /\ lines'[i] = lines[i]
                   BY <1>11, <3>1 DEF UpTo
             <3>3. Fitting(i)
                   BY <3>1 DEF Whole
             <3>4. /\ UpTo(i) \in Seq(Byte) /\ Len(UpTo(i)) \in Nat /\ Len(UpTo(i)) <= Len(T)
                   /\ \A k \in 1..Len(UpTo(i)) : UpTo(i)[k] = T[k]
                   BY <3>3 DEF Fitting, T
             <3>5. Len(UpTo(i)) <= Len(All') /\ \A k \in 1..Len(UpTo(i)) : UpTo(i)[k] = All'[k]
                   BY <1>4, <1>5, <3>4
             <3>6. ~lines[i].full =>
                       /\ Len(UpTo(i)) < BlockLen - 4
                       /\ lines[i].header + Len(ErrorText) < TempLen => Last(lines[i].text) = NL
                   BY <3>3 DEF Fitting
             <3> QED
                 BY <3>2, <3>4, <3>5, <3>6 DEF Fitting
       <2>2. CASE ~(i <= Len(lines))
             <3>1. i = Len(lines) + 1
                   BY <1>1, <1>11, <2>2
             <3>2. UpTo(i)' = All' /\ lines'[i] = l
                   BY <1>11, <3>1 DEF UpTo, All
             <3>3. ~l.full =>
                       /\ Len(All') < BlockLen - 4
                       /\ l.header + Len(ErrorText) < TempLen => Last(l.text) = NL
                   BY <1>3, <1>13
             <3>4. All' \in Seq(Byte) /\ Len(All') <= Len(All')
                   BY <1>4, <1>5
             <3> QED
                 BY <3>2, <3>3, <3>4 DEF Fitting
       <2> QED
           BY <2>1, <2>2
<1>15. Readable'
       <2>1. ASSUME ~lines'[Len(lines')].full PROVE \A k \in 1..3 : block'.mem[block'.length + k] = Nul
             <3>1. Len(All') < BlockLen - 4
                   BY <1>3, <1>11, <1>13, <2>1
             <3>2. block'.length < BlockLen - 4
                   BY <1>4, <1>5, <1>9, <3>1, Lengths DEF Lesser
             <3> QED
                 BY <1>7, <3>2
       <2>2. ASSUME \A i \in 1..Len(lines') : ~lines'[i].full /\ lines'[i].header < HeaderCap
             PROVE  \A k \in 1..Len(All') : All'[k] # Nul
             <3>1. \A i \in 1..Len(lines) : ~lines[i].full /\ lines[i].header < HeaderCap
                   <4> SUFFICES ASSUME NEW i \in 1..Len(lines)
                                PROVE  ~lines[i].full /\ lines[i].header < HeaderCap
                       OBVIOUS
                   <4>1. i \in 1..Len(lines')
                         BY <1>1, <1>11
                   <4> QED
                       BY <1>11, <2>2, <4>1
             <3>2. \A k \in 1..Len(T) : T[k] # Nul
                   BY <3>1 DEF Whole, Readable, T
             <3>3. ~l.full /\ l.header < HeaderCap
                   <4>1. Len(lines) + 1 \in 1..Len(lines')
                         BY <1>1, <1>11
                   <4> QED
                       BY <1>11, <2>2, <4>1
             <3>4. \A k \in 1..Len(t) : t[k] # Nul
                   BY <1>3, <3>3
             <3> TAKE k \in 1..Len(All')
             <3>5. CASE k <= Len(T)
                   <4>1. k \in 1..Len(T)
                         BY <1>4, <1>5, <3>5
                   <4> QED
                       BY <1>5, <3>2, <4>1
             <3>6. CASE ~(k <= Len(T))
                   <4> DEFINE j == k - Len(T)
                   <4>1. j \in 1..Len(t) /\ Len(T) + j = k
                         BY <1>4, <1>5, <3>6
                   <4> HIDE DEF j
                   <4>2. All'[Len(T) + j] = t[j] /\ t[j] # Nul
                         BY <1>5, <3>4, <4>1
                   <4> QED
                       BY <4>1, <4>2
             <3> QED
                 BY <3>5, <3>6
       <2> QED
           BY <2>1, <2>2 DEF Readable
<1> QED
    BY <1>12, <1>14, <1>15 DEF Whole

-----------------------------------------------------------------------------
(* The operations. *)

\* The rest of the state.
Good ==
    /\ state \in {"up", "down", "opened"} /\ appends \in 0..MaxAppends
    /\ temp \in Buffer(TempLen) /\ TextAsAsked
    /\ tmp.array # << >> => tmp.length <= tmp.capacity /\ Len(tmp.array) = tmp.capacity

\* What append is called with.
LEMMA Calls ==
    /\ \A c \in Call : c.header \in Nat /\ c.body \in Logged
    /\ \A body \in Bodies : body # NoBody => SubSeq(body, 1, Lesser(Len(body), FormatCap - 1)) \in Logged
<1>1. Headers \subseteq Nat /\ Bodies \subseteq Logged
      BY RecordAssumption DEF Logged
<1>2. ASSUME NEW body \in Bodies, body # NoBody
      PROVE  SubSeq(body, 1, Lesser(Len(body), FormatCap - 1)) \in Logged
      <2>1. body \in Seq(Char) /\ Len(body) \in Nat
            BY <1>1, <1>2 DEF Logged
      <2>2. Lesser(Len(body), FormatCap - 1) \in 0..Len(body)
            BY <2>1, Lengths DEF Lesser
      <2>3. SubSeq(body, 1, Lesser(Len(body), FormatCap - 1)) \in Seq(Char)
            BY <2>1, <2>2
      <2> QED
          BY <2>3 DEF Logged
<1> QED
    BY <1>1, <1>2 DEF Call

\* What an append makes of it on its stack.
LEMMA CalledIs ==
    ASSUME Good, NEW c, c.header \in Nat, c.body \in Logged, NEW full \in BOOLEAN, Called(c, full),
           state' = state
    PROVE  /\ Good' /\ temp' \in Written(TempLen)
           /\ temp'.length > 0 => temp'.mem[1] # Nul
           /\ ~full => Formed(c, temp')
<1>1. PICK before \in {NL, Other} :
          temp' = IF full THEN Overflowed(Formatted(c, before)) ELSE Formatted(c, before)
      BY DEF Called
<1>2. Formed(c, Formatted(c, before))
      BY FormattedIs
<1>3. Formatted(c, before) \in Written(TempLen)
      BY <1>2 DEF Formed
<1>6. ~full => Formed(c, temp')
      BY <1>1, <1>2
<1>7. temp' \in Written(TempLen) /\ (temp'.length > 0 => temp'.mem[1] # Nul)
      <2>1. CASE full
            BY <1>1, <1>3, <2>1, OverflowedIs
      <2>2. CASE ~full
            BY <1>6, <2>2 DEF Formed
      <2> QED
          BY <2>1, <2>2
<1>8. TextAsAsked'
      <2> SUFFICES ASSUME ~last'.full, last'.header < HeaderCap
                   PROVE  \/ Content(temp') = AsAsked(last')
                          \/ last'.header = 0 /\ last'.body = << >> /\ temp'.length = 0
          BY DEF TextAsAsked
      <2>1. last' = [header |-> c.header, body |-> c.body, full |-> full]
            BY DEF Called
      <2>2. last'.header = c.header /\ last'.body = c.body /\ ~full
            BY <2>1
      <2>3. AsAsked(last') = AsAsked(c)
            BY <2>2 DEF AsAsked
      <2> QED
          BY <1>6, <2>2, <2>3 DEF Formed
<1>9. appends' \in 0..MaxAppends
      <2>1. appends \in Nat /\ appends' = appends + 1
            BY DEF Good, Called
      <2>2. appends < MaxAppends
            <3>1. appends < (IF c \in Bulk THEN MaxAppends ELSE MaxAny)
                  BY DEF Called
            <3>2. MaxAny \in Nat /\ MaxAny <= MaxAppends
                  BY Lengths, RecordAssumption
            <3> QED
                BY <2>1, <3>1, <3>2, Lengths
      <2> QED
          BY <2>1, <2>2, Lengths
<1>10. tmp'.array = << >>
       BY DEF Called, Heap!NoBuffer
<1>11. Good'
       BY <1>7, <1>8, <1>9, <1>10 DEF Good, Written
<1> QED
    BY <1>6, <1>7, <1>11

\* One operation after the other keeps what was said of the block and of the rest.
LEMMA AsyncKeeps ==
    ASSUME Good, Whole, NEW c, c.header \in Nat, c.body \in Logged, AppendAsync(c)
    PROVE  Good' /\ Whole' /\ ~(lines # << >> /\ lines' = << >>)
<1>0. NearlyFull \in BOOLEAN /\ state = "up" /\ state' = state /\ Called(c, NearlyFull)
      BY DEF NearlyFull, AppendAsync, Called
<1>1. /\ Good' /\ temp' \in Written(TempLen)
      /\ temp'.length > 0 => temp'.mem[1] # Nul
      /\ ~NearlyFull => Formed(c, temp')
      BY <1>0, CalledIs
<1>2. CASE temp'.length = 0
      <2>1. block' = block /\ lines' = lines
            BY <1>2 DEF AppendAsync
      <2>2. Whole'
            <3>1. Holds'
                  BY <1>0, <2>1 DEF Whole, Holds, All
            <3>2. \A i \in 1..Len(lines') : Fitting(i)'
                  BY <2>1 DEF Whole, Fitting, UpTo, All
            <3>3. Readable'
                  BY <1>0, <2>1 DEF Whole, Readable, All
            <3> QED
                BY <3>1, <3>2, <3>3 DEF Whole
      <2> QED
          BY <1>1, <2>1, <2>2
<1>3. CASE temp'.length # 0
      <2> DEFINE t == Content(temp')
      <2>0. temp' \in Buffer(TempLen) /\ temp'.length \in Nat /\ temp'.length <= TempLen
            BY <1>1 DEF Written, Buffer
      <2>1. /\ t \in Seq(Byte) /\ Len(t) = temp'.length
            /\ \A k \in 1..Len(t) : t[k] = temp'.mem[k]
            BY <2>0, Lengths, ContentIs
      <2>2. /\ block' = Write(IF block.length = 0 THEN Cleared(block) ELSE block, t)
            /\ lines' = Append(lines, [header |-> c.header, full |-> NearlyFull, text |-> t])
            BY <1>3 DEF AppendAsync
      <2> HIDE DEF t
      <2>3. t \in Seq(Byte) \ {<< >>} /\ Len(t) <= TempLen /\ 1 \in 1..Len(t) /\ Len(t) \in 1..Len(t)
            BY <1>3, <2>0, <2>1
      <2>4. t[1] # Nul
            BY <1>1, <1>3, <2>0, <2>1, <2>3
      <2>5. ~NearlyFull /\ c.header + Len(ErrorText) < TempLen => Last(t) = NL
            BY <1>1, <1>3, <2>0, <2>1, <2>3 DEF Formed, Last
      <2>6. ~NearlyFull /\ c.header < HeaderCap => \A k \in 1..Len(t) : t[k] # Nul
            BY <1>1, <2>1 DEF Formed
      <2>7. Whole'
            BY <1>0, <2>2, <2>3, <2>4, <2>5, <2>6, BlockWritten
      <2>8. lines' # << >>
            BY <2>2 DEF Whole, Holds
      <2> QED
          BY <1>1, <2>7, <2>8
<1> QED
    BY <1>2, <1>3

\* A synchronous append leaves the block alone.
LEMMA SyncKeeps ==
    ASSUME Good, Whole, NEW c \in Call, AppendSync(c)
    PROVE  Good' /\ Whole' /\ lines' = lines
<1>1. state' = state /\ block' = block /\ lines' = lines /\ Called(c, FALSE)
      BY DEF AppendSync
<1>2. Good'
      BY <1>1, Calls, CalledIs
<1>3. Holds'
      BY <1>1 DEF Whole, Holds, All
<1>4. \A i \in 1..Len(lines') : Fitting(i)'
      BY <1>1 DEF Whole, Fitting, UpTo, All
<1>5. Readable'
      BY <1>1 DEF Whole, Readable, All
<1> QED
    BY <1>1, <1>2, <1>3, <1>4, <1>5 DEF Whole

\* appendFormat is an append of what its own array holds.
LEMMA FormatKeeps ==
    ASSUME Good, Whole, NEW body \in Bodies, AppendFormat(body)
    PROVE  Good' /\ Whole' /\ ~(lines # << >> /\ lines' = << >>)
<1> DEFINE c == [header |-> 0, body |-> SubSeq(body, 1, Lesser(Len(body), FormatCap - 1))]
<1>1. AppendAsync(c) /\ body # NoBody
      BY DEF AppendFormat
<1>2. c.header \in Nat /\ c.body \in Logged
      BY <1>1, Calls
<1> HIDE DEF c
<1> QED
    BY <1>1, <1>2, AsyncKeeps

\* __FitSize rounds up.
LEMMA RoundedIs ==
    ASSUME NEW n \in Nat
    PROVE  Heap!Rounded(n) \in Nat /\ n <= Heap!Rounded(n)
<1> DEFINE q == (n + Unit - 1) \div Unit
<1>1. q \in Nat /\ n + Unit - 1 < Unit * q + Unit
      BY Lengths
<1> HIDE DEF q
<1>2. Unit * q = q * Unit /\ q * Unit \in Nat
      BY <1>1, Lengths
<1>3. n <= q * Unit
      BY <1>1, <1>2, Lengths
<1> QED
    BY <1>2, <1>3 DEF Heap!Rounded, q

\* The AutoBuffer of a flush: all of data, or the memcpy faults.
LEMMA CopyIs ==
    ASSUME NEW data \in Seq(Byte), NEW granted \in BOOLEAN, NEW r,
           r = Heap!WriteTo(Heap!NoBuffer, data, granted)
    PROVE  /\ r.array # << >> => r.length <= r.capacity /\ Len(r.array) = r.capacity
           /\ ~Heap!Faults(r, data) => Heap!Content(r) = data
<1> DEFINE n == Len(data)
           size == Heap!Rounded(n)
           zeros == [i \in 1..size |-> Nul]
           fit == Heap!FitSize(Heap!NoBuffer, n, granted)
           stored == [i \in DOMAIN fit.array |->
                         IF i - 0 \in DOMAIN data THEN data[i - 0] ELSE fit.array[i]]
<1>0. n \in Nat /\ size \in Nat /\ n <= size
      BY RoundedIs
<1>1. r.array = stored /\ r.length = n /\ r.capacity = fit.capacity
      <2>1. /\ Heap!NoBuffer.pos = 0 /\ Heap!NoBuffer.length = 0 /\ Heap!NoBuffer.capacity = 0
            /\ Heap!NoBuffer.array = << >>
            BY DEF Heap!NoBuffer
      <2>2. fit = [array |-> fit.array, pos |-> 0, length |-> 0, capacity |-> fit.capacity]
            BY DEF Heap!FitSize, Heap!NoBuffer
      <2> DEFINE len == IF 0 + n > 0 THEN 0 + n ELSE 0
      <2>3. r = Heap!SeekCur([fit EXCEPT !.array = stored, !.length = len], n)
            BY <1>0, <2>1 DEF Heap!WriteTo
      <2>4. len = n
            BY <1>0
      <2> HIDE DEF stored, fit, len
      <2> DEFINE w == [fit EXCEPT !.array = stored, !.length = len]
      <2>5. w = [array |-> stored, pos |-> 0, length |-> n, capacity |-> fit.capacity]
            <3>1. \E a, c : fit = [array |-> a, pos |-> 0, length |-> 0, capacity |-> c] /\ c = fit.capacity
                  BY <2>2
            <3>2. PICK a, c : fit = [array |-> a, pos |-> 0, length |-> 0, capacity |-> c] /\ c = fit.capacity
                  BY <3>1
            <3>3. w = [[array |-> a, pos |-> 0, length |-> 0, capacity |-> c]
                          EXCEPT !.array = stored, !.length = n]
                  BY <2>4, <3>2, Zenon
            <3> HIDE DEF w
            <3> QED
                BY <3>2, <3>3
      <2> HIDE DEF w
      <2>6. r = [w EXCEPT !.pos = IF @ + n > w.length THEN w.length ELSE @ + n]
            BY <2>3 DEF Heap!SeekCur, w
      <2> QED
          BY <2>5, <2>6
<1>2. CASE n = 0
      <2>1. fit = Heap!NoBuffer
            BY <1>2 DEF Heap!FitSize, Heap!NoBuffer
      <2>2. fit.array = << >>
            BY <2>1 DEF Heap!NoBuffer
      <2>3. stored = << >>
            BY <2>2
      <2>4. data = << >>
            BY <1>2, EmptySeq
      <2>5. Heap!Content(r) = << >>
            <3> HIDE DEF stored
            <3>1. r.array = << >> /\ r.length = 0
                  BY <1>1, <1>2, <2>3
            <3> QED
                BY <3>1 DEF Heap!Content
      <2> HIDE DEF stored, fit
      <2> QED
          BY <1>1, <2>3, <2>4, <2>5
<1>3. CASE n # 0 /\ granted
      <2>1. fit = [Heap!NoBuffer EXCEPT !.array = @ \o [i \in 1..(size - 0) |-> Nul], !.capacity = size]
            BY <1>0, <1>3 DEF Heap!FitSize, Heap!NoBuffer
      <2>2. fit.array = zeros /\ fit.capacity = size
            <3>1. size - 0 = size
                  BY <1>0
            <3>2. zeros \in Seq(Byte)
                  BY <1>0 DEF Byte
            <3>3. << >> \o zeros = zeros
                  <4> HIDE DEF zeros
                  <4> QED
                      BY <3>2
            <3>4. fit.array = << >> \o zeros /\ fit.capacity = size
                  <4> HIDE DEF size
                  <4> QED
                      BY <2>1, <3>1 DEF Heap!NoBuffer
            <3> HIDE DEF zeros, fit, size
            <3> QED
                BY <3>3, <3>4
      <2>3. stored = [i \in 1..size |-> IF i - 0 \in DOMAIN data THEN data[i - 0] ELSE zeros[i]]
            <3>1. DOMAIN zeros = 1..size
                  OBVIOUS
            <3> HIDE DEF fit, zeros, size
            <3> QED
                BY <2>2, <3>1
      <2>4. stored \in Seq(Byte) /\ Len(stored) = size /\ \A k \in 1..n : stored[k] = data[k]
            <3>1. \A i \in 1..size : zeros[i] \in Byte
                  BY DEF Byte
            <3> HIDE DEF stored, zeros, size
            <3>2. \A i \in 1..size : (IF i - 0 \in DOMAIN data THEN data[i - 0] ELSE zeros[i]) \in Byte
                  BY <3>1
            <3>3. stored \in [1..size -> Byte]
                  BY <2>3, <3>2
            <3>4. stored \in Seq(Byte) /\ Len(stored) = size
                  BY <1>0, <3>3
            <3>5. ASSUME NEW k \in 1..n PROVE stored[k] = data[k]
                  <4>1. k \in 1..size /\ k - 0 = k /\ k \in DOMAIN data
                        BY <1>0
                  <4> QED
                      BY <2>3, <4>1
            <3> QED
                BY <3>4, <3>5
      <2> HIDE DEF stored, fit, size
      <2>5. SubSeq(stored, 1, n) = data
            <3>1. SubSeq(stored, 1, n) \in Seq(Byte) /\ Len(SubSeq(stored, 1, n)) = n
                  BY <1>0, <2>4
            <3>2. \A k \in 1..n : SubSeq(stored, 1, n)[k] = data[k]
                  BY <1>0, <2>4
            <3> QED
                BY <3>1, <3>2, SameSeq
      <2>6. Heap!Content(r) = data
            BY <1>1, <2>5 DEF Heap!Content
      <2> QED
          BY <1>0, <1>1, <2>2, <2>4, <2>6
<1>4. CASE n # 0 /\ ~granted
      <2>1. fit = [Heap!NoBuffer EXCEPT !.array = << >>]
            BY <1>0, <1>4 DEF Heap!FitSize, Heap!NoBuffer
      <2>2. fit.array = << >>
            BY <2>1 DEF Heap!NoBuffer
      <2>3. stored = << >>
            BY <2>2
      <2>4. data # << >>
            BY <1>4
      <2> HIDE DEF stored, fit
      <2> QED
          BY <1>1, <2>3, <2>4 DEF Heap!Faults
<1> QED
    BY <1>2, <1>3, <1>4

\* A flush of lines takes them out of the block only as all that the block holds.
LEMMA FlushKeeps ==
    ASSUME Good, Whole, Flush
    PROVE  /\ Good' /\ Whole'
           /\ lines # << >> /\ lines' = << >>
                => out' = Content(block) /\ block.length >= Lesser(BlockLen, Len(All))
<1> DEFINE data == IF block.length = 0 \/ block.mem[1] = Nul THEN << >> ELSE Content(block)
<1>1. block \in Buffer(BlockLen) /\ block.mem[0] = Other
      BY DEF Whole, Holds
<1>2. data \in Seq(Byte)
      BY <1>1, Lengths, ContentIs
<1>3. PICK granted \in BOOLEAN :
        /\ tmp' = Heap!WriteTo(Heap!NoBuffer, data, granted)
        /\ IF Heap!Faults(tmp', data)
           THEN state' = "down" /\ block' = FaultInCopy /\ out' = << >> /\ UNCHANGED lines
           ELSE state' = "up" /\ block' = Cleared(block) /\ out' = Heap!Content(tmp') /\ lines' = << >>
      BY DEF Flush
<1>4. /\ tmp'.array # << >> => tmp'.length <= tmp'.capacity /\ Len(tmp'.array) = tmp'.capacity
      /\ ~Heap!Faults(tmp', data) => Heap!Content(tmp') = data
      <2> HIDE DEF data
      <2> QED
          BY <1>2, <1>3, CopyIs
<1>5. Good'
      <2>1. temp' = NoTemp /\ last' = NoCall /\ appends' = appends
            BY DEF Flush
      <2>2. temp' \in Buffer(TempLen) /\ temp'.length = 0
            BY <2>1, Lengths, OverIs DEF NoTemp, Written
      <2>3. last'.header = 0 /\ last'.body = << >>
            BY <2>1 DEF NoCall
      <2>4. TextAsAsked'
            BY <2>2, <2>3 DEF TextAsAsked
      <2>5. state' \in {"up", "down", "opened"}
            BY <1>3
      <2> QED
          BY <1>4, <2>1, <2>2, <2>4, <2>5 DEF Good
<1>6. CASE Heap!Faults(tmp', data)
      <2>1. state' = "down" /\ block' = block /\ lines' = lines
            BY <1>3, <1>6 DEF FaultInCopy
      <2>2. Holds'
            BY <2>1 DEF Whole, Holds, All
      <2>3. \A i \in 1..Len(lines') : Fitting(i)'
            BY <2>1 DEF Whole, Fitting, UpTo, All
      <2>4. Readable'
            BY <2>1 DEF Whole, Readable, All
      <2> QED
          BY <1>5, <2>1, <2>2, <2>3, <2>4 DEF Whole
<1>7. CASE ~Heap!Faults(tmp', data)
      <2>1. block' = Cleared(block) /\ out' = data /\ lines' = << >>
            <3> HIDE DEF data
            <3> QED
                BY <1>3, <1>4, <1>7
      <2>2. /\ block' \in Buffer(BlockLen) /\ block'.mem[0] = Other
            /\ block'.pos = block'.length /\ block'.length = 0
            BY <1>1, <2>1, ClearedIs DEF Written
      <2>3. Whole'
            BY <1>3, <1>7, <2>1, <2>2, NothingIn
      <2>4. ASSUME lines # << >> PROVE out' = Content(block) /\ block.length >= Lesser(BlockLen, Len(All))
            <3>1. lines \in Seq(Line) /\ Len(All) > 0 /\ block.mem[1] # Nul
                  BY <2>4 DEF Whole, Holds
            <3>2. All \in Seq(Byte) /\ Len(All) \in Nat
                  BY <3>1, TextsIs DEF All
            <3>3. state \in {"up", "opened"}
                  BY DEF Flush
            <3>4. block.length = BlockLen \/ block.length = Lesser(BlockLen, Len(All))
                  BY <3>3 DEF Whole, Holds
            <3>5. block.length # 0 /\ block.length >= Lesser(BlockLen, Len(All))
                  BY <3>1, <3>2, <3>4, Lengths DEF Lesser
            <3> QED
                BY <2>1, <3>1, <3>5
      <2> QED
          BY <1>5, <2>3, <2>4
<1> QED
    BY <1>6, <1>7

\* Reopening takes the block for full: the lines are still its first bytes.
LEMMA ReopenKeeps ==
    ASSUME Good, Whole, Reopen
    PROVE  Good' /\ Whole' /\ lines' = lines
<1>1. /\ state' = "opened" /\ lines' = lines /\ temp' = temp /\ last' = last /\ tmp' = tmp
      /\ appends' = appends /\ block' = [block EXCEPT !.pos = 0, !.length = BlockLen]
      BY DEF Reopen
<1>2. Good'
      BY <1>1 DEF Good, TextAsAsked
<1>3. block \in Buffer(BlockLen)
      BY DEF Whole, Holds
<1>4. block' \in Buffer(BlockLen) /\ block'.mem = block.mem /\ block'.length = BlockLen
      <2>1. block \in [mem : [0..(BlockLen + 4) -> Byte], pos : Nat, length : Nat, max : {BlockLen}]
            BY <1>3 DEF Buffer
      <2>2. /\ block' \in [mem : [0..(BlockLen + 4) -> Byte], pos : Nat, length : Nat, max : {BlockLen}]
            /\ block'.mem = block.mem /\ block'.pos = 0 /\ block'.length = BlockLen
            BY <1>1, <2>1, Lengths
      <2>3. \A i \in (BlockLen + 1)..(BlockLen + 4) : block.mem[i] = Other
            BY <1>3 DEF Buffer
      <2> QED
          BY <2>2, <2>3, Lengths DEF Buffer
<1>5. Holds'
      BY <1>1, <1>4 DEF Whole, Holds, All
<1>6. \A i \in 1..Len(lines') : Fitting(i)'
      BY <1>1 DEF Whole, Fitting, UpTo, All
<1>7. Readable'
      BY <1>1 DEF Whole, Readable, All
<1> QED
    BY <1>1, <1>2, <1>5, <1>6, <1>7 DEF Whole

-----------------------------------------------------------------------------
(* The invariant, and what follows from it. *)

\* The inductive invariant.
TextInv == Good /\ Whole

\* It holds at first,
LEMMA Start == Init => TextInv
<1> SUFFICES ASSUME Init PROVE TextInv
    OBVIOUS
<1>1. block \in Buffer(BlockLen) /\ block.mem[0] = Other /\ block.pos = block.length /\ block.length = 0
      BY Lengths, OverIs DEF Init, Written
<1>2. temp \in Buffer(TempLen) /\ temp.length = 0
      BY Lengths, OverIs DEF Init, NoTemp, Written
<1>3. lines = << >> /\ All = << >> /\ Len(All) = 0 /\ Len(lines) = 0 /\ lines \in Seq(Line)
      BY TextsIs DEF All, Init
<1>4. Good
      <2>1. TextAsAsked
            BY <1>2 DEF TextAsAsked, Init, NoCall
      <2>2. state \in {"up", "down", "opened"} /\ appends \in 0..MaxAppends /\ tmp.array = << >>
            BY Lengths DEF Init, Heap!NoBuffer
      <2> QED
          BY <1>2, <2>1, <2>2 DEF Good
<1>5. Holds
      <2>1. Lesser(BlockLen, 0) = 0
            BY Lengths DEF Lesser
      <2>2. \A k \in 1..Lesser(BlockLen, Len(All)) : block.mem[k] = All[k]
            BY <1>3, <2>1
      <2>3. state # "opened"
            BY DEF Init
      <2> QED
          BY <1>1, <1>3, <2>1, <2>2, <2>3 DEF Holds
<1>6. (\A i \in 1..Len(lines) : Fitting(i)) /\ Readable
      BY <1>3 DEF Readable
<1> QED
    BY <1>4, <1>5, <1>6 DEF TextInv, Whole

\* and every step keeps it.
LEMMA Step == TextInv /\ [Next]_vars => TextInv'
<1> SUFFICES ASSUME TextInv, [Next]_vars PROVE TextInv'
    OBVIOUS
<1>0. Good /\ Whole
      BY DEF TextInv
<1>1. ASSUME NEW c \in Call, AppendAsync(c) PROVE TextInv'
      BY <1>0, <1>1, Calls, AsyncKeeps DEF TextInv
<1>2. ASSUME NEW c \in Call, AppendSync(c) PROVE TextInv'
      BY <1>0, <1>2, SyncKeeps DEF TextInv
<1>3. ASSUME NEW body \in Bodies, AppendFormat(body) PROVE TextInv'
      BY <1>0, <1>3, FormatKeeps DEF TextInv
<1>4. CASE Flush
      BY <1>0, <1>4, FlushKeeps DEF TextInv
<1>5. CASE Reopen
      BY <1>0, <1>5, ReopenKeeps DEF TextInv
<1>6. CASE UNCHANGED vars
      <2>1. Good'
            BY <1>0, <1>6 DEF Good, TextAsAsked, vars
      <2>2. Holds'
            BY <1>0, <1>6 DEF Whole, Holds, All, vars
      <2>3. \A i \in 1..Len(lines') : Fitting(i)'
            BY <1>0, <1>6 DEF Whole, Fitting, UpTo, All, vars
      <2>4. Readable'
            BY <1>0, <1>6 DEF Whole, Readable, All, vars
      <2> QED
          BY <2>1, <2>2, <2>3, <2>4 DEF TextInv, Whole
<1> QED
    BY <1>1, <1>2, <1>3, <1>4, <1>5, <1>6 DEF Next

\* So it holds always.
THEOREM Invariant == Spec => []TextInv
BY Start, Step, PTL DEF Spec

\* The lengths in the block.
LEMMA Measures ==
    ASSUME TextInv
    PROVE  /\ lines \in Seq(Line) /\ Len(lines) \in Nat /\ DOMAIN lines = 1..Len(lines)
           /\ All \in Seq(Byte) /\ Len(All) \in Nat
           /\ block \in Buffer(BlockLen) /\ block.length \in 0..BlockLen
           /\ Content(block) \in Seq(Byte) /\ Len(Content(block)) = block.length
           /\ \A k \in 1..block.length : Content(block)[k] = block.mem[k]
           /\ \A k \in 1..Lesser(BlockLen, Len(All)) : block.mem[k] = All[k]
           /\ state = "up" => block.length = Lesser(BlockLen, Len(All))
<1>1. lines \in Seq(Line) /\ block \in Buffer(BlockLen)
      BY DEF TextInv, Whole, Holds
<1>2. All \in Seq(Byte) /\ Len(All) \in Nat
      BY <1>1, TextsIs DEF All
<1>3. block.length \in 0..BlockLen
      BY <1>1, Lengths DEF Buffer
<1>4. /\ Content(block) \in Seq(Byte) /\ Len(Content(block)) = block.length
      /\ \A k \in 1..block.length : Content(block)[k] = block.mem[k]
      BY <1>1, Lengths, ContentIs
<1>5. /\ \A k \in 1..Lesser(BlockLen, Len(All)) : block.mem[k] = All[k]
      /\ state = "up" => block.length = Lesser(BlockLen, Len(All))
      BY DEF TextInv, Whole, Holds
<1> QED
    BY <1>1, <1>2, <1>3, <1>4, <1>5

\* No write of an append, of a flush or of the constructor leaves the array on the stack,
\* the mapped block or the memory that AutoBuffer has allocated, for every length of them,
\* of the headers and of the bodies.
THEOREM TypesHold == Spec => []TypeOK
<1>1. TextInv => TypeOK
      <2> SUFFICES ASSUME TextInv PROVE TypeOK
          OBVIOUS
      <2>1. ASSUME NEW max \in Nat, NEW b \in Buffer(max) PROVE Inside(b, max)
            <3>1. /\ b.mem \in [0..(max + 4) -> Byte] /\ b.max = max /\ b.pos \in Nat /\ b.length \in Nat
                  /\ b.length <= max /\ b.pos <= b.length
                  /\ \A i \in (max + 1)..(max + 4) : b.mem[i] = Other
                  BY DEF Buffer
            <3> QED
                BY <3>1 DEF Inside
      <2>2. temp \in Buffer(TempLen) /\ block \in Buffer(BlockLen) /\ block.mem[0] = Other
            BY DEF TextInv, Good, Whole, Holds
      <2>3. Inside(temp, TempLen) /\ Inside(block, BlockLen)
            BY <2>1, <2>2, Lengths
      <2> QED
          BY <2>2, <2>3 DEF TypeOK, TextInv, Good
<1> QED
    BY <1>1, Invariant, PTL

\* mtaf_log_formater writes the header, as much of the body as fits and one newline, for
\* every header that fits its snprintf and every body.
THEOREM TextIsAsAsked == Spec => []TextAsAsked
<1>1. TextInv => TextAsAsked
      BY DEF TextInv, Good
<1> QED
    BY <1>1, Invariant, PTL

\* Below four fifths of the block every line is stored whole and in its place, and ends
\* in a newline, for all lengths in the proportions of the code.
THEOREM LinesStayWhole == Spec => []LinesWhole
<1>1. TextInv => LinesWhole
      <2> SUFFICES ASSUME TextInv, state = "up"
                   PROVE  /\ IsPrefix(Content(block), All)
                          /\ \A i \in 1..Len(lines) : ~lines[i].full =>
                              /\ Len(UpTo(i)) <= block.length
                              /\ lines[i].header + Len(ErrorText) < TempLen => Last(lines[i].text) = NL
          BY Measures DEF LinesWhole, All, UpTo
      <2>1. block.length <= Len(All) /\ block.length = Lesser(BlockLen, Len(All))
            BY Measures, Lengths DEF Lesser
      <2>2. \A k \in 1..block.length : Content(block)[k] = All[k]
            BY <2>1, Measures
      <2>3. IsPrefix(Content(block), All)
            BY <2>1, <2>2, Measures, PrefixIs
      <2>4. ASSUME NEW i \in 1..Len(lines), ~lines[i].full
            PROVE  /\ Len(UpTo(i)) <= block.length
                   /\ lines[i].header + Len(ErrorText) < TempLen => Last(lines[i].text) = NL
            <3>1. /\ Len(UpTo(i)) \in Nat /\ Len(UpTo(i)) <= Len(All) /\ Len(UpTo(i)) < BlockLen - 4
                  /\ lines[i].header + Len(ErrorText) < TempLen => Last(lines[i].text) = NL
                  BY <2>4 DEF TextInv, Whole, Fitting
            <3> QED
                BY <2>1, <3>1, Measures, Lengths DEF Lesser
      <2> QED
          BY <2>3, <2>4
<1> QED
    BY <1>1, Invariant, PTL

\* The reader of the Readme, who stops at three NULs, finds every line of the block and
\* nothing else.
THEOREM ReaderSeesLines == Spec => []ReaderFindsLines
<1>1. TextInv => ReaderFindsLines
      <2> SUFFICES ASSUME TextInv, state = "up", lines # << >>,
                          \A i \in 1..Len(lines) : ~lines[i].full /\ lines[i].header < HeaderCap
                   PROVE  \E i \in Ends :
                            (\A j \in Ends : i <= j) /\ [k \in 1..(i - 1) |-> block.mem[k]] = All
          BY Measures DEF ReaderFindsLines, All
      <2> DEFINE n == Len(lines)
                 len == Len(All)
      <2>1. n \in 1..n
            BY Measures, EmptySeq
      <2>2. Len(UpTo(n)) = len /\ ~lines[n].full /\ len < BlockLen - 4
            <3>1. SubSeq(lines, 1, n) = lines
                  BY Measures
            <3>2. Fitting(n) /\ ~lines[n].full
                  BY <2>1 DEF TextInv, Whole
            <3> QED
                BY <3>1, <3>2 DEF Fitting, UpTo, All
      <2>3. block.length = len
            BY <2>2, Measures, Lengths DEF Lesser
      <2>4. \A k \in 1..3 : block.mem[len + k] = Nul
            BY <2>2, <2>3 DEF TextInv, Whole, Readable
      <2>5. \A k \in 1..len : block.mem[k] = All[k] /\ All[k] # Nul
            <3>1. \A k \in 1..len : All[k] # Nul
                  BY DEF TextInv, Whole, Readable
            <3>2. Lesser(BlockLen, len) = len
                  BY <2>3, Measures
            <3> QED
                BY <3>1, <3>2, Measures
      <2> HIDE DEF len
      <2>6. len \in Nat /\ len = Len(All)
            BY Measures DEF len
      <2>7. len + 1 \in Ends
            <3>1. len + 1 \in 1..(BlockLen - 2)
                  BY <2>2, <2>6, Lengths
            <3>2. ASSUME NEW k \in 0..2 PROVE block.mem[(len + 1) + k] = Nul
                  <4>1. k + 1 \in 1..3 /\ (len + 1) + k = len + (k + 1)
                        BY <2>6
                  <4> QED
                      BY <2>4, <4>1
            <3> QED
                BY <3>1, <3>2 DEF Ends
      <2>8. ASSUME NEW j \in Ends PROVE len + 1 <= j
            <3>1. j \in Nat /\ j >= 1 /\ block.mem[j] = Nul
                  <4>1. 0 \in 0..2 /\ j \in 1..(BlockLen - 2)
                        BY DEF Ends
                  <4>2. block.mem[j + 0] = Nul
                        BY <4>1 DEF Ends
                  <4> QED
                      BY <4>1, <4>2, Lengths
            <3>2. ~(j \in 1..len)
                  BY <2>5, <3>1
            <3> QED
                BY <2>6, <3>1, <3>2
      <2>9. [k \in 1..((len + 1) - 1) |-> block.mem[k]] = All
            <3>1. (len + 1) - 1 = len /\ All = [k \in 1..len |-> All[k]]
                  BY <2>6, Measures
            <3>2. [k \in 1..len |-> block.mem[k]] = [k \in 1..len |-> All[k]]
                  BY <2>5
            <3> QED
                BY <3>1, <3>2
      <2> QED
          BY <2>7, <2>8, <2>9
<1> QED
    BY <1>1, Invariant, PTL

\* A step that takes lines out of the block is a flush, and hands over every whole one:
\* the copy that got no memory, and the process that died of it, lose none.
THEOREM LinesComeOut == Spec => WholeLinesComeOut
<1>1. ASSUME TextInv, [Next]_vars, lines # << >>, lines' = << >>, NEW i \in DOMAIN lines, ~lines[i].full
      PROVE  IsPrefix(Texts(SubSeq(lines, 1, i)), out')
      <2>0. Good /\ Whole
            BY <1>1 DEF TextInv
      <2>1. Flush
            <3>1. ASSUME NEW c \in Call, AppendAsync(c) PROVE FALSE
                  BY <1>1, <2>0, <3>1, Calls, AsyncKeeps
            <3>2. ASSUME NEW c \in Call, AppendSync(c) PROVE FALSE
                  BY <1>1, <2>0, <3>2, SyncKeeps
            <3>3. ASSUME NEW body \in Bodies, AppendFormat(body) PROVE FALSE
                  BY <1>1, <2>0, <3>3, FormatKeeps
            <3>4. ~Reopen /\ ~UNCHANGED vars
                  BY <1>1 DEF Reopen, vars
            <3> QED
                BY <1>1, <3>1, <3>2, <3>3, <3>4 DEF Next
      <2>2. out' = Content(block) /\ block.length >= Lesser(BlockLen, Len(All))
            BY <1>1, <2>0, <2>1, FlushKeeps
      <2>3. i \in 1..Len(lines)
            BY <1>1, Measures
      <2>4. /\ UpTo(i) \in Seq(Byte) /\ Len(UpTo(i)) \in Nat
            /\ Len(UpTo(i)) <= Len(All) /\ Len(UpTo(i)) < BlockLen - 4
            /\ \A k \in 1..Len(UpTo(i)) : UpTo(i)[k] = All[k]
            BY <1>1, <2>3 DEF TextInv, Whole, Fitting
      <2>5. Len(UpTo(i)) <= Lesser(BlockLen, Len(All)) /\ Len(UpTo(i)) <= block.length
            BY <1>1, <2>2, <2>4, Measures, Lengths DEF Lesser
      <2>6. \A k \in 1..Len(UpTo(i)) : UpTo(i)[k] = Content(block)[k]
            <3> SUFFICES ASSUME NEW k \in 1..Len(UpTo(i)) PROVE UpTo(i)[k] = Content(block)[k]
                OBVIOUS
            <3>1. k \in 1..Lesser(BlockLen, Len(All)) /\ k \in 1..block.length
                  <4>1. Lesser(BlockLen, Len(All)) \in Nat /\ block.length \in Nat
                        BY <1>1, Measures, Lengths DEF Lesser
                  <4> QED
                      BY <2>4, <2>5, <4>1
            <3> QED
                BY <1>1, <2>4, <3>1, Measures
      <2>7. IsPrefix(UpTo(i), Content(block))
            BY <1>1, <2>4, <2>5, <2>6, Measures, PrefixIs
      <2> QED
          BY <2>2, <2>7 DEF UpTo
<1>2. TextInv /\ [Next]_vars
        => [lines # << >> /\ lines' = << >>
              => \A i \in DOMAIN lines :
                  ~lines[i].full => IsPrefix(Texts(SubSeq(lines, 1, i)), out')]_vars
      BY <1>1
<1> QED
    BY <1>2, Invariant, PTL DEF Spec, WholeLinesComeOut
=============================================================================
