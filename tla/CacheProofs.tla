---------------------------- MODULE CacheProofs ----------------------------
(***************************************************************************)
(* Proofs about the two caches of the agent.                               *)
(*                                                                         *)
(* ndFlowHashCache, for every cache size, purge divisor and number of      *)
(* detection threads.  Consistent and Bounded are inductive together: the  *)
(* purge test reads lookup.size() and the purge pops from index, so the    *)
(* bound needs Cardinality(lookup) = Len(index), which is what Consistent  *)
(* gives.  That a purge takes the oldest needs that the list is in the     *)
(* order of use.                                                           *)
(*                                                                         *)
(* ndDNSHintCache, for every TTL and update interval: the two bounds on    *)
(* the age of a hint.  The invariant ties an entry's deadline to the time  *)
(* of its last use, and says that the last update left no entry behind     *)
(* that was overdue then.                                                  *)
(***************************************************************************)
EXTENDS MCFlowHashCache, MCDnsHintCache, FiniteSetTheorems,
        SequenceTheorems, TLAPS

FhcInv == TypeOK /\ Consistent /\ Bounded

\* cache_size / fhc_purge_divisor is at most cache_size, and not zero unless
\* the divisor is the larger.
LEMMA Division ==
  ASSUME NEW a \in Nat \ {0}, NEW b \in Nat \ {0}
  PROVE  /\ a \div b \in 0..a
         /\ b <= a => a \div b >= 1
  OBVIOUS

\* A list with distinct keys has as many keys as elements: lookup.size() is
\* index.size().
LEMMA KeyCount ==
  ASSUME TypeOK, Consistent
  PROVE  IsFiniteSet(lookup) /\ Cardinality(lookup) = Len(index)
<1> DEFINE f == [i \in 1..Len(index) |-> index[i].lower]
<1>1. Len(index) \in Nat
  BY DEF TypeOK
<1>2. f \in Bijection(1..Len(index), lookup)
  <2>1. f \in [1..Len(index) -> lookup]
    BY DEF Consistent, Keys
  <2>2. \A i, j \in 1..Len(index) : f[i] = f[j] => i = j
    BY DEF Consistent
  <2>3. \A k \in lookup : \E i \in 1..Len(index) : f[i] = k
    BY DEF Consistent, Keys
  <2> QED
    BY <2>1, <2>2, <2>3 DEF Bijection, Injection, Surjection, IsInjective
<1>3. IsFiniteSet(1..Len(index)) /\ Cardinality(1..Len(index)) = Len(index)
  <2>1. 1 \in Int /\ Len(index) \in Int
    BY <1>1
  <2>2. /\ IsFiniteSet(1..Len(index))
        /\ Cardinality(1..Len(index)) =
             IF 1 > Len(index) THEN 0 ELSE Len(index) - 1 + 1
    BY <2>1, FS_Interval
  <2> QED
    BY <1>1, <2>2
<1> QED
  BY <1>2, <1>3, FS_Bijection DEF ExistsBijection

\* A push purges no more entries than the list holds, so the loop in
\* ndFlowHashCache::Push never calls back() on an empty list; and it purges
\* one at least when the cache is full and the divisor is not too large.
LEMMA PurgeInRange ==
  ASSUME FhcInv
  PROVE  /\ Len(index) \in Nat
         /\ PurgeCount \in 0..Len(index)
         /\ PurgeDivisor <= CacheSize =>
              Len(index) - PurgeCount + 1 <= CacheSize
<1>1. Len(index) \in Nat
  BY DEF FhcInv, TypeOK
<1>2. Cardinality(lookup) = Len(index)
  BY KeyCount DEF FhcInv
<1>3. /\ CacheSize \div PurgeDivisor \in 0..CacheSize
      /\ PurgeDivisor <= CacheSize => CacheSize \div PurgeDivisor >= 1
  BY FhcAssumption, Division
<1>4. PurgeDivisor <= CacheSize => Len(index) <= CacheSize
  BY DEF FhcInv, Bounded
<1>5. CASE Len(index) = CacheSize
  <2>1. PurgeCount = CacheSize \div PurgeDivisor
    BY <1>2, <1>5 DEF PurgeCount
  <2>2. PurgeCount \in 0..CacheSize
    BY <2>1, <1>3
  <2>3. PurgeDivisor <= CacheSize => PurgeCount >= 1
    BY <2>1, <1>3
  <2> HIDE <2>1
  <2> QED
    BY <1>1, <1>5, <2>2, <2>3, FhcAssumption
<1>6. CASE Len(index) # CacheSize
  <2>1. PurgeCount = 0
    BY <1>2, <1>6 DEF PurgeCount
  <2> QED
    BY <1>1, <1>4, <1>6, <2>1, FhcAssumption
<1> QED
  BY <1>5, <1>6

\* A function on 1..n is a list of n elements, as Front and MoveToFront
\* build them.
LEMMA ListOf ==
  ASSUME NEW n \in Nat, NEW s \in [1..n -> Pair]
  PROVE  s \in Seq(Pair) /\ Len(s) = n
  OBVIOUS

\* Push keeps the list and the hash map consistent and bounded.
LEMMA PushKeeps ==
  ASSUME FhcInv, NEW l \in Hashes, NEW u \in Hashes, Push(l, u)
  PROVE  /\ index' \in Seq(Pair)
         /\ lookup' \in SUBSET Hashes
         /\ Consistent' /\ Bounded'
<1>1. CASE l \in lookup
  BY <1>1 DEF Push, FhcInv, TypeOK, Consistent, Bounded, Keys
<1>2. CASE l \notin lookup
  <2> DEFINE e == [lower |-> l, upper |-> u]
             n == Len(index) - PurgeCount
             list == Front(e, index, n)
  <2>1. /\ index' = list
        /\ lookup' = (lookup \ PurgedKeys) \cup {l}
    BY <1>2 DEF Push
  <2>2. /\ Len(index) \in Nat
        /\ n \in 0..Len(index) /\ n + 1 \in Nat
        /\ PurgeDivisor <= CacheSize => n + 1 <= CacheSize
    BY PurgeInRange
  <2>3. \A i \in 1..Len(index) : index[i] \in Pair
    BY DEF FhcInv, TypeOK
  <2>4. e \in Pair /\ e.lower = l
    BY DEF Pair
  <2>5. PurgedKeys = {index[i].lower : i \in (n + 1)..Len(index)}
    BY DEF PurgedKeys
  <2>6. /\ lookup = {index[i].lower : i \in 1..Len(index)}
        /\ \A i, j \in 1..Len(index) : index[i].lower = index[j].lower => i = j
    BY DEF FhcInv, Consistent, Keys
  <2> HIDE DEF n, e
  <2>7. list \in Seq(Pair) /\ Len(list) = n + 1
    <3>1. list \in [1..(n + 1) -> Pair]
      BY <2>2, <2>3, <2>4 DEF Front
    <3> QED
      BY <3>1, <2>2, ListOf
  <2>8. list[1] = e /\ \A i \in 2..(n + 1) : list[i] = index[i - 1]
    BY <2>2 DEF Front
  <2> HIDE DEF list
  <2>9. Keys(list) = (lookup \ PurgedKeys) \cup {l}
    <3>1. ASSUME NEW k \in Keys(list)
          PROVE  k \in (lookup \ PurgedKeys) \cup {l}
      <4>1. PICK i \in 1..(n + 1) : k = list[i].lower
        BY <3>1, <2>7 DEF Keys
      <4>2. CASE i = 1
        BY <4>1, <4>2, <2>8, <2>4
      <4>3. CASE i # 1
        <5>1. i \in 2..(n + 1) /\ i - 1 \in 1..n /\ i - 1 \in 1..Len(index)
          BY <4>1, <4>3, <2>2
        <5>2. k = index[i - 1].lower
          BY <5>1, <4>1, <2>8
        <5>3. k \in lookup
          BY <5>1, <5>2, <2>6
        <5>4. \A j \in (n + 1)..Len(index) : index[j].lower # k
          BY <5>1, <5>2, <2>6, <2>2
        <5> QED
          BY <5>3, <5>4, <2>5
      <4> QED
        BY <4>2, <4>3
    <3>2. ASSUME NEW k \in lookup \ PurgedKeys
          PROVE  k \in Keys(list)
      <4>1. PICK i \in 1..Len(index) : k = index[i].lower
        BY <3>2, <2>6
      <4>2. i \in 1..n
        BY <4>1, <3>2, <2>5, <2>2
      <4>3. i + 1 \in 2..(n + 1) /\ i + 1 \in 1..(n + 1) /\ i + 1 - 1 = i
        BY <4>2, <2>2
      <4>4. list[i + 1].lower = k
        BY <4>1, <4>3, <2>8
      <4> QED
        BY <4>3, <4>4, <2>7 DEF Keys
    <3>3. l \in Keys(list)
      BY <2>8, <2>4, <2>7, <2>2 DEF Keys
    <3> QED
      BY <3>1, <3>2, <3>3
  <2>10. \A i, j \in 1..Len(list) : list[i].lower = list[j].lower => i = j
    <3>1. \A i \in 2..(n + 1) : list[i].lower \in lookup
      BY <2>2, <2>6, <2>8
    <3>2. \A i, j \in 2..(n + 1) : list[i].lower = list[j].lower => i = j
      <4> SUFFICES ASSUME NEW i \in 2..(n + 1), NEW j \in 2..(n + 1),
                          list[i].lower = list[j].lower
                   PROVE  i = j
        OBVIOUS
      <4>1. i - 1 \in 1..Len(index) /\ j - 1 \in 1..Len(index)
        BY <2>2
      <4>2. i - 1 = j - 1
        BY <4>1, <2>6, <2>8
      <4> QED
        BY <4>2, <2>2
    <3>3. list[1].lower \notin lookup
      BY <1>2, <2>4, <2>8
    <3> QED
      BY <2>2, <2>7, <3>1, <3>2, <3>3
  <2> QED
    BY <2>1, <2>2, <2>7, <2>9, <2>10 DEF FhcInv, TypeOK, Consistent, Bounded
<1> QED
  BY <1>1, <1>2

\* Pop only changes the order of the list.
LEMMA PopKeeps ==
  ASSUME FhcInv, NEW l \in Hashes, Pop(l)
  PROVE  /\ index' \in Seq(Pair)
         /\ lookup' \in SUBSET Hashes
         /\ Consistent' /\ Bounded'
<1>1. PICK p \in 1..Len(index) : /\ index' = MoveToFront(index, p)
                                 /\ lookup' = lookup
  BY DEF Pop
<1> DEFINE n == Len(index)
           list == MoveToFront(index, p)
           from(i) == IF i = 1 THEN p ELSE IF i <= p THEN i - 1 ELSE i
<1>2. n \in Nat /\ p \in 1..n /\ \A i \in 1..n : index[i] \in Pair
  BY DEF FhcInv, TypeOK
<1>3. \A i \in 1..n : from(i) \in 1..n /\ list[i] = index[from(i)]
  BY <1>2 DEF MoveToFront
<1>4. list \in Seq(Pair) /\ Len(list) = n
  <2>1. list \in [1..n -> Pair]
    BY <1>2 DEF MoveToFront
  <2> QED
    BY <2>1, <1>2, ListOf
<1>5. \A i, j \in 1..n : from(i) = from(j) => i = j
  BY <1>2
<1>6. \A k \in 1..n : \E i \in 1..n : from(i) = k
  <2> SUFFICES ASSUME NEW k \in 1..n PROVE \E i \in 1..n : from(i) = k
    OBVIOUS
  <2>1. CASE k = p
    BY <2>1, <1>2
  <2>2. CASE k < p
    <3>1. k + 1 \in 1..n /\ from(k + 1) = k
      BY <2>2, <1>2
    <3> QED
      BY <3>1
  <2>3. CASE k > p
    <3>1. from(k) = k
      BY <2>3, <1>2
    <3> QED
      BY <3>1
  <2> QED
    BY <2>1, <2>2, <2>3, <1>2
<1>7. /\ lookup = {index[i].lower : i \in 1..n}
      /\ \A i, j \in 1..n : index[i].lower = index[j].lower => i = j
  BY DEF FhcInv, Consistent, Keys
<1> HIDE DEF list, from, n
<1>8. Keys(list) = lookup
  <2>1. \A i \in 1..n : list[i].lower \in lookup
    BY <1>3, <1>7
  <2>2. ASSUME NEW k \in lookup
        PROVE  \E i \in 1..n : list[i].lower = k
    <3>1. PICK j \in 1..n : index[j].lower = k
      BY <1>7
    <3>2. PICK i \in 1..n : from(i) = j
      BY <1>6
    <3> QED
      BY <1>3, <3>1, <3>2
  <2> QED
    BY <2>1, <2>2, <1>4 DEF Keys
<1>9. \A i, j \in 1..n : list[i].lower = list[j].lower => i = j
  BY <1>3, <1>5, <1>7
<1> QED
  BY <1>1, <1>4, <1>8, <1>9 DEF FhcInv, TypeOK, Consistent, Bounded, list, n

\* Every operation of the detection threads keeps the invariant.
LEMMA FhcStep ==
  ASSUME FhcInv, [Next]_vars
  PROVE  FhcInv'
<1>1. CASE UNCHANGED vars
  BY <1>1 DEF FhcInv, TypeOK, Consistent, Bounded, Keys, vars
<1>2. ASSUME NEW t \in Threads, NEW l \in Hashes, PopHit(t, l)
      PROVE  FhcInv'
  BY <1>2, PopKeeps DEF PopHit, FhcInv, TypeOK
<1>3. ASSUME NEW t \in Threads, NEW l \in Hashes, PopMiss(t, l)
      PROVE  FhcInv'
  BY <1>3 DEF PopMiss, FhcInv, TypeOK, Consistent, Bounded, Keys
<1>4. ASSUME NEW t \in Threads, NEW u \in Hashes, AfterMiss(t, u)
      PROVE  FhcInv'
  <2>1. missed[t] \in Hashes
    BY <1>4 DEF AfterMiss, FhcInv, TypeOK
  <2>2. missed' \in [Threads -> Hashes \cup {NULL}]
    BY <1>4 DEF AfterMiss, FhcInv, TypeOK
  <2>3. CASE Push(missed[t], u)
    BY <2>1, <2>2, <2>3, PushKeeps DEF FhcInv, TypeOK
  <2>4. CASE UNCHANGED <<index, lookup>>
    BY <2>2, <2>4 DEF FhcInv, TypeOK, Consistent, Bounded, Keys
  <2> QED
    BY <1>4, <2>3, <2>4 DEF AfterMiss
<1> QED
  BY <1>1, <1>2, <1>3, <1>4 DEF Next

\* The three properties hold together in every state of the cache.
LEMMA FhcInvariant == Spec => []FhcInv
<1>1. Init => FhcInv
  BY FhcAssumption
  DEF Init, FhcInv, TypeOK, Consistent, Bounded, Keys
<1> QED
  BY <1>1, FhcStep, PTL DEF Spec

\* ndFlowHashCache's list and hash map always hold the same digests, each
\* once, whatever threads push between another's Pop and Push.
THEOREM CacheConsistent == Spec => []Consistent
  BY FhcInvariant, PTL DEF FhcInv

\* Unless the purge divisor exceeds cache_size, ndFlowHashCache never holds
\* more than cache_size entries.
THEOREM CacheBounded == Spec => []Bounded
  BY FhcInvariant, PTL DEF FhcInv

-----------------------------------------------------------------------------
\* The list is in the order of use.
UseOrder ==
  \A i, j \in 1..Len(index) :
    i < j => <<index[i].lower, index[j].lower>> \in newer

\* With the order of use recorded, the cache takes the same steps.
LEMMA Recorded ==
  ASSUME [MCNext]_<<vars, newer>>
  PROVE  [Next]_vars
  BY DEF MCNext, Next, vars

\* What Pop finds goes to the front of the list.
LEMMA PopOrder ==
  ASSUME FhcInv, UseOrder, NEW l \in Hashes, Pop(l), Use(l)
  PROVE  UseOrder'
<1>1. PICK p \in 1..Len(index) : /\ index[p].lower = l
                                 /\ index' = MoveToFront(index, p)
  BY DEF Pop
<1> DEFINE n == Len(index)
           list == MoveToFront(index, p)
           from(i) == IF i = 1 THEN p ELSE IF i <= p THEN i - 1 ELSE i
<1>2. n \in Nat /\ p \in 1..n /\ \A i \in 1..n : index[i] \in Pair
  BY DEF FhcInv, TypeOK
<1>3. \A i \in 1..n : from(i) \in 1..n /\ list[i] = index[from(i)]
  BY <1>2 DEF MoveToFront
<1>4. Len(list) = n
  <2>1. list \in [1..n -> Pair]
    BY <1>2 DEF MoveToFront
  <2> QED
    BY <2>1, <1>2, ListOf
<1>5. \A i, j \in 1..n : index[i].lower = index[j].lower => i = j
  BY DEF FhcInv, Consistent
<1>6. ASSUME NEW i \in 1..n, NEW j \in 1..n, i < j
      PROVE  <<list[i].lower, list[j].lower>> \in newer'
  <2>1. from(j) \in 1..n /\ from(j) # p
    BY <1>2, <1>6
  <2> DEFINE b == index[from(j)].lower
  <2>2. b # l /\ b \in Hashes
    BY <1>1, <1>2, <1>5, <2>1 DEF Pair
  <2>3. CASE i = 1
    <3>1. list[i].lower = l /\ list[j].lower = b
      BY <1>1, <1>3, <2>3
    <3> HIDE DEF list, b
    <3> QED
      BY <2>2, <3>1 DEF Use
  <2>4. CASE i # 1
    <3>1. from(i) \in 1..n /\ from(i) < from(j)
      BY <1>2, <1>6, <2>4
    <3> DEFINE a == index[from(i)].lower
    <3>2. <<a, b>> \in newer
      BY <2>1, <3>1 DEF UseOrder
    <3>3. list[i].lower = a /\ list[j].lower = b
      BY <1>3
    <3> HIDE DEF list, a, b
    <3>4. <<a, b>> \in newer'
      BY <2>2, <3>2 DEF Use
    <3> QED
      BY <3>3, <3>4
  <2> QED
    BY <2>3, <2>4
<1> QED
  BY <1>1, <1>4, <1>6 DEF UseOrder

\* A push drops the end of the list and puts the new digest in front.
LEMMA PushOrder ==
  ASSUME FhcInv, UseOrder, NEW l \in Hashes, NEW u \in Hashes, Push(l, u),
         l \notin lookup
  PROVE  /\ Use(l) => UseOrder'
         /\ \A k \in lookup \ lookup', m \in lookup \cap lookup' :
              <<m, k>> \in newer
<1> DEFINE e == [lower |-> l, upper |-> u]
           n == Len(index) - PurgeCount
           list == Front(e, index, n)
<1>1. /\ index' = list
      /\ lookup' = (lookup \ PurgedKeys) \cup {l}
  BY DEF Push
<1>2. Len(index) \in Nat /\ n \in 0..Len(index) /\ n + 1 \in Nat
  BY PurgeInRange
<1>3. \A i \in 1..Len(index) : index[i] \in Pair
  BY DEF FhcInv, TypeOK
<1>4. PurgedKeys = {index[i].lower : i \in (n + 1)..Len(index)}
  BY DEF PurgedKeys
<1>5. lookup = {index[i].lower : i \in 1..Len(index)}
  BY DEF FhcInv, Consistent, Keys
<1>6. e \in Pair /\ e.lower = l
  BY DEF Pair
<1> HIDE DEF n, e
<1>7. Len(list) = n + 1
  <2>1. list \in [1..(n + 1) -> Pair]
    BY <1>2, <1>3, <1>6 DEF Front
  <2> QED
    BY <2>1, <1>2, ListOf
<1>8. list[1] = e /\ \A i \in 2..(n + 1) : list[i] = index[i - 1]
  BY <1>2 DEF Front
<1> HIDE DEF list
<1>9. ASSUME Use(l), NEW i \in 1..(n + 1), NEW j \in 1..(n + 1), i < j
      PROVE  <<list[i].lower, list[j].lower>> \in newer'
  <2> DEFINE b == index[j - 1].lower
  <2>1. j - 1 \in 1..n /\ j - 1 \in 1..Len(index) /\ list[j].lower = b
    BY <1>2, <1>8, <1>9
  <2>2. b \in Hashes /\ b # l
    BY <1>3, <1>5, <2>1 DEF Pair
  <2>3. CASE i = 1
    <3>1. list[i].lower = l
      BY <1>6, <1>8, <2>3
    <3> HIDE DEF b
    <3> QED
      BY <1>9, <2>1, <2>2, <3>1 DEF Use
  <2>4. CASE i # 1
    <3> DEFINE a == index[i - 1].lower
    <3>1. i - 1 \in 1..Len(index) /\ i - 1 < j - 1 /\ list[i].lower = a
      BY <1>2, <1>8, <1>9, <2>4
    <3>2. <<a, b>> \in newer
      BY <2>1, <3>1 DEF UseOrder
    <3> HIDE DEF a, b
    <3>3. <<a, b>> \in newer'
      BY <1>9, <2>2, <3>2 DEF Use
    <3> QED
      BY <2>1, <3>1, <3>3
  <2> QED
    BY <2>3, <2>4
<1>10. ASSUME NEW k \in lookup \ lookup', NEW m \in lookup \cap lookup'
       PROVE  <<m, k>> \in newer
  <2>1. PICK j \in (n + 1)..Len(index) : k = index[j].lower
    BY <1>1, <1>4, <1>10
  <2>2. m \in lookup \ PurgedKeys
    BY <1>1, <1>10
  <2>3. PICK i \in 1..Len(index) : m = index[i].lower
    BY <1>5, <2>2
  <2>4. i \in 1..n
    BY <1>2, <1>4, <2>2, <2>3
  <2>5. i < j /\ j \in 1..Len(index)
    BY <1>2, <2>1, <2>4
  <2> QED
    BY <2>1, <2>3, <2>5 DEF UseOrder
<1> QED
  BY <1>1, <1>7, <1>9, <1>10 DEF UseOrder

\* Every step of the detection threads keeps the list in the order of use,
\* and what it drops from the cache was used before what it keeps.
LEMMA OrderStep ==
  ASSUME FhcInv, UseOrder, [MCNext]_<<vars, newer>>
  PROVE  /\ UseOrder'
         /\ \A k \in lookup \ lookup', m \in lookup \cap lookup' :
              <<m, k>> \in newer
<1>1. CASE UNCHANGED <<index, lookup, newer>>
  BY <1>1 DEF UseOrder
<1>2. ASSUME NEW t \in Threads, NEW l \in Hashes, PopHit(t, l), Use(l)
      PROVE  UseOrder' /\ lookup' = lookup
  BY <1>2, PopOrder DEF PopHit, Pop
<1>3. ASSUME NEW t \in Threads, NEW u \in Hashes, AfterMiss(t, u),
             u = missed[t], u \notin lookup, Use(u)
      PROVE  /\ UseOrder'
             /\ \A k \in lookup \ lookup', m \in lookup \cap lookup' :
                  <<m, k>> \in newer
  <2>1. Push(u, u)
    BY <1>3 DEF AfterMiss
  <2> QED
    BY <1>3, <2>1, PushOrder
<1>4. ASSUME NEW t \in Threads, NEW u \in Hashes, AfterMiss(t, u),
             ~(u = missed[t] /\ u \notin lookup), UNCHANGED newer
      PROVE  UNCHANGED <<index, lookup, newer>>
  BY <1>4 DEF AfterMiss, Push
<1>5. ASSUME NEW t \in Threads, NEW l \in Hashes, PopMiss(t, l),
             UNCHANGED newer
      PROVE  UNCHANGED <<index, lookup, newer>>
  BY <1>5 DEF PopMiss
<1>6. CASE UNCHANGED <<vars, newer>>
  BY <1>1, <1>6 DEF vars
<1>7. CASE MCNext
  BY <1>1, <1>2, <1>3, <1>4, <1>5, <1>7 DEF MCNext
<1> QED
  BY <1>6, <1>7

\* A full ndFlowHashCache purges the digests that were used least recently,
\* whatever the threads looked up and pushed in whatever order.
THEOREM OldestPurged == MCSpec => PurgesOldest
<1>1. MCInit => FhcInv /\ UseOrder
  BY FhcAssumption
  DEF MCInit, Init, FhcInv, TypeOK, Consistent, Bounded, Keys, UseOrder
<1>2. FhcInv /\ UseOrder /\ [MCNext]_<<vars, newer>> => (FhcInv /\ UseOrder)'
  BY FhcStep, Recorded, OrderStep
<1>3. FhcInv /\ UseOrder /\ [MCNext]_<<vars, newer>>
        => [\A k \in lookup \ lookup', m \in lookup \cap lookup' :
              <<m, k>> \in newer]_<<vars, newer>>
  BY OrderStep
<1> QED
  BY <1>1, <1>2, <1>3, PTL DEF MCSpec, PurgesOldest

-----------------------------------------------------------------------------
Clock ==
  /\ now \in Nat /\ updated \in Nat
  /\ updated <= now /\ now <= updated + Interval

AgeOf(a) ==
  IF Present(a)
  THEN /\ used[a] \in Nat /\ map_ar[a].deadline = used[a] + Ttl
       /\ map_ar[a].deadline >= updated
  ELSE used[a] # NoHint /\ a \notin forgotten => used[a] + Ttl < now

AgeInv ==
  /\ HintTypeOK
  /\ Clock
  /\ used \in [Addrs -> Nat \cup {NoHint}]
  /\ \A a \in Addrs : AgeOf(a)

\* The cache starts empty.
LEMMA AgeInit == AgedInit => AgeInv
  BY DhcAssumption
  DEF AgedInit, HintInit, AgeInv, HintTypeOK, Clock, AgeOf, Present, Empty,
      DnsTuple

\* An entry that is inserted or found is used now.
LEMMA UseStep ==
  ASSUME AgeInv, NEW a \in Addrs, Lookup(a) \/ \E h \in Hosts : Insert(a, h),
         used' = [used EXCEPT ![a] = now], forgotten' = forgotten \ {a}
  PROVE  AgeInv'
<1>1. PICK e \in DnsTuple :
        /\ e.deadline = now + Ttl /\ e.host # NoHint
        /\ map_ar' = [map_ar EXCEPT ![a] = e]
        /\ now' = now /\ updated' = updated
  <2>1. map_ar[a] \in DnsTuple \cup {Empty} /\ now + Ttl \in Nat
    BY DhcAssumption DEF AgeInv, HintTypeOK, Clock
  <2>2. CASE Lookup(a)
    <3> DEFINE e == [deadline |-> now + Ttl, host |-> map_ar[a].host]
    <3>1. map_ar[a] \in DnsTuple /\ map_ar[a].host \in Hosts
      BY <2>1, <2>2 DEF Lookup, Present, Empty, DnsTuple
    <3>2. e \in DnsTuple /\ e.deadline = now + Ttl /\ e.host # NoHint
      BY <2>1, <3>1, DhcAssumption DEF DnsTuple
    <3>3. map_ar' = [map_ar EXCEPT ![a] = e]
      <4>1. [map_ar[a] EXCEPT !.deadline = now + Ttl] = e
        BY <3>1 DEF DnsTuple
      <4>2. map_ar' = [map_ar EXCEPT ![a] =
                         [map_ar[a] EXCEPT !.deadline = now + Ttl]]
        BY <2>2 DEF Lookup
      <4> HIDE DEF e
      <4> QED
        BY <4>1, <4>2
    <3> QED
      BY <2>2, <3>2, <3>3 DEF Lookup
  <2>3. ASSUME NEW h \in Hosts, Insert(a, h)
        PROVE  \E e \in DnsTuple :
                 /\ e.deadline = now + Ttl /\ e.host # NoHint
                 /\ map_ar' = [map_ar EXCEPT ![a] = e]
                 /\ now' = now /\ updated' = updated
    <3> DEFINE e == [deadline |-> now + Ttl,
                     host |-> IF Present(a) THEN map_ar[a].host ELSE h]
    <3>1. e.host \in Hosts
      BY <2>1 DEF Present, Empty, DnsTuple
    <3>2. e \in DnsTuple /\ e.deadline = now + Ttl /\ e.host # NoHint
      BY <2>1, <3>1, DhcAssumption DEF DnsTuple
    <3> QED
      BY <2>3, <3>2 DEF Insert
  <2> QED
    BY <2>2, <2>3
<1>2. HintTypeOK' /\ Clock' /\ used' \in [Addrs -> Nat \cup {NoHint}]
  BY <1>1 DEF AgeInv, HintTypeOK, Clock
<1>3. ASSUME NEW b \in Addrs PROVE AgeOf(b)'
  <2>1. CASE b = a
    BY <1>1, <2>1, DhcAssumption DEF AgeInv, HintTypeOK, Clock, AgeOf, Present
  <2>2. CASE b # a
    BY <1>1, <2>2 DEF AgeInv, HintTypeOK, Clock, AgeOf, Present
  <2> QED
    BY <2>1, <2>2
<1> QED
  BY <1>2, <1>3 DEF AgeInv

\* Purge drops what is overdue, time passes, a restart drops everything.
LEMMA OtherStep ==
  ASSUME AgeInv
  PROVE  /\ Purge /\ UNCHANGED <<used, forgotten>> => AgeInv'
         /\ Tick /\ UNCHANGED <<used, forgotten>> => AgeInv'
         /\ Restart /\ forgotten' = Addrs /\ UNCHANGED used => AgeInv'
         /\ UNCHANGED agedVars => AgeInv'
<1>1. ASSUME Purge, UNCHANGED <<used, forgotten>> PROVE AgeInv'
  <2>1. HintTypeOK' /\ Clock' /\ used' \in [Addrs -> Nat \cup {NoHint}]
    BY <1>1, DhcAssumption DEF AgeInv, HintTypeOK, Clock, Purge
  <2>2. ASSUME NEW a \in Addrs PROVE AgeOf(a)'
    <3>1. CASE Overdue(a)
      <4>1. map_ar'[a] = Empty
        BY <1>1, <3>1 DEF Purge
      <4>2. used[a] # NoHint /\ a \notin forgotten => used[a] + Ttl < now
        BY <3>1, DhcAssumption DEF AgeInv, AgeOf, Overdue, Clock
      <4> QED
        BY <1>1, <4>1, <4>2 DEF Purge, AgeOf, Present, Empty
    <3>2. CASE ~Overdue(a)
      <4>1. map_ar'[a] = map_ar[a] /\ map_ar[a].deadline \in Nat
        BY <1>1, <3>2 DEF Purge, AgeInv, HintTypeOK, DnsTuple, Empty
      <4> QED
        BY <1>1, <3>2, <4>1 DEF Purge, AgeInv, AgeOf, Present, Overdue, Clock
    <3> QED
      BY <3>1, <3>2
  <2> QED
    BY <2>1, <2>2 DEF AgeInv
<1>2. ASSUME Tick, UNCHANGED <<used, forgotten>> PROVE AgeInv'
  <2>1. HintTypeOK' /\ Clock' /\ used' \in [Addrs -> Nat \cup {NoHint}]
    BY <1>2, DhcAssumption DEF AgeInv, HintTypeOK, Clock, Tick
  <2>2. \A a \in Addrs : AgeOf(a)'
    BY <1>2, DhcAssumption DEF AgeInv, AgeOf, Present, Clock, Tick
  <2> QED
    BY <2>1, <2>2 DEF AgeInv
<1>3. ASSUME Restart, forgotten' = Addrs, UNCHANGED used PROVE AgeInv'
  BY <1>3, DhcAssumption
  DEF AgeInv, HintTypeOK, Clock, AgeOf, Present, Empty, Restart
<1>4. ASSUME UNCHANGED agedVars PROVE AgeInv'
  BY <1>4 DEF agedVars, AgeInv, HintTypeOK, Clock, AgeOf, Present, hintVars
<1> QED
  BY <1>1, <1>2, <1>3, <1>4

\* The invariant holds in every state.
LEMMA AgeInvariant == AgedSpec => []AgeInv
<1>1. AgeInv /\ [AgedNext]_agedVars => AgeInv'
  BY UseStep, OtherStep DEF AgedNext
<1> QED
  BY AgeInit, <1>1, PTL DEF AgedSpec

\* As long as the agent is not started again, ndDNSHintCache keeps a hint for
\* ttl_dns_entry seconds after its last use, whatever the other threads do.
THEOREM HintsKept == AgedSpec => []KeptForTtl
<1>1. AgeInv => KeptForTtl
  BY DhcAssumption DEF AgeInv, Clock, AgeOf, KeptForTtl
<1> QED
  BY <1>1, AgeInvariant, PTL

\* ndDNSHintCache serves no hint that was unused for longer than
\* ttl_dns_entry and one update interval.
THEOREM HintsNotStale == AgedSpec => []StaleBounded
<1>1. AgeInv => StaleBounded
  BY DhcAssumption DEF AgeInv, Clock, AgeOf, StaleBounded
<1> QED
  BY <1>1, AgeInvariant, PTL
=============================================================================
