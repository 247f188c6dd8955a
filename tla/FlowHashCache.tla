--------------------------- MODULE FlowHashCache ---------------------------
(***************************************************************************)
(* ndFlowHashCache: a least-recently-used cache from a flow's lower digest *)
(* to its metadata digest, kept as a list in order of use (index) and a    *)
(* hash map into it (lookup).  All detection threads share one cache;      *)
(* each operation runs under its mutex and is one step.                    *)
(*                                                                         *)
(* A detection thread uses the cache as ndDetectionThread::ProcessFlow     *)
(* does: Pop, and when nothing was found it hashes the flow's metadata and *)
(* pushes the result if it equals the lower digest.  Between the two the   *)
(* mutex is free, and another thread may push the same digest.             *)
(***************************************************************************)
EXTENDS Integers, Sequences, FiniteSets

CONSTANTS
  Threads,       \* detection threads
  Hashes,        \* flow digests, lower and metadata ones
  CacheSize,     \* cache_size, set from max_fhc
  PurgeDivisor,  \* fhc_purge_divisor
  NULL           \* no digest

ASSUME FhcAssumption ==
  /\ CacheSize \in Nat \ {0}
  /\ PurgeDivisor \in Nat \ {0}
  /\ NULL \notin Hashes

VARIABLES
  index,    \* the list of pairs, most recently used first
  lookup,   \* the keys of the hash map; the iterator of a key is its place
            \* in the list
  missed    \* thread -> the lower digest it did not find

vars == <<index, lookup, missed>>

Pair == [lower : Hashes, upper : Hashes]

TypeOK ==
  /\ index \in Seq(Pair)
  /\ lookup \in SUBSET Hashes
  /\ missed \in [Threads -> Hashes \cup {NULL}]

-----------------------------------------------------------------------------

\* push_front on the first n elements of s
Front(e, s, n) ==
  [i \in 1..(n + 1) |-> IF i = 1 THEN e ELSE s[i - 1]]

\* Mutant: a found pair stays where it is
StayInPlace(s, p) == s

\* The list with its element at place p erased and put in front
MoveToFront(s, p) ==
  [i \in 1..Len(s) |-> IF i = 1 THEN s[p]
                       ELSE IF i <= p THEN s[i - 1] ELSE s[i]]

Keys(s) == {s[i].lower : i \in 1..Len(s)}

\* Mutant: a full cache is not purged yet
PurgeCountLate ==
  IF Cardinality(lookup) > CacheSize THEN CacheSize \div PurgeDivisor ELSE 0

\* How many entries a push purges from the back of the list
PurgeCount ==
  IF Cardinality(lookup) = CacheSize THEN CacheSize \div PurgeDivisor ELSE 0

\* Mutant: the purge forgets the oldest key in the hash map
PurgedKeysButLast ==
  {index[i].lower : i \in (Len(index) - PurgeCount + 1)..(Len(index) - 1)}

\* The keys the purge takes from the hash map
PurgedKeys ==
  {index[i].lower : i \in (Len(index) - PurgeCount + 1)..Len(index)}

\* Push: a digest that is already there is left as it is; a full cache is
\* purged first
Push(l, u) ==
  IF l \in lookup
  THEN UNCHANGED <<index, lookup>>
  ELSE /\ index' = Front([lower |-> l, upper |-> u], index,
                         Len(index) - PurgeCount)
       /\ lookup' = (lookup \ PurgedKeys) \cup {l}

\* Pop: a found entry becomes the most recently used one
Pop(l) ==
  \E p \in 1..Len(index) :
    /\ index[p].lower = l
    /\ index' = MoveToFront(index, p)
    /\ UNCHANGED lookup

-----------------------------------------------------------------------------

PopHit(t, l) ==
  /\ missed[t] = NULL
  /\ l \in lookup
  /\ Pop(l)
  /\ UNCHANGED missed

PopMiss(t, l) ==
  /\ missed[t] = NULL
  /\ l \notin lookup
  /\ missed' = [missed EXCEPT ![t] = l]
  /\ UNCHANGED <<index, lookup>>

\* u is the metadata digest that was just hashed
AfterMiss(t, u) ==
  /\ missed[t] # NULL
  /\ IF u = missed[t] THEN Push(missed[t], u) ELSE UNCHANGED <<index, lookup>>
  /\ missed' = [missed EXCEPT ![t] = NULL]

Init ==
  /\ index = <<>>
  /\ lookup = {}
  /\ missed = [t \in Threads |-> NULL]

Next ==
  \E t \in Threads :
    \/ \E l \in Hashes : PopHit(t, l) \/ PopMiss(t, l)
    \/ \E u \in Hashes : AfterMiss(t, u)

Spec == Init /\ [][Next]_vars

-----------------------------------------------------------------------------

\* The list and the hash map hold the same digests, each once: the iterators
\* of the hash map are never dangling and the purge in Push never meets the
\* "flow hash cache index not found in map" warning.
Consistent ==
  /\ lookup = Keys(index)
  /\ \A i, j \in 1..Len(index) : index[i].lower = index[j].lower => i = j

\* With a purge divisor of at most cache_size every purge in Push frees a
\* place, and the cache never holds more than cache_size entries.
Bounded == PurgeDivisor <= CacheSize => Len(index) <= CacheSize
=============================================================================
