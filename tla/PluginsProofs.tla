--------------------------- MODULE PluginsProofs ---------------------------
(***************************************************************************)
(* What holds of the plugin manager and the sink queues (Plugins) for any  *)
(* number of plugins, payloads of any lengths and any size limit.          *)
(***************************************************************************)
EXTENDS Plugins, FiniteSetTheorems, FunctionTheorems, SequenceTheorems, TLAPS

-----------------------------------------------------------------------------
(* The size of a queue                                                     *)

\* The bytes of one payload
LEMMA ChunkSize ==
  ASSUME NEW i, NEW n \in Nat
  PROVE  /\ IsFiniteSet({i} \X (1..n))
         /\ Cardinality({i} \X (1..n)) = n
<1>1. IsFiniteSet({i}) /\ Cardinality({i}) = 1
  BY FS_Singleton
<1>2. IsFiniteSet(1..n) /\ Cardinality(1..n) = n
  BY FS_Interval
<1>3. /\ IsFiniteSet({i} \X (1..n))
      /\ Cardinality({i} \X (1..n)) = Cardinality({i}) * Cardinality(1..n)
  BY <1>1, <1>2, FS_Product
<1> QED
  BY <1>1, <1>2, <1>3

\* A byte of a queue is at a place of a payload of it
LEMMA BytesIn ==
  ASSUME NEW q \in Seq(Payload), NEW b
  PROVE  b \in Bytes(q) <=>
           \E i \in 1..Len(q), k \in Nat :
             k \in 1..q[i].length /\ b = <<i, k>>
BY DEF Bytes

LEMMA BytesFinite ==
  ASSUME NEW q \in Seq(Payload)
  PROVE  IsFiniteSet(Bytes(q)) /\ Total(q) \in Nat
<1> DEFINE Chunk(i) == {i} \X (1..q[i].length)
           f == [i \in 1..Len(q) |-> Chunk(i)]
           C == {Chunk(i) : i \in 1..Len(q)}
<1>1. \A i \in 1..Len(q) : IsFiniteSet(Chunk(i))
  <2> TAKE i \in 1..Len(q)
  <2>1. q[i] \in Payload
    BY ElementOfSeq
  <2>2. q[i].length \in Nat
    BY <2>1 DEF Payload
  <2> QED
    BY <2>2, ChunkSize
<1>2. IsFiniteSet(C)
  <2>1. f \in Surjection(1..Len(q), C)
    BY Fun_IsSurj
  <2>2. IsFiniteSet(1..Len(q))
    BY FS_Interval, LenProperties
  <2> HIDE DEF f, C
  <2> QED
    BY <2>1, <2>2, FS_Surjection
<1>3. \A T \in C : IsFiniteSet(T)
  BY <1>1
<1>4. IsFiniteSet(UNION C)
  <2> HIDE DEF C
  <2> QED
    BY <1>2, <1>3, FS_UNION
<1>5. Bytes(q) = UNION C
  BY DEF Bytes
<1>6. IsFiniteSet(Bytes(q))
  BY <1>4, <1>5
<1> QED
  BY <1>6, FS_CardinalityType DEF Total

LEMMA TotalEmpty == Total(<<>>) = 0
<1>1. Bytes(<<>>) = {}
  BY DEF Bytes
<1> QED
  BY <1>1, FS_EmptySet DEF Total

\* A payload added at the end adds its length
LEMMA TotalAppend ==
  ASSUME NEW q \in Seq(Payload), NEW x \in Payload
  PROVE  Total(Append(q, x)) = Total(q) + x.length
<1> DEFINE n == Len(q) + 1
           T == {n} \X (1..x.length)
           a == Append(q, x)
<1>1. x.length \in Nat
  BY DEF Payload
<1>2. IsFiniteSet(T) /\ Cardinality(T) = x.length
  BY <1>1, ChunkSize
<1>3. /\ a \in Seq(Payload) /\ Len(a) = n /\ a[n] = x
      /\ \A i \in 1..Len(q) : a[i] = q[i]
  OBVIOUS
<1> HIDE DEF a
<1>4. Bytes(a) = Bytes(q) \cup T
  <2>1. ASSUME NEW b \in Bytes(a) PROVE b \in Bytes(q) \cup T
    <3>1. PICK i \in 1..n, k \in Nat :
        k \in 1..a[i].length /\ b = <<i, k>>
      BY <1>3, BytesIn
    <3>2. CASE i = n
      BY <3>1, <3>2, <1>3
    <3>3. CASE i \in 1..Len(q)
      BY <3>1, <3>3, <1>3, BytesIn
    <3> QED
      BY <3>2, <3>3
  <2>2. ASSUME NEW b \in Bytes(q) PROVE b \in Bytes(a)
    <3>1. PICK i \in 1..Len(q), k \in Nat :
        k \in 1..q[i].length /\ b = <<i, k>>
      BY BytesIn
    <3>2. i \in 1..Len(a) /\ k \in 1..a[i].length
      BY <1>3, <3>1
    <3> QED
      BY <1>3, <3>1, <3>2, BytesIn
  <2>3. ASSUME NEW b \in T PROVE b \in Bytes(a)
    <3>1. PICK k \in 1..x.length : b = <<n, k>>
      OBVIOUS
    <3>2. n \in 1..Len(a) /\ k \in 1..a[n].length
      BY <1>3, <3>1
    <3> QED
      BY <1>3, <3>1, <3>2, BytesIn
  <2> QED
    BY <2>1, <2>2, <2>3
<1>5. Bytes(q) \cap T = {}
  <2> SUFFICES ASSUME NEW b \in Bytes(q) PROVE b \notin T
    OBVIOUS
  <2>1. PICK i \in 1..Len(q), k \in Nat :
        k \in 1..q[i].length /\ b = <<i, k>>
    BY BytesIn
  <2> QED
    BY <2>1
<1>6. Cardinality(Bytes(q) \cup T) =
        Cardinality(Bytes(q)) + Cardinality(T) - Cardinality({})
  BY <1>2, <1>5, BytesFinite, FS_Union
<1> QED
  BY <1>1, <1>2, <1>4, <1>6, BytesFinite, FS_EmptySet DEF Total, a

\* A payload taken off the head takes its length off
LEMMA TotalTail ==
  ASSUME NEW q \in Seq(Payload), q # <<>>
  PROVE  Total(q) = Total(Tail(q)) + Head(q).length
<1> DEFINE h == Head(q)
           T == {1} \X (1..h.length)
           r == Tail(q)
           R == Bytes(q) \ T
           f == [b \in Bytes(r) |-> <<b[1] + 1, b[2]>>]
<1>1. /\ h \in Payload /\ r \in Seq(Payload) /\ Len(r) = Len(q) - 1
      /\ Len(q) \in Nat \ {0} /\ h = q[1]
      /\ \A i \in 1..Len(r) : r[i] = q[i + 1]
  BY HeadTailProperties, EmptySeq
<1> HIDE DEF h, r
<1>2. h.length \in Nat
  BY <1>1 DEF Payload
<1>3. IsFiniteSet(T) /\ Cardinality(T) = h.length
  BY <1>2, ChunkSize
<1>4. T \subseteq Bytes(q)
  <2> SUFFICES ASSUME NEW k \in 1..h.length PROVE <<1, k>> \in Bytes(q)
    OBVIOUS
  <2> QED
    BY <1>1, BytesIn
<1>5. f \in [Bytes(r) -> R]
  <2> SUFFICES ASSUME NEW b \in Bytes(r) PROVE <<b[1] + 1, b[2]>> \in R
    OBVIOUS
  <2>1. PICK i \in 1..Len(r), k \in Nat :
        k \in 1..r[i].length /\ b = <<i, k>>
    BY <1>1, BytesIn
  <2>2. i + 1 \in 1..Len(q) /\ k \in 1..q[i + 1].length
    BY <1>1, <2>1
  <2>3. <<i + 1, k>> \in Bytes(q)
    BY <2>2, BytesIn
  <2>4. <<i + 1, k>> \notin T
    BY <2>1
  <2> QED
    BY <2>1, <2>3, <2>4
<1>6. \A b, c \in Bytes(r) : f[b] = f[c] => b = c
  <2> SUFFICES ASSUME NEW b \in Bytes(r), NEW c \in Bytes(r), f[b] = f[c]
               PROVE  b = c
    OBVIOUS
  <2>1. PICK i \in 1..Len(r), k \in Nat :
        k \in 1..r[i].length /\ b = <<i, k>>
    BY <1>1, BytesIn
  <2>2. PICK j \in 1..Len(r), l \in Nat :
        l \in 1..r[j].length /\ c = <<j, l>>
    BY <1>1, BytesIn
  <2>3. <<i + 1, k>> = <<j + 1, l>>
    BY <2>1, <2>2
  <2> QED
    BY <2>1, <2>2, <2>3
<1>7. \A c \in R : \E b \in Bytes(r) : f[b] = c
  <2> SUFFICES ASSUME NEW c \in R PROVE \E b \in Bytes(r) : f[b] = c
    OBVIOUS
  <2>1. PICK i \in 1..Len(q), k \in Nat :
        k \in 1..q[i].length /\ c = <<i, k>>
    BY BytesIn
  <2>2. i # 1
    BY <1>1, <2>1
  <2>3. i - 1 \in 1..Len(r) /\ r[i - 1] = q[i]
    BY <1>1, <2>1, <2>2
  <2>4. <<i - 1, k>> \in Bytes(r)
    BY <1>1, <2>1, <2>3, BytesIn
  <2>5. f[<<i - 1, k>>] = c
    BY <2>1, <2>4
  <2> QED
    BY <2>4, <2>5
<1>8. f \in Bijection(Bytes(r), R)
  <2> HIDE DEF f, R
  <2> QED
    BY <1>5, <1>6, <1>7, Fun_IsBij
<1>9. Cardinality(R) = Total(r)
  <2>1. ExistsBijection(Bytes(r), R)
    BY <1>8 DEF ExistsBijection
  <2> HIDE DEF R
  <2> QED
    BY <2>1, <1>1, BytesFinite, FS_Bijection DEF Total
<1>10. Cardinality(R) = Cardinality(Bytes(q)) - Cardinality(T)
  <2>1. Bytes(q) \cap T = T
    BY <1>4
  <2> DEFINE B == Bytes(q)
  <2>2. IsFiniteSet(B)
    BY BytesFinite
  <2> HIDE DEF T, B
  <2>3. Cardinality(B \ T) = Cardinality(B) - Cardinality(B \cap T)
    BY <2>2, FS_Difference, Zenon
  <2> QED
    BY <2>1, <2>3 DEF B
<1> QED
  BY <1>1, <1>2, <1>3, <1>9, <1>10, BytesFinite DEF Total, h, r
-----------------------------------------------------------------------------
(* The inductive invariant                                                 *)

Dispatching(p) == ppc[p] \in {"dispatch", "signal"}

\* Who broadcasts, dispatches or destroys has the manager's mutex; only who
\* dispatches has sinks to give a payload to.
MutexHeld ==
  /\ eleft # NULL => lock = Agent
  /\ ipc = "destroy" => lock = Instance
  /\ \A p \in Processors :
       /\ Dispatching(p) => lock = p
       /\ ~Dispatching(p) => targets[p] = {}

\* A processor that is not idle has a payload, an original; the one being
\* dispatched is the last numbered
Carried ==
  \A p \in Processors :
    /\ ppc[p] # "idle" => pay[p] \in Payload /\ pay[p].copy = NULL
    /\ Dispatching(p) => pay[p].msg = sent

\* PullPayloadQueue is in its loop only while there is a payload to move
Pulling == \A s \in Sinks : spc[s] = "pulling" => public[s] # <<>>

\* What Reap will delete has ended; while Entry stops the processors it has
\* counted those that are left and those deleted in this round
Reaping ==
  /\ ileft \subseteq dead
  /\ ipc = "stopping" =>
       /\ ileft \subseteq processors
       /\ nproc = Cardinality(processors) + reaped

\* No payload queued is newer than the last numbered, and none is as new in a
\* sink that has yet to be given that one
Numbered ==
  \A s \in Sinks : \A i \in 1..Len(Queue(s)) :
    /\ Queue(s)[i].msg <= sent
    /\ \A p \in Processors : s \in targets[p] => Queue(s)[i].msg < sent

\* A copy is in the queue of the sink it was made for; an original is nowhere
\* while there are sinks left to give a copy to, and in one queue after that
Owned ==
  \A s \in Sinks : \A i \in 1..Len(Queue(s)) :
    /\ Queue(s)[i].copy \in {s, NULL}
    /\ Queue(s)[i].copy = NULL =>
         /\ \A p \in Processors :
              targets[p] # {} => Queue(s)[i].msg # sent
         /\ \A t \in Sinks \ {s} : \A j \in 1..Len(Queue(t)) :
              Queue(t)[j].copy = NULL => Queue(t)[j].msg # Queue(s)[i].msg

QueuesInv == Numbered /\ InOrder /\ Owned

ManagerInv ==
  /\ MutexHeld /\ Carried /\ Reaping /\ NoDeletedPlugin /\ ProcessorsFirst

PluginInv == TypeOK /\ ManagerInv /\ Pulling /\ QueueBounded /\ QueuesInv

-----------------------------------------------------------------------------
(* Queues                                                                  *)

LEMMA QueueType ==
  ASSUME TypeOK, NEW s \in Sinks
  PROVE  /\ private[s] \in Seq(Payload) /\ public[s] \in Seq(Payload)
         /\ Queue(s) \in Seq(Payload) /\ Len(Queue(s)) \in Nat
         /\ Len(private[s]) \in Nat /\ Len(public[s]) \in Nat
         /\ size[s] \in Nat
<1>1. private[s] \in Seq(Payload) /\ public[s] \in Seq(Payload)
  BY DEF TypeOK
<1>2. Queue(s) \in Seq(Payload)
  BY <1>1, ConcatProperties DEF Queue
<1> QED
  BY <1>1, <1>2, LenProperties DEF TypeOK

\* The queue of a sink has lost its first k payloads, and nothing else
Behind(s, k) ==
  /\ Len(Queue(s)') = Len(Queue(s)) - k
  /\ \A i \in 1..Len(Queue(s)') : Queue(s)'[i] = Queue(s)[i + k]

\* Payloads that leave a queue at its head disturb nothing
LEMMA QueuesShrink ==
  ASSUME TypeOK, TypeOK', QueuesInv, sent' = sent,
         \A p \in Processors : targets'[p] \subseteq targets[p],
         \A s \in Sinks : \E k \in {0, 1} : Behind(s, k)
  PROVE  QueuesInv'
<1>1. \A s \in Sinks : Len(Queue(s)) \in Nat /\ Len(Queue(s)') \in Nat
  BY QueueType
<1>2. \A s \in Sinks : \A i \in 1..Len(Queue(s)') :
        \E m \in 1..Len(Queue(s)) : Queue(s)'[i] = Queue(s)[m]
  BY <1>1 DEF Behind
<1>3. Numbered'
  BY <1>2 DEF Numbered, QueuesInv
<1>4. InOrder'
  <2> SUFFICES ASSUME NEW s \in Sinks, NEW i \in 1..Len(Queue(s)'),
                      NEW j \in 1..Len(Queue(s)'), i < j
               PROVE  Queue(s)'[i].msg < Queue(s)'[j].msg
    BY DEF InOrder
  <2>1. PICK k \in {0, 1} : Behind(s, k)
    OBVIOUS
  <2>2. /\ i + k \in 1..Len(Queue(s)) /\ j + k \in 1..Len(Queue(s))
        /\ i + k < j + k
    BY <1>1, <2>1 DEF Behind
  <2> QED
    BY <2>1, <2>2 DEF Behind, InOrder, QueuesInv
<1>5. Owned'
  <2> SUFFICES ASSUME NEW s \in Sinks, NEW i \in 1..Len(Queue(s)')
               PROVE  /\ Queue(s)'[i].copy \in {s, NULL}
                      /\ Queue(s)'[i].copy = NULL =>
                           /\ \A p \in Processors :
                                targets'[p] # {} => Queue(s)'[i].msg # sent'
                           /\ \A t \in Sinks \ {s} :
                              \A j \in 1..Len(Queue(t)') :
                                Queue(t)'[j].copy = NULL =>
                                  Queue(t)'[j].msg # Queue(s)'[i].msg
    BY DEF Owned
  <2>1. PICK m \in 1..Len(Queue(s)) : Queue(s)'[i] = Queue(s)[m]
    BY <1>2
  <2>2. /\ Queue(s)[m].copy \in {s, NULL}
        /\ Queue(s)[m].copy = NULL =>
             /\ \A p \in Processors :
                  targets[p] # {} => Queue(s)[m].msg # sent
             /\ \A t \in Sinks \ {s} : \A j \in 1..Len(Queue(t)) :
                  Queue(t)[j].copy = NULL => Queue(t)[j].msg # Queue(s)[m].msg
    BY DEF Owned, QueuesInv
  <2>3. \A p \in Processors : targets'[p] # {} => targets[p] # {}
    OBVIOUS
  <2>4. ASSUME NEW t \in Sinks \ {s}, NEW j \in 1..Len(Queue(t)'),
               Queue(s)'[i].copy = NULL, Queue(t)'[j].copy = NULL
        PROVE  Queue(t)'[j].msg # Queue(s)'[i].msg
    <3>1. PICK l \in 1..Len(Queue(t)) : Queue(t)'[j] = Queue(t)[l]
      BY <1>2
    <3> QED
      BY <2>1, <2>2, <2>4, <3>1
  <2> QED
    BY <2>1, <2>2, <2>3, <2>4
<1> QED
  BY <1>3, <1>4, <1>5 DEF QueuesInv

\* So does a step that leaves queues and dispatch alone
LEMMA QueuesSame ==
  ASSUME TypeOK, TypeOK', QueuesInv,
         UNCHANGED <<public, private, sent, targets>>
  PROVE  QueuesInv'
<1>1. \A s \in Sinks : Behind(s, 0)
  <2> TAKE s \in Sinks
  <2>1. Queue(s)' = Queue(s)
    BY DEF Queue
  <2>2. Len(Queue(s)) \in Nat
    BY QueueType
  <2> QED
    BY <2>1, <2>2 DEF Behind
<1> QED
  BY <1>1, QueuesShrink

\* The head of the first part leaves a queue of two parts
LEMMA ConcatTail ==
  ASSUME NEW a \in Seq(Payload), NEW b \in Seq(Payload), a # <<>>
  PROVE  /\ Len(Tail(a) \o b) = Len(a \o b) - 1
         /\ \A i \in 1..Len(Tail(a) \o b) : (Tail(a) \o b)[i] = (a \o b)[i + 1]
<1> DEFINE t == Tail(a)
<1>1. /\ t \in Seq(Payload) /\ Len(a) \in Nat \ {0} /\ Len(b) \in Nat
      /\ Len(t) = Len(a) - 1 /\ \A i \in 1..Len(t) : t[i] = a[i + 1]
  BY HeadTailProperties, EmptySeq, LenProperties
<1> HIDE DEF t
<1>2. /\ Len(a \o b) = Len(a) + Len(b)
      /\ \A i \in 1..(Len(a) + Len(b)) :
           (a \o b)[i] = IF i <= Len(a) THEN a[i] ELSE b[i - Len(a)]
  BY ConcatProperties
<1>3. /\ Len(t \o b) = Len(t) + Len(b)
      /\ \A i \in 1..(Len(t) + Len(b)) :
           (t \o b)[i] = IF i <= Len(t) THEN t[i] ELSE b[i - Len(t)]
  BY <1>1, ConcatProperties
<1>4. Len(t \o b) = Len(a \o b) - 1
  BY <1>1, <1>2, <1>3
<1>5. ASSUME NEW i \in 1..Len(t \o b)
      PROVE  (t \o b)[i] = (a \o b)[i + 1]
  <2>1. i \in 1..(Len(t) + Len(b)) /\ i + 1 \in 1..(Len(a) + Len(b))
    BY <1>1, <1>3
  <2>2. CASE i <= Len(t)
    <3>1. (t \o b)[i] = t[i] /\ i \in 1..Len(t)
      BY <1>1, <1>3, <2>1, <2>2
    <3>2. (a \o b)[i + 1] = a[i + 1]
      BY <1>1, <1>2, <2>1, <2>2
    <3> QED
      BY <1>1, <3>1, <3>2
  <2>3. CASE ~(i <= Len(t))
    <3>1. (t \o b)[i] = b[i - Len(t)]
      BY <1>1, <1>3, <2>1, <2>3
    <3>2. (a \o b)[i + 1] = b[i + 1 - Len(a)]
      BY <1>1, <1>2, <2>1, <2>3
    <3>3. i - Len(t) = i + 1 - Len(a)
      BY <1>1, <2>1
    <3> QED
      BY <3>1, <3>2, <3>3
  <2> QED
    BY <2>2, <2>3
<1> QED
  BY <1>4, <1>5 DEF t

\* A payload moved from the second part to the first stays where it is
LEMMA ConcatMove ==
  ASSUME NEW a \in Seq(Payload), NEW b \in Seq(Payload), b # <<>>
  PROVE  Append(a, Head(b)) \o Tail(b) = a \o b
<1> DEFINE h == <<Head(b)>>
           t == Tail(b)
<1>1. h \in Seq(Payload) /\ t \in Seq(Payload) /\ Head(b) \in Payload
  BY HeadTailProperties
<1>2. b = h \o t
  OBVIOUS
<1>3. Append(a, Head(b)) = a \o h
  BY <1>1
<1>4. (a \o h) \o t = a \o (h \o t)
  <2> HIDE DEF h, t
  <2> QED
    BY <1>1, ConcatAssociative, SMTT(30)
<1> QED
  BY <1>2, <1>3, <1>4

\* A payload added to the second part comes last
LEMMA ConcatAppend ==
  ASSUME NEW a \in Seq(Payload), NEW b \in Seq(Payload), NEW x \in Payload
  PROVE  a \o Append(b, x) = Append(a \o b, x)
<1> DEFINE l == <<x>>
<1>1. l \in Seq(Payload)
  OBVIOUS
<1>2. Append(b, x) = b \o l
  OBVIOUS
<1>3. a \o b \in Seq(Payload)
  BY ConcatProperties
<1>4. Append(a \o b, x) = (a \o b) \o l
  BY <1>3
<1>5. (a \o b) \o l = a \o (b \o l)
  <2> HIDE DEF l
  <2> QED
    BY <1>1, ConcatAssociative
<1> QED
  BY <1>2, <1>4, <1>5

LEMMA QueueHead ==
  ASSUME TypeOK, NEW s \in Sinks, private[s] # <<>>,
         private'[s] = Tail(private[s]), public'[s] = public[s]
  PROVE  Behind(s, 1)
<1>1. private[s] \in Seq(Payload) /\ public[s] \in Seq(Payload)
  BY QueueType
<1>2. Queue(s)' = Tail(private[s]) \o public[s]
  BY DEF Queue
<1>3. Queue(s) = private[s] \o public[s]
  BY DEF Queue
<1>4. /\ Len(Queue(s)') = Len(Queue(s)) - 1
      /\ \A i \in 1..Len(Queue(s)') : Queue(s)'[i] = Queue(s)[i + 1]
  <2> DEFINE q == private[s] \o public[s]
             r == Tail(private[s]) \o public[s]
  <2>1. Len(r) = Len(q) - 1 /\ \A i \in 1..Len(r) : r[i] = q[i + 1]
    BY <1>1, ConcatTail, Zenon
  <2>2. Queue(s)' = r /\ Queue(s) = q
    BY <1>2, <1>3
  <2> HIDE DEF q, r
  <2> QED
    BY <2>1, <2>2
<1> QED
  BY <1>4 DEF Behind

LEMMA QueueMove ==
  ASSUME TypeOK, NEW s \in Sinks, public[s] # <<>>,
         private'[s] = Append(private[s], Head(public[s])),
         public'[s] = Tail(public[s])
  PROVE  Behind(s, 0)
<1>1. private[s] \in Seq(Payload) /\ public[s] \in Seq(Payload)
  BY QueueType
<1>2. Queue(s)' = Queue(s)
  <2>1. Queue(s)' = Append(private[s], Head(public[s])) \o Tail(public[s])
    BY DEF Queue
  <2>2. @ = private[s] \o public[s]
    BY <1>1, ConcatMove
  <2> QED
    BY <2>1, <2>2 DEF Queue
<1>3. Len(Queue(s)) \in Nat
  BY QueueType
<1> QED
  BY <1>2, <1>3 DEF Behind

LEMMA QueuePush ==
  ASSUME TypeOK, NEW s \in Sinks, NEW x \in Payload,
         private'[s] = private[s], public'[s] = Append(public[s], x)
  PROVE  /\ Len(Queue(s)') = Len(Queue(s)) + 1
         /\ Queue(s)'[Len(Queue(s)) + 1] = x
         /\ \A i \in 1..Len(Queue(s)) : Queue(s)'[i] = Queue(s)[i]
<1>1. private[s] \in Seq(Payload) /\ public[s] \in Seq(Payload)
  BY QueueType
<1>2. Queue(s)' = Append(Queue(s), x)
  BY <1>1, ConcatAppend DEF Queue
<1>3. Queue(s) \in Seq(Payload)
  BY QueueType
<1> QED
  BY <1>2, <1>3

-----------------------------------------------------------------------------
(* The size limit                                                          *)

\* QueueBounded of one sink
Bounded(q, z) ==
  /\ z = Total(q)
  /\ \/ z <= SizeMax
     \/ q # <<>> /\ z - q[Len(q)].length <= SizeMax

LEMMA BoundedTail ==
  ASSUME NEW q \in Seq(Payload), NEW z, q # <<>>, Bounded(q, z)
  PROVE  /\ z - Head(q).length \in Nat
         /\ Bounded(Tail(q), z - Head(q).length)
<1> DEFINE t == Tail(q)
           h == Head(q)
           e == q[Len(q)]
<1>1. /\ h \in Payload /\ t \in Seq(Payload) /\ Len(t) = Len(q) - 1
      /\ \A i \in 1..Len(t) : t[i] = q[i + 1]
      /\ Len(q) \in Nat \ {0} /\ Len(t) \in Nat /\ e \in Payload
  BY HeadTailProperties, EmptySeq, LenProperties, ElementOfSeq
<1>2. z = Total(t) + h.length /\ Total(t) \in Nat
  BY <1>1, TotalTail, BytesFinite DEF Bounded
<1>3. h.length \in Nat /\ e.length \in Nat
  BY <1>1 DEF Payload
<1>4. z - h.length = Total(t)
  BY <1>2, <1>3
<1>5. \/ Total(t) <= SizeMax
      \/ t # <<>> /\ Total(t) - t[Len(t)].length <= SizeMax
  <2>1. CASE t = <<>>
    <3>1. Total(t) = 0
      BY <2>1, TotalEmpty
    <3> QED
      BY <3>1, PluginsAssumption DEF PluginsAssumption
  <2>2. CASE t # <<>>
    <3>1. Len(t) \in 1..Len(t)
      BY <1>1, <2>2, EmptySeq
    <3>2. t[Len(t)] = e
      BY <1>1, <3>1
    <3>3. z <= SizeMax \/ z - e.length <= SizeMax
      BY DEF Bounded
    <3> HIDE DEF t, h, e
    <3> QED
      BY <1>2, <1>3, <2>2, <3>2, <3>3, PluginsAssumption DEF PluginsAssumption
  <2> QED
    BY <2>1, <2>2
<1> QED
  BY <1>2, <1>4, <1>5 DEF Bounded

LEMMA BoundedAppend ==
  ASSUME NEW q \in Seq(Payload), NEW z \in Nat, NEW x \in Payload,
         Bounded(q, z), ~(q # <<>> /\ z > SizeMax)
  PROVE  /\ z + x.length \in Nat
         /\ Bounded(Append(q, x), z + x.length)
<1> DEFINE a == Append(q, x)
<1>1. a # <<>> /\ a[Len(a)] = x
  OBVIOUS
<1>2. Total(a) = z + x.length
  BY TotalAppend DEF Bounded
<1>3. x.length \in Nat
  BY DEF Payload
<1>4. z <= SizeMax
  <2>1. CASE q = <<>>
    BY <2>1, TotalEmpty, PluginsAssumption DEF PluginsAssumption, Bounded
  <2>2. CASE q # <<>>
    BY <2>2, PluginsAssumption DEF PluginsAssumption
  <2> QED
    BY <2>1, <2>2
<1>5. (z + x.length) - x.length <= SizeMax
  BY <1>3, <1>4
<1> HIDE DEF a
<1>6. Bounded(a, z + x.length)
  BY <1>1, <1>2, <1>5 DEF Bounded
<1> QED
  BY <1>3, <1>6 DEF a

-----------------------------------------------------------------------------
(* Steps of a sink                                                         *)

\* The manager does not depend on the queues
LEMMA ManagerFrame ==
  ASSUME TypeOK, ManagerInv,
         UNCHANGED <<managerVars, told, dead, procVars, eleft, instVars>>
  PROVE  ManagerInv'
BY DEF ManagerInv, MutexHeld, Dispatching, Carried, Reaping, NoDeletedPlugin,
       ProcessorsFirst, managerVars, procVars, instVars

\* A step of a sink that only goes on to another place
LEMMA SinkGoes ==
  ASSUME PluginInv, NEW s \in Sinks, NEW from, NEW to,
         to \in {"pull", "unlocked", "waiting", "again", "pulling", "work"},
         SinkGoto(s, from, to), to = "pulling" => public[s] # <<>>,
         UNCHANGED <<managerVars, told, dead, procVars, public, private, size,
                     eleft, instVars>>
  PROVE  PluginInv'
<1> USE DEF PluginInv
<1>1. TypeOK'
  BY DEF TypeOK, SinkGoto, managerVars, procVars, instVars
<1>2. ManagerInv'
  BY ManagerFrame
<1>3. Pulling'
  BY DEF Pulling, SinkGoto, TypeOK
<1>4. QueueBounded'
  BY DEF QueueBounded
<1>5. QueuesInv'
  BY <1>1, QueuesSame DEF procVars
<1> QED
  BY <1>1, <1>2, <1>3, <1>4, <1>5

\* The head of the private queue goes: dropped by PullPayloadQueue or popped
LEMMA SinkTakes ==
  ASSUME PluginInv, NEW s \in Sinks, NEW at \in {"pulling", "work"},
         private[s] # <<>>,
         SinkGoto(s, at, at),
         private' = [private EXCEPT ![s] = Tail(@)],
         size' = [size EXCEPT ![s] = @ - Head(private[s]).length],
         UNCHANGED <<managerVars, told, dead, procVars, public, eleft,
                     instVars>>
  PROVE  PluginInv'
<1> USE DEF PluginInv
<1>1. /\ private[s] \in Seq(Payload) /\ Tail(private[s]) \in Seq(Payload)
      /\ private'[s] = Tail(private[s])
      /\ size'[s] = size[s] - Head(private[s]).length
      /\ \A t \in Sinks \ {s} : private'[t] = private[t] /\ size'[t] = size[t]
  BY QueueType, HeadTailProperties DEF TypeOK
<1>2. \A t \in Sinks : Bounded(private[t], size[t])
  BY DEF QueueBounded, Bounded
<1>3. size'[s] \in Nat /\ Bounded(private'[s], size'[s])
  BY <1>1, <1>2, BoundedTail
<1>4. TypeOK'
  BY <1>1, <1>3
     DEF TypeOK, SinkGoto, managerVars, procVars, instVars
<1>5. ManagerInv'
  BY ManagerFrame
<1>6. Pulling'
  BY DEF Pulling, SinkGoto, TypeOK
<1>7. QueueBounded'
  BY <1>1, <1>2, <1>3 DEF QueueBounded, Bounded
<1>8. QueuesInv'
  <2>1. Behind(s, 1)
    BY <1>1, QueueHead
  <2>2. \A t \in Sinks \ {s} : Behind(t, 0)
    <3> TAKE t \in Sinks \ {s}
    <3>1. Queue(t)' = Queue(t) /\ Len(Queue(t)) \in Nat
      BY <1>1, QueueType DEF Queue
    <3> QED
      BY <3>1 DEF Behind
  <2>3. \A t \in Sinks : \E k \in {0, 1} : Behind(t, k)
    BY <2>1, <2>2
  <2> QED
    BY <1>4, <2>3, QueuesShrink DEF procVars
<1> QED
  BY <1>4, <1>5, <1>6, <1>7, <1>8

\* A payload is moved to the private queue, which is not full
LEMMA PullMoveInv ==
  ASSUME PluginInv, NEW s \in Sinks, PullMove(s)
  PROVE  PluginInv'
<1> USE DEF PluginInv
<1> DEFINE h == Head(public[s])
<1>1. /\ s \in sinks \ dead /\ spc[s] = "pulling" /\ ~Full(s)
      /\ spc' = [spc EXCEPT ![s] = IF Len(public[s]) = 1 THEN "work"
                                   ELSE "pulling"]
      /\ public' = [public EXCEPT ![s] = Tail(@)]
      /\ private' = [private EXCEPT ![s] = Append(@, h)]
      /\ size' = [size EXCEPT ![s] = @ + h.length]
      /\ UNCHANGED <<managerVars, told, dead, procVars, eleft, instVars>>
  BY DEF PullMove, SinkGoto
<1>2. public[s] # <<>>
  BY <1>1 DEF Pulling
<1>3. /\ private[s] \in Seq(Payload) /\ public[s] \in Seq(Payload)
      /\ h \in Payload /\ Tail(public[s]) \in Seq(Payload)
      /\ Append(private[s], h) \in Seq(Payload)
      /\ Len(public[s]) \in Nat \ {0}
      /\ Len(Tail(public[s])) = Len(public[s]) - 1
      /\ size[s] \in Nat
  BY <1>2, QueueType, HeadTailProperties, EmptySeq
<1>4. /\ private'[s] = Append(private[s], h) /\ public'[s] = Tail(public[s])
      /\ size'[s] = size[s] + h.length
      /\ \A t \in Sinks \ {s} :
           /\ private'[t] = private[t] /\ public'[t] = public[t]
           /\ size'[t] = size[t] /\ spc'[t] = spc[t]
      /\ spc'[s] = IF Len(public[s]) = 1 THEN "work" ELSE "pulling"
  BY <1>1 DEF TypeOK
<1>5. \A t \in Sinks : Bounded(private[t], size[t])
  BY DEF QueueBounded, Bounded
<1>6. size'[s] \in Nat /\ Bounded(private'[s], size'[s])
  BY <1>1, <1>3, <1>4, <1>5, BoundedAppend DEF Full
<1>7. TypeOK'
  <2>1. /\ private' \in [Sinks -> Seq(Payload)]
        /\ public' \in [Sinks -> Seq(Payload)]
    BY <1>1, <1>3 DEF TypeOK
  <2>2. size' \in [Sinks -> Nat]
    BY <1>1, <1>4, <1>6 DEF TypeOK
  <2> QED
    BY <1>1, <2>1, <2>2 DEF TypeOK, managerVars, procVars, instVars
<1>8. ManagerInv'
  BY <1>1, ManagerFrame
<1>9. Pulling'
  <2>1. spc'[s] = "pulling" => public'[s] # <<>>
    <3> SUFFICES ASSUME spc'[s] = "pulling", public'[s] = <<>>
                 PROVE  FALSE
      OBVIOUS
    <3>1. Len(public[s]) # 1
      BY <1>4
    <3>2. Len(Tail(public[s])) = 0
      BY <1>4, EmptySeq
    <3> QED
      BY <1>3, <3>1, <3>2
  <2> QED
    BY <1>4, <2>1 DEF Pulling
<1>10. QueueBounded'
  BY <1>4, <1>5, <1>6 DEF QueueBounded, Bounded
<1>11. QueuesInv'
  <2>1. Behind(s, 0)
    BY <1>2, <1>4, QueueMove
  <2>2. \A t \in Sinks \ {s} : Behind(t, 0)
    <3> TAKE t \in Sinks \ {s}
    <3>1. Queue(t)' = Queue(t) /\ Len(Queue(t)) \in Nat
      BY <1>4, QueueType DEF Queue
    <3> QED
      BY <3>1 DEF Behind
  <2>3. \A t \in Sinks : \E k \in {0, 1} : Behind(t, k)
    BY <2>1, <2>2
  <2>4. UNCHANGED <<sent, targets>>
    BY <1>1 DEF procVars
  <2> QED
    BY <1>7, <2>3, <2>4, QueuesShrink
<1> QED
  BY <1>7, <1>8, <1>9, <1>10, <1>11

LEMMA SinkInv ==
  ASSUME PluginInv, NEW s \in Sinks, SinkStep(s)
  PROVE  PluginInv'
<1>1. CASE SinkPull(s)
  BY <1>1, SinkGoes DEF SinkPull
<1>2. CASE SinkWait(s)
  BY <1>2, SinkGoes DEF SinkWait
<1>3. CASE SinkTimeout(s)
  BY <1>3, SinkGoes DEF SinkTimeout
<1>4. CASE SinkPullAgain(s)
  BY <1>4, SinkGoes DEF SinkPullAgain
<1>5. CASE PullDrop(s)
  BY <1>5, SinkTakes DEF PullDrop, Full
<1>6. CASE PullMove(s)
  BY <1>6, PullMoveInv
<1>7. CASE SinkPop(s)
  BY <1>7, SinkTakes DEF SinkPop, PopPayloadQueue
<1>8. CASE SinkLoop(s)
  BY <1>8, SinkGoes DEF SinkLoop
<1> QED
  BY <1>1, <1>2, <1>3, <1>4, <1>5, <1>6, <1>7, <1>8 DEF SinkStep

-----------------------------------------------------------------------------
(* Steps of a processor                                                    *)

\* The queues do not depend on the manager, but for what is dispatched
LEMMA QueuesFrame ==
  ASSUME PluginInv, TypeOK', UNCHANGED <<public, private, size, sent, targets>>,
         \A s \in Sinks : spc'[s] = "pulling" => spc[s] = "pulling"
  PROVE  Pulling' /\ QueueBounded' /\ QueuesInv'
<1>1. Pulling' /\ QueueBounded'
  BY DEF PluginInv, Pulling, QueueBounded
<1> QED
  BY <1>1, QueuesSame DEF PluginInv

LEMMA CreatePayloadInv ==
  ASSUME PluginInv, NEW p \in Processors, CreatePayload(p)
  PROVE  PluginInv'
<1> USE DEF PluginInv
<1>1. PICK t \in Sinks \cup {All}, l \in Lengths[sent + 1] :
        /\ goal' = [goal EXCEPT ![p] = t]
        /\ pay' = [pay EXCEPT ![p] = [msg |-> 0, copy |-> NULL,
                                      length |-> l]]
  BY DEF CreatePayload
<1>2. [msg |-> 0, copy |-> NULL, length |-> l] \in Payload
  <2>1. sent + 1 \in 1..MaxPayloads
    BY PluginsAssumption DEF PluginsAssumption, TypeOK, CreatePayload
  <2>2. l \in Nat
    BY <2>1, PluginsAssumption DEF PluginsAssumption
  <2> QED
    BY <2>2 DEF Payload
<1>3. /\ p \in processors \ (dead \cup told) /\ ppc[p] = "idle"
      /\ ppc' = [ppc EXCEPT ![p] = "lock"]
      /\ UNCHANGED <<managerVars, told, dead, targets, signalled, sent,
                     sinkVars, eleft, instVars>>
  BY DEF CreatePayload
<1>4. TypeOK'
  BY <1>1, <1>2, <1>3 DEF TypeOK, managerVars, sinkVars, instVars
<1>5. /\ MutexHeld' /\ Reaping' /\ ProcessorsFirst'
  BY <1>1, <1>3 DEF TypeOK, ManagerInv, MutexHeld, Dispatching, Reaping,
                    ProcessorsFirst, managerVars, instVars
<1>6. Carried'
  BY <1>1, <1>2, <1>3 DEF TypeOK, ManagerInv, Carried, Dispatching
<1>7. NoDeletedPlugin'
  BY <1>3 DEF TypeOK, ManagerInv, NoDeletedPlugin, managerVars
<1>8. Pulling' /\ QueueBounded' /\ QueuesInv'
  BY <1>3, <1>4, QueuesFrame DEF sinkVars
<1> QED
  BY <1>4, <1>5, <1>6, <1>7, <1>8 DEF ManagerInv

\* With the next number no payload queued is as new as the one dispatched
LEMMA LockManagerInv ==
  ASSUME PluginInv, NEW p \in Processors, LockManager(p)
  PROVE  PluginInv'
<1> USE DEF PluginInv
<1>1. /\ ppc[p] = "lock" /\ lock = NULL /\ lock' = p
      /\ targets' = [targets EXCEPT ![p] = Found(p)]
      /\ sent' = sent + 1
      /\ pay' = [pay EXCEPT ![p] = [@ EXCEPT !.msg = sent + 1]]
      /\ ppc' = [ppc EXCEPT ![p] = "dispatch"]
      /\ UNCHANGED <<processors, sinks, told, dead, goal, signalled, sinkVars,
                     eleft, instVars>>
  BY DEF LockManager, Acquire
<1>2. Found(p) \subseteq sinks /\ sinks \subseteq Sinks
  BY DEF Found, TypeOK
<1>3. /\ pay[p] \in Payload /\ pay[p].copy = NULL /\ sent \in Nat
      /\ p \in processors \ dead
  BY <1>1 DEF ManagerInv, Carried, NoDeletedPlugin, TypeOK
<1>4. [pay[p] EXCEPT !.msg = sent + 1] \in Payload
  BY <1>3 DEF Payload
<1>5. [pay[p] EXCEPT !.msg = sent + 1].msg = sent + 1
  BY <1>3 DEF Payload
<1>6. [pay[p] EXCEPT !.msg = sent + 1].copy = NULL
  BY <1>3 DEF Payload
<1>7. TypeOK'
  BY <1>1, <1>2, <1>3, <1>4 DEF TypeOK, sinkVars, instVars
<1>8. \A r \in Processors : ~Dispatching(r) /\ targets[r] = {}
  <2> TAKE r \in Processors
  <2>1. lock # r
    BY <1>1, PluginsAssumption DEF PluginsAssumption, Plugins
  <2> QED
    BY <2>1 DEF ManagerInv, MutexHeld
<1>9. MutexHeld'
  <2>1. eleft' = NULL /\ ipc' # "destroy"
    BY <1>1, PluginsAssumption
       DEF PluginsAssumption, ManagerInv, MutexHeld, instVars
  <2> QED
    BY <1>1, <1>8, <2>1 DEF TypeOK, MutexHeld, Dispatching
<1>10. Carried'
  BY <1>1, <1>4, <1>5, <1>6, <1>8
     DEF TypeOK, ManagerInv, Carried, Dispatching
<1>11. Reaping' /\ ProcessorsFirst'
  BY <1>1 DEF ManagerInv, Reaping, ProcessorsFirst, instVars
<1>12. NoDeletedPlugin'
  BY <1>1, <1>2, <1>3 DEF TypeOK, ManagerInv, NoDeletedPlugin
<1>13. Pulling' /\ QueueBounded'
  BY <1>1 DEF Pulling, QueueBounded, sinkVars
<1>14. \A s \in Sinks : Queue(s)' = Queue(s)
  BY <1>1 DEF Queue, sinkVars
<1>15. \A s \in Sinks : \A i \in 1..Len(Queue(s)) :
         Queue(s)[i].msg \in Nat /\ Queue(s)[i].msg < sent'
  <2> SUFFICES ASSUME NEW s \in Sinks, NEW i \in 1..Len(Queue(s))
               PROVE  Queue(s)[i].msg \in Nat /\ Queue(s)[i].msg < sent'
    OBVIOUS
  <2>1. Queue(s)[i] \in Payload
    BY QueueType, ElementOfSeq
  <2>2. Queue(s)[i].msg \in Nat
    BY <2>1 DEF Payload
  <2>3. Queue(s)[i].msg <= sent
    BY DEF QueuesInv, Numbered
  <2> QED
    BY <1>1, <1>3, <2>2, <2>3
<1>16. Numbered'
  BY <1>1, <1>3, <1>14, <1>15 DEF Numbered
<1>17. InOrder'
  BY <1>14 DEF InOrder, QueuesInv
<1>18. Owned'
  BY <1>1, <1>3, <1>14, <1>15 DEF Owned, QueuesInv
<1> QED
  BY <1>7, <1>9, <1>10, <1>11, <1>12, <1>13, <1>16, <1>17, <1>18
     DEF ManagerInv, QueuesInv

LEMMA DispatchFailsInv ==
  ASSUME PluginInv, NEW p \in Processors, DispatchFails(p)
  PROVE  PluginInv'
<1> USE DEF PluginInv
<1>1. TypeOK'
  BY DEF TypeOK, DispatchFails, managerVars, sinkVars, instVars, Plugins
<1>2. MutexHeld' /\ Carried' /\ Reaping' /\ ProcessorsFirst'
  BY DEF TypeOK, ManagerInv, MutexHeld, Dispatching, Carried, Reaping,
         ProcessorsFirst, DispatchFails, managerVars, instVars
<1>3. NoDeletedPlugin'
  BY DEF TypeOK, ManagerInv, NoDeletedPlugin, DispatchFails, managerVars
<1>4. Pulling' /\ QueueBounded' /\ QueuesInv'
  BY <1>1, QueuesFrame DEF DispatchFails, sinkVars
<1> QED
  BY <1>1, <1>2, <1>3, <1>4 DEF ManagerInv

LEMMA SignalSinkInv ==
  ASSUME PluginInv, NEW p \in Processors, SignalSink(p)
  PROVE  PluginInv'
<1> USE DEF PluginInv
<1>1. /\ ppc[p] = "signal" /\ lock = p
      /\ spc' = [spc EXCEPT ![signalled[p]] =
                   IF @ = "waiting" THEN "again" ELSE @]
      /\ signalled' = [signalled EXCEPT ![p] = NULL]
      /\ ppc' = [ppc EXCEPT ![p] = IF targets[p] = {} THEN "idle"
                                   ELSE "dispatch"]
      /\ \/ /\ targets[p] = {} /\ lock' = NULL
            /\ goal' = [goal EXCEPT ![p] = NULL]
            /\ pay' = [pay EXCEPT ![p] = NULL]
         \/ targets[p] # {} /\ UNCHANGED <<lock, goal, pay>>
      /\ UNCHANGED <<processors, sinks, told, dead, targets, sent, public,
                     private, size, eleft, instVars>>
  BY DEF SignalSink, Release, ManagerInv, MutexHeld, Dispatching
<1>2. TypeOK'
  BY <1>1 DEF TypeOK, instVars
<1>3. eleft = NULL /\ ipc # "destroy"
  BY <1>1, PluginsAssumption
     DEF PluginsAssumption, ManagerInv, MutexHeld, Plugins
<1>4. \A r \in Processors \ {p} : ~Dispatching(r) /\ targets[r] = {}
  BY <1>1 DEF ManagerInv, MutexHeld
<1>5. MutexHeld'
  BY <1>1, <1>3, <1>4 DEF TypeOK, MutexHeld, Dispatching, instVars
<1>6. Carried'
  BY <1>1, <1>4 DEF TypeOK, ManagerInv, Carried, Dispatching
<1>7. Reaping' /\ ProcessorsFirst'
  BY <1>1 DEF ManagerInv, Reaping, ProcessorsFirst, instVars
<1>8. NoDeletedPlugin'
  BY <1>1, <1>4 DEF TypeOK, ManagerInv, NoDeletedPlugin, Dispatching
<1>9. \A s \in Sinks : spc'[s] = "pulling" => spc[s] = "pulling"
  BY <1>1 DEF TypeOK
<1>10. Pulling' /\ QueueBounded' /\ QueuesInv'
  BY <1>1, <1>2, <1>9, QueuesFrame
<1> QED
  BY <1>2, <1>5, <1>6, <1>7, <1>8, <1>10 DEF ManagerInv

\* What is pushed is newer than all the sink has, and is the original only
\* when no other sink is left
LEMMA QueuePayloadInv ==
  ASSUME PluginInv, NEW p \in Processors, NEW s \in Sinks, QueuePayload(p, s)
  PROVE  PluginInv'
<1> USE DEF PluginInv
<1> DEFINE x == CopyFor(p, s)
           n == Len(Queue(s))
<1>1. /\ ppc[p] = "dispatch" /\ s \in targets[p] /\ spc[s] # "pulling"
      /\ public' = [public EXCEPT ![s] = Append(@, x)]
      /\ targets' = [targets EXCEPT ![p] = @ \ {s}]
      /\ signalled' = [signalled EXCEPT ![p] = s]
      /\ ppc' = [ppc EXCEPT ![p] = "signal"]
      /\ UNCHANGED <<managerVars, told, dead, goal, pay, sent, private, size,
                     spc, eleft, instVars>>
  BY DEF QueuePayload
<1>2. /\ pay[p] \in Payload /\ pay[p].copy = NULL /\ pay[p].msg = sent
      /\ lock = p /\ s \in sinks /\ sent \in Nat
  BY <1>1 DEF TypeOK, ManagerInv, Carried, Dispatching, MutexHeld,
              NoDeletedPlugin
<1>3. /\ x \in Payload /\ x.msg = sent
      /\ x.copy = IF targets[p] = {s} THEN NULL ELSE s
  BY <1>2 DEF CopyFor, Payload
<1> HIDE DEF x
<1>4. \A r \in Processors \ {p} : ~Dispatching(r) /\ targets[r] = {}
  BY <1>2 DEF ManagerInv, MutexHeld
<1>5. TypeOK'
  BY <1>1, <1>3 DEF TypeOK, managerVars, instVars
<1>6. MutexHeld' /\ Carried'
  BY <1>1, <1>2, <1>4 DEF TypeOK, ManagerInv, MutexHeld, Carried, Dispatching,
                          managerVars, instVars
<1>7. Reaping' /\ ProcessorsFirst'
  BY <1>1 DEF ManagerInv, Reaping, ProcessorsFirst, managerVars, instVars
<1>8. NoDeletedPlugin'
  BY <1>1, <1>2 DEF TypeOK, ManagerInv, NoDeletedPlugin, managerVars
<1>9. Pulling' /\ QueueBounded'
  BY <1>1 DEF TypeOK, Pulling, QueueBounded
<1>10. \A t \in Sinks \ {s} : Queue(t)' = Queue(t)
  BY <1>1 DEF Queue, TypeOK
<1>11. /\ Len(Queue(s)') = n + 1 /\ Queue(s)'[n + 1] = x /\ n \in Nat
       /\ \A i \in 1..n : Queue(s)'[i] = Queue(s)[i]
  <2>1. private'[s] = private[s] /\ public'[s] = Append(public[s], x)
    BY <1>1 DEF TypeOK
  <2> QED
    BY <1>3, <2>1, QueuePush, QueueType
<1> HIDE DEF n
<1>12. \A t \in Sinks : \A i \in 1..Len(Queue(t)) :
         Queue(t)[i].msg \in Nat
  <2> TAKE t \in Sinks
  <2> TAKE i \in 1..Len(Queue(t))
  <2>1. Queue(t)[i] \in Payload
    BY QueueType, ElementOfSeq
  <2> QED
    BY <2>1 DEF Payload
<1>13. \A i \in 1..n : Queue(s)[i].msg < sent
  BY <1>1 DEF QueuesInv, Numbered, n
<1>14. Numbered'
  <2> SUFFICES ASSUME NEW t \in Sinks, NEW i \in 1..Len(Queue(t)')
               PROVE  /\ Queue(t)'[i].msg <= sent
                      /\ \A r \in Processors :
                           t \in targets'[r] => Queue(t)'[i].msg < sent
    BY <1>1 DEF Numbered
  <2>1. CASE t = s
    <3>1. \A r \in Processors : s \notin targets'[r]
      BY <1>1, <1>4 DEF TypeOK
    <3>2. CASE i = n + 1
      BY <1>2, <1>3, <1>11, <2>1, <3>1, <3>2
    <3>3. CASE i \in 1..n
      <4>1. Queue(s)[i].msg < sent /\ Queue(s)[i].msg \in Nat
        BY <1>12, <1>13, <3>3 DEF n
      <4> QED
        BY <1>2, <1>11, <2>1, <3>1, <3>3, <4>1
    <3> QED
      BY <1>11, <2>1, <3>2, <3>3
  <2>2. CASE t # s
    <3>1. \A r \in Processors : t \in targets'[r] => t \in targets[r]
      BY <1>1 DEF TypeOK
    <3> QED
      BY <1>10, <2>2, <3>1 DEF QueuesInv, Numbered
  <2> QED
    BY <2>1, <2>2
<1>15. InOrder'
  <2> SUFFICES ASSUME NEW t \in Sinks, NEW i \in 1..Len(Queue(t)'),
                      NEW j \in 1..Len(Queue(t)'), i < j
               PROVE  Queue(t)'[i].msg < Queue(t)'[j].msg
    BY DEF InOrder
  <2>1. CASE t = s /\ j = n + 1
    BY <1>3, <1>11, <1>13, <2>1
  <2>2. CASE t = s /\ j # n + 1
    <3>1. i \in 1..n /\ j \in 1..n
      BY <1>11, <2>2
    <3>2. Queue(s)[i].msg < Queue(s)[j].msg
      BY <3>1 DEF QueuesInv, InOrder, n
    <3> QED
      BY <1>11, <2>2, <3>1, <3>2
  <2>3. CASE t # s
    BY <1>10, <2>3 DEF QueuesInv, InOrder
  <2> QED
    BY <2>1, <2>2, <2>3
<1>16. Owned'
  <2> DEFINE Original(t, i) == Queue(t)[i].copy = NULL
  <2>1. \A t \in Sinks : \A i \in 1..Len(Queue(t)) :
          /\ Queue(t)[i].copy \in {t, NULL}
          /\ Original(t, i) => Queue(t)[i].msg # sent
    BY <1>1 DEF QueuesInv, Owned
  <2>2. \A t \in Sinks : \A i \in 1..Len(Queue(t)) :
        \A u \in Sinks \ {t} : \A j \in 1..Len(Queue(u)) :
          Original(t, i) /\ Original(u, j) =>
            Queue(u)[j].msg # Queue(t)[i].msg
    BY DEF QueuesInv, Owned
  <2>3. \A t \in Sinks : \A i \in 1..Len(Queue(t)') :
          \/ i \in 1..Len(Queue(t)) /\ Queue(t)'[i] = Queue(t)[i]
          \/ t = s /\ Queue(t)'[i] = x
    <3> SUFFICES ASSUME NEW t \in Sinks, NEW i \in 1..Len(Queue(t)')
                 PROVE  \/ /\ i \in 1..Len(Queue(t))
                           /\ Queue(t)'[i] = Queue(t)[i]
                        \/ t = s /\ Queue(t)'[i] = x
      OBVIOUS
    <3>1. CASE t = s
      <4>1. i = n + 1 \/ i \in 1..n
        BY <1>11, <3>1
      <4> QED
        BY <1>11, <3>1, <4>1 DEF n
    <3>2. CASE t # s
      BY <1>10, <3>2
    <3> QED
      BY <3>1, <3>2
  <2>4. ASSUME NEW r \in Processors, targets'[r] # {}
        PROVE  r = p /\ targets[p] # {s} /\ x.copy = s
    BY <1>1, <1>3, <1>4, <2>4 DEF TypeOK
  <2>5. s # NULL
    BY PluginsAssumption DEF PluginsAssumption, Plugins
  <2> SUFFICES ASSUME NEW t \in Sinks, NEW i \in 1..Len(Queue(t)')
               PROVE  /\ Queue(t)'[i].copy \in {t, NULL}
                      /\ Queue(t)'[i].copy = NULL =>
                           /\ \A r \in Processors :
                                targets'[r] # {} => Queue(t)'[i].msg # sent
                           /\ \A u \in Sinks \ {t} :
                              \A j \in 1..Len(Queue(u)') :
                                Queue(u)'[j].copy = NULL =>
                                  Queue(u)'[j].msg # Queue(t)'[i].msg
    BY <1>1 DEF Owned
  <2>6. Queue(t)'[i].copy \in {t, NULL}
    BY <1>3, <2>1, <2>3
  <2>7. ASSUME Queue(t)'[i].copy = NULL, NEW r \in Processors,
               targets'[r] # {}
        PROVE  Queue(t)'[i].msg # sent
    BY <2>1, <2>3, <2>4, <2>5, <2>7
  <2>8. ASSUME NEW u \in Sinks \ {t}, NEW j \in 1..Len(Queue(u)'),
               Queue(t)'[i].copy = NULL, Queue(u)'[j].copy = NULL
        PROVE  Queue(u)'[j].msg # Queue(t)'[i].msg
    <3>1. CASE /\ i \in 1..Len(Queue(t)) /\ Queue(t)'[i] = Queue(t)[i]
               /\ j \in 1..Len(Queue(u)) /\ Queue(u)'[j] = Queue(u)[j]
      BY <2>2, <2>8, <3>1
    <3>2. CASE t = s /\ Queue(t)'[i] = x
      <4>1. j \in 1..Len(Queue(u)) /\ Queue(u)'[j] = Queue(u)[j]
        BY <2>3, <3>2
      <4> QED
        BY <1>3, <2>1, <2>8, <3>2, <4>1
    <3>3. CASE u = s /\ Queue(u)'[j] = x
      <4>1. i \in 1..Len(Queue(t)) /\ Queue(t)'[i] = Queue(t)[i]
        BY <2>3, <3>3
      <4> QED
        BY <1>3, <2>1, <2>8, <3>3, <4>1
    <3> QED
      BY <2>3, <3>1, <3>2, <3>3
  <2> QED
    BY <2>6, <2>7, <2>8
<1> QED
  BY <1>5, <1>6, <1>7, <1>8, <1>9, <1>14, <1>15, <1>16
     DEF ManagerInv, QueuesInv

LEMMA ProcInv ==
  ASSUME PluginInv, NEW p \in Processors, ProcStep(p)
  PROVE  PluginInv'
BY LockManagerInv, DispatchFailsInv, QueuePayloadInv, SignalSinkInv
   DEF ProcStep

LEMMA PluginEndsInv ==
  ASSUME PluginInv, NEW x \in Plugins, PluginEnds(x)
  PROVE  PluginInv'
<1> USE DEF PluginInv
<1>1. /\ x \in Processors => ppc[x] = "idle"
      /\ dead' = dead \cup {x}
      /\ UNCHANGED <<managerVars, told, procVars, sinkVars, eleft, instVars>>
  BY DEF PluginEnds
<1>2. TypeOK'
  BY <1>1 DEF TypeOK, managerVars, procVars, sinkVars, instVars
<1>3. ManagerInv'
  BY <1>1 DEF ManagerInv, MutexHeld, Dispatching, Carried, Reaping,
              NoDeletedPlugin, ProcessorsFirst, managerVars, procVars,
              instVars
<1>4. Pulling' /\ QueueBounded' /\ QueuesInv'
  BY <1>1, <1>2, QueuesFrame DEF sinkVars, procVars
<1> QED
  BY <1>2, <1>3, <1>4

-----------------------------------------------------------------------------
(* Steps of an agent thread                                                *)

LEMMA EventBeginInv ==
  ASSUME PluginInv, EventBegin
  PROVE  PluginInv'
<1> USE DEF PluginInv
<1>1. /\ eleft' = processors /\ lock = NULL /\ lock' = Agent
      /\ ipc # "destroy"
      /\ UNCHANGED <<processors, sinks, told, dead, procVars, sinkVars,
                     instVars>>
  BY DEF EventBegin, Acquire
<1>2. TypeOK'
  BY <1>1 DEF TypeOK, procVars, sinkVars, instVars
<1>3. \A p \in Processors : ~Dispatching(p)
  BY <1>1, PluginsAssumption
     DEF PluginsAssumption, Plugins, ManagerInv, MutexHeld
<1>4. MutexHeld'
  BY <1>1, <1>3 DEF ManagerInv, MutexHeld, Dispatching, procVars, instVars
<1>5. Carried' /\ Reaping' /\ NoDeletedPlugin' /\ ProcessorsFirst'
  BY <1>1 DEF ManagerInv, Carried, Dispatching, Reaping, NoDeletedPlugin,
              ProcessorsFirst, procVars, instVars
<1>6. Pulling' /\ QueueBounded' /\ QueuesInv'
  BY <1>1, <1>2, QueuesFrame DEF sinkVars, procVars
<1> QED
  BY <1>2, <1>4, <1>5, <1>6 DEF ManagerInv

LEMMA EventCallInv ==
  ASSUME PluginInv, NEW p \in Processors, EventCall(p)
  PROVE  PluginInv'
<1> USE DEF PluginInv
<1>1. /\ eleft # NULL /\ lock = Agent
      /\ \/ eleft' = NULL /\ lock' = NULL
         \/ eleft' = eleft \ {p} /\ lock' = Agent
      /\ UNCHANGED <<processors, sinks, told, dead, procVars, sinkVars,
                     instVars>>
  BY DEF EventCall, Release, ManagerInv, MutexHeld
<1>2. TypeOK'
  BY <1>1 DEF TypeOK, procVars, sinkVars, instVars
<1>3. ipc # "destroy" /\ \A r \in Processors : ~Dispatching(r)
  BY <1>1, PluginsAssumption
     DEF PluginsAssumption, Plugins, ManagerInv, MutexHeld, Agent, Instance
<1>4. MutexHeld'
  BY <1>1, <1>3 DEF ManagerInv, MutexHeld, Dispatching, procVars, instVars
<1>5. Carried' /\ Reaping' /\ NoDeletedPlugin' /\ ProcessorsFirst'
  BY <1>1 DEF ManagerInv, Carried, Dispatching, Reaping, NoDeletedPlugin,
              ProcessorsFirst, procVars, instVars
<1>6. Pulling' /\ QueueBounded' /\ QueuesInv'
  BY <1>1, <1>2, QueuesFrame DEF sinkVars, procVars
<1> QED
  BY <1>2, <1>4, <1>5, <1>6 DEF ManagerInv

-----------------------------------------------------------------------------
(* Steps of the instance thread                                            *)

\* A step that leaves the maps, the mutex, the processors and the sinks alone
LEMMA InstanceFrame ==
  ASSUME PluginInv, TypeOK', Reaping', ProcessorsFirst',
         UNCHANGED <<managerVars, dead, procVars, sinkVars, eleft>>,
         ipc' # "destroy"
  PROVE  PluginInv'
<1>1. MutexHeld' /\ Carried' /\ NoDeletedPlugin'
  BY DEF PluginInv, ManagerInv, MutexHeld, Dispatching, Carried,
         NoDeletedPlugin, managerVars, procVars
<1>2. Pulling' /\ QueueBounded' /\ QueuesInv'
  BY QueuesFrame DEF sinkVars, procVars
<1> QED
  BY <1>1, <1>2 DEF PluginInv, ManagerInv

LEMMA LoopInv ==
  ASSUME PluginInv, ReapBegin \/ ReapEnd \/ LeaveLoop \/ ReloadFails
  PROVE  PluginInv'
<1> USE DEF PluginInv, ManagerInv
<1>1. CASE ReapBegin
  <2>1. TypeOK' /\ Reaping' /\ ProcessorsFirst'
    BY <1>1 DEF ReapBegin, Terminated, TypeOK, Reaping, ProcessorsFirst,
                managerVars, procVars, sinkVars, Plugins
  <2> QED
    BY <1>1, <2>1, InstanceFrame DEF ReapBegin
<1>2. CASE ReapEnd
  <2>1. TypeOK' /\ Reaping' /\ ProcessorsFirst'
    BY <1>2 DEF ReapEnd, TypeOK, Reaping, ProcessorsFirst,
                managerVars, procVars, sinkVars
  <2> QED
    BY <1>2, <2>1, InstanceFrame DEF ReapEnd
<1>3. CASE LeaveLoop
  <2>1. TypeOK' /\ Reaping' /\ ProcessorsFirst'
    BY <1>3 DEF LeaveLoop, TypeOK, Reaping, ProcessorsFirst,
                managerVars, procVars, sinkVars
  <2> QED
    BY <1>3, <2>1, InstanceFrame DEF LeaveLoop
<1>4. CASE ReloadFails
  <2>1. TypeOK' /\ Reaping' /\ ProcessorsFirst'
    BY <1>4 DEF ReloadFails, TypeOK, Reaping, ProcessorsFirst,
                managerVars, procVars, sinkVars
  <2> QED
    BY <1>4, <2>1, InstanceFrame DEF ReloadFails
<1> QED
  BY <1>1, <1>2, <1>3, <1>4

\* The processors left are finitely many
LEMMA ProcessorsFinite ==
  ASSUME TypeOK
  PROVE  IsFiniteSet(processors) /\ Cardinality(processors) \in Nat
BY PluginsAssumption, FS_Subset, FS_CardinalityType
   DEF PluginsAssumption, TypeOK

\* Entry waits until as many processors are deleted as there were
LEMMA StopInv ==
  ASSUME PluginInv, StopProcessors \/ StopRound
  PROVE  PluginInv'
<1> USE DEF PluginInv, ManagerInv
<1>1. CASE StopProcessors
  <2>1. /\ ipc' = "stopping" /\ told' = told \cup processors
        /\ nproc' = Cardinality(processors)
        /\ ileft' = processors \cap dead /\ reaped' = 0
        /\ UNCHANGED <<managerVars, dead, procVars, sinkVars, eleft, skipped>>
    BY <1>1 DEF StopProcessors, Terminated
  <2>2. TypeOK'
    BY <2>1, ProcessorsFinite
       DEF TypeOK, managerVars, procVars, sinkVars, Plugins
  <2>3. Reaping' /\ ProcessorsFirst'
    BY <2>1, ProcessorsFinite DEF Reaping, ProcessorsFirst, managerVars
  <2> QED
    BY <2>1, <2>2, <2>3, InstanceFrame
<1>2. CASE StopRound
  <2>1. /\ ipc = "stopping" /\ nproc' = nproc - reaped /\ reaped' = 0
        /\ ipc' = IF nproc' > 0 THEN "stopping" ELSE "return"
        /\ ileft' = IF nproc' > 0 THEN processors \cap dead ELSE {}
        /\ UNCHANGED <<managerVars, told, dead, procVars, sinkVars, eleft,
                       skipped>>
    BY <1>2 DEF StopRound, Terminated
  <2>2. nproc' = Cardinality(processors) /\ nproc' \in Nat
    BY <2>1, ProcessorsFinite DEF TypeOK, Reaping
  <2>3. TypeOK'
    BY <2>1, <2>2 DEF TypeOK, managerVars, procVars, sinkVars, Plugins
  <2>4. Reaping'
    BY <2>1, <2>2 DEF Reaping, managerVars
  <2>5. nproc' > 0 \/ processors = {}
    BY <2>2, ProcessorsFinite, FS_EmptySet
  <2>6. ProcessorsFirst'
    BY <2>1, <2>5 DEF ProcessorsFirst, managerVars
  <2> QED
    BY <2>1, <2>3, <2>4, <2>6, InstanceFrame
<1> QED
  BY <1>1, <1>2

\* A plugin leaves the maps while nobody calls plugins; it has ended
LEMMA PluginDeleted ==
  ASSUME PluginInv, TypeOK', Reaping', ProcessorsFirst', NEW x \in dead,
         lock \notin Processors \cup {Agent},
         processors' = processors \ {x}, sinks' = sinks \ {x},
         UNCHANGED <<lock, told, dead, procVars, sinkVars, eleft, ipc>>
  PROVE  PluginInv'
<1> USE DEF PluginInv, ManagerInv
<1>1. \A p \in Processors : ~Dispatching(p) /\ targets[p] = {}
  BY DEF MutexHeld
<1>2. eleft = NULL
  BY DEF MutexHeld
<1>3. MutexHeld' /\ Carried'
  BY DEF MutexHeld, Carried, Dispatching, procVars
<1>4. NoDeletedPlugin'
  BY <1>1, <1>2 DEF NoDeletedPlugin, Dispatching, procVars
<1>5. Pulling' /\ QueueBounded' /\ QueuesInv'
  BY QueuesFrame DEF sinkVars, procVars
<1> QED
  BY <1>3, <1>4, <1>5

LEMMA ReapDeleteInv ==
  ASSUME PluginInv, NEW x \in Plugins, ReapDelete(x)
  PROVE  PluginInv'
<1> USE DEF PluginInv, ManagerInv
<1>1. /\ ipc \in {"reap", "stopping"} /\ x \in ileft /\ lock = NULL
      /\ processors' = processors \ {x} /\ sinks' = sinks \ {x}
      /\ ileft' = ileft \ {x} /\ reaped' = reaped + 1
      /\ UNCHANGED <<lock, told, dead, procVars, sinkVars, eleft, ipc, nproc,
                     skipped>>
  BY DEF ReapDelete
<1>2. TypeOK'
  BY <1>1 DEF TypeOK, procVars, sinkVars
<1>3. ipc = "stopping" =>
        Cardinality(processors') = Cardinality(processors) - 1
  BY <1>1, ProcessorsFinite, FS_RemoveElement DEF Reaping
<1>4. Reaping'
  <2>1. ileft' \subseteq dead'
    BY <1>1 DEF Reaping
  <2>2. ASSUME ipc' = "stopping"
        PROVE  /\ ileft' \subseteq processors'
               /\ nproc' = Cardinality(processors') + reaped'
    <3>1. ileft \subseteq processors /\ nproc = Cardinality(processors) + reaped
      BY <1>1, <2>2 DEF Reaping
    <3>2. reaped \in Nat /\ Cardinality(processors) \in Nat
      BY ProcessorsFinite DEF TypeOK
    <3>3. nproc' = nproc /\ reaped' = reaped + 1
      BY <1>1
    <3>4. Cardinality(processors') = Cardinality(processors) - 1
      BY <1>1, <1>3, <2>2
    <3>5. nproc' = Cardinality(processors') + reaped'
      BY <3>1, <3>2, <3>3, <3>4
    <3> QED
      BY <1>1, <3>1, <3>5
  <2> QED
    BY <2>1, <2>2 DEF Reaping
<1>5. ProcessorsFirst'
  BY <1>1 DEF ProcessorsFirst
<1>6. x \in dead /\ lock \notin Processors \cup {Agent}
  BY <1>1, PluginsAssumption DEF PluginsAssumption, Plugins, Reaping
<1> QED
  BY <1>1, <1>2, <1>4, <1>5, <1>6, PluginDeleted

LEMMA DestroyInv ==
  ASSUME PluginInv,
         \/ DestroyBegin \/ DestroyEnd
         \/ \E x \in Plugins : DestroyPlugin(x)
  PROVE  PluginInv'
<1> USE DEF PluginInv, ManagerInv
<1>1. CASE DestroyBegin
  <2>1. /\ ipc = "return" /\ eleft = NULL /\ lock = NULL /\ lock' = Instance
        /\ ipc' = "destroy" /\ told' = told \cup processors \cup sinks
        /\ UNCHANGED <<processors, sinks, dead, procVars, sinkVars, eleft,
                       ileft, reaped, nproc, skipped>>
    BY <1>1 DEF DestroyBegin, Acquire
  <2>2. TypeOK'
    BY <2>1 DEF TypeOK, procVars, sinkVars, Plugins
  <2>3. \A p \in Processors : ~Dispatching(p)
    BY <2>1, PluginsAssumption DEF PluginsAssumption, Plugins, MutexHeld
  <2>4. MutexHeld' /\ Carried'
    BY <2>1, <2>3 DEF MutexHeld, Carried, Dispatching, procVars
  <2>5. Reaping' /\ ProcessorsFirst' /\ NoDeletedPlugin'
    BY <2>1 DEF Reaping, ProcessorsFirst, NoDeletedPlugin, procVars
  <2>6. Pulling' /\ QueueBounded' /\ QueuesInv'
    BY <2>1, <2>2, QueuesFrame DEF sinkVars, procVars
  <2> QED
    BY <2>2, <2>4, <2>5, <2>6
<1>2. CASE DestroyEnd
  <2>1. /\ lock = Instance /\ lock' = NULL /\ ipc' = "gone"
        /\ UNCHANGED <<processors, sinks, told, dead, procVars, sinkVars,
                       eleft, ileft, reaped, nproc, skipped>>
    BY <1>2 DEF DestroyEnd, Release
  <2>2. TypeOK'
    BY <2>1 DEF TypeOK, procVars, sinkVars
  <2>3. eleft = NULL /\ \A p \in Processors : ~Dispatching(p)
    BY <2>1, PluginsAssumption
       DEF PluginsAssumption, Plugins, MutexHeld, Agent, Instance
  <2>4. MutexHeld' /\ Carried'
    BY <2>1, <2>3 DEF MutexHeld, Carried, Dispatching, procVars
  <2>5. Reaping' /\ ProcessorsFirst' /\ NoDeletedPlugin'
    BY <2>1 DEF Reaping, ProcessorsFirst, NoDeletedPlugin, procVars
  <2>6. Pulling' /\ QueueBounded' /\ QueuesInv'
    BY <2>1, <2>2, QueuesFrame DEF sinkVars, procVars
  <2> QED
    BY <2>2, <2>4, <2>5, <2>6
<1>3. ASSUME NEW x \in Plugins, DestroyPlugin(x)
      PROVE  PluginInv'
  <2>1. /\ ipc = "destroy" /\ x \in dead
        /\ processors' = processors \ {x} /\ sinks' = sinks \ {x}
        /\ UNCHANGED <<lock, told, dead, procVars, sinkVars, eleft, instVars>>
    BY <1>3 DEF DestroyPlugin
  <2>2. TypeOK'
    BY <2>1 DEF TypeOK, procVars, sinkVars, instVars
  <2>3. Reaping' /\ ProcessorsFirst'
    BY <2>1 DEF Reaping, ProcessorsFirst, instVars
  <2>4. lock \notin Processors \cup {Agent}
    BY <2>1, PluginsAssumption
       DEF PluginsAssumption, Plugins, MutexHeld, Agent, Instance
  <2> QED
    BY <2>1, <2>2, <2>3, <2>4, PluginDeleted DEF instVars
<1> QED
  BY <1>1, <1>2, <1>3

-----------------------------------------------------------------------------
(* The theorems                                                            *)

LEMMA InitInv == Init => PluginInv
<1> SUFFICES ASSUME Init PROVE PluginInv
  OBVIOUS
<1>1. TypeOK
  <2>1. <<>> \in Seq(Payload)
    BY EmptySeq
  <2>2. /\ public \in [Sinks -> Seq(Payload)]
        /\ private \in [Sinks -> Seq(Payload)]
        /\ size \in [Sinks -> Nat]
    BY <2>1 DEF Init
  <2>3. /\ ppc \in [Processors -> {"idle", "lock", "dispatch", "signal"}]
        /\ goal \in [Processors -> Sinks \cup {All, NULL}]
        /\ pay \in [Processors -> Payload \cup {NULL}]
        /\ targets \in [Processors -> SUBSET Sinks]
        /\ signalled \in [Processors -> Sinks \cup {NULL}]
    BY DEF Init
  <2>4. spc \in [Sinks -> {"pull", "unlocked", "waiting", "again", "pulling",
                          "work"}]
    BY DEF Init
  <2>5. skipped \in BOOLEAN /\ eleft \in (SUBSET Processors) \cup {NULL}
    BY DEF Init
  <2> QED
    BY <2>2, <2>3, <2>4, <2>5 DEF Init, TypeOK
<1>2. ManagerInv
  BY DEF Init, ManagerInv, MutexHeld, Dispatching, Carried, Reaping,
         NoDeletedPlugin, ProcessorsFirst
<1>3. Pulling
  BY DEF Init, Pulling
<1>4. QueueBounded
  BY TotalEmpty, PluginsAssumption DEF PluginsAssumption, Init, QueueBounded
<1>5. \A s \in Sinks : Queue(s) = <<>>
  BY DEF Init, Queue
<1>6. QueuesInv
  BY <1>5 DEF QueuesInv, Numbered, InOrder, Owned
<1> QED
  BY <1>1, <1>2, <1>3, <1>4, <1>6 DEF PluginInv

LEMMA NextInv == PluginInv /\ [Next]_vars => PluginInv'
<1> SUFFICES ASSUME PluginInv, [Next]_vars PROVE PluginInv'
  OBVIOUS
<1>1. ASSUME NEW s \in Sinks, SinkStep(s) PROVE PluginInv'
  BY <1>1, SinkInv
<1>2. ASSUME NEW p \in Processors, CreatePayload(p) \/ ProcStep(p)
      PROVE  PluginInv'
  BY <1>2, CreatePayloadInv, ProcInv
<1>3. ASSUME NEW x \in Plugins, PluginEnds(x) PROVE PluginInv'
  BY <1>3, PluginEndsInv
<1>4. CASE EventBegin \/ AgentStep
  BY <1>4, EventBeginInv, EventCallInv DEF AgentStep
<1>5. CASE InstStep \/ LeaveLoop \/ ReloadFails
  BY <1>5, LoopInv, StopInv, ReapDeleteInv, DestroyInv DEF InstStep
<1>6. CASE UNCHANGED vars
  <2>1. /\ UNCHANGED <<managerVars, told, dead, procVars, eleft, instVars>>
        /\ UNCHANGED <<public, private, size, spc>>
    BY <1>6 DEF vars, sinkVars
  <2>2. TypeOK'
    BY <2>1 DEF PluginInv, TypeOK, managerVars, procVars, instVars
  <2>3. ManagerInv'
    BY <2>1, ManagerFrame DEF PluginInv
  <2>4. Pulling' /\ QueueBounded' /\ QueuesInv'
    BY <2>1, <2>2, QueuesFrame DEF procVars
  <2> QED
    BY <2>2, <2>3, <2>4 DEF PluginInv
<1> QED
  BY <1>1, <1>2, <1>3, <1>4, <1>5, <1>6 DEF Next

\* The strengthening holds throughout
THEOREM PluginInvariant == Spec => []PluginInv
BY InitInv, NextInv, PTL DEF Spec

\* Every variable keeps to its type: in particular plq_size, an unsigned
\* number, is never taken below 0
THEOREM PluginsTypeCorrect == Spec => []TypeOK
<1>1. PluginInv => TypeOK
  BY DEF PluginInv
<1> QED
  BY <1>1, PluginInvariant, PTL

\* PullPayloadQueue and PopPayloadQueue count exactly, and the private queue
\* exceeds plq_size_max by at most the payload moved last
THEOREM SinkQueueBounded == Spec => []QueueBounded
<1>1. PluginInv => QueueBounded
  BY DEF PluginInv
<1> QED
  BY <1>1, PluginInvariant, PTL

\* Payloads of any number of processors stay in the order the manager's mutex
\* gave them, through both stages of a sink's queue
THEOREM PayloadsInOrder == Spec => []InOrder
<1>1. PluginInv => InOrder
  BY DEF PluginInv, QueuesInv
<1> QED
  BY <1>1, PluginInvariant, PTL

\* BroadcastSinkPayload never gives one object to two sinks
THEOREM PayloadOneOwner == Spec => []OneOwner
<1>1. PluginInv => OneOwner
  <2> SUFFICES ASSUME PluginInv, NEW s \in Sinks, NEW t \in Sinks, s # t,
                      NEW x \in Queued(s), x \in Queued(t)
               PROVE  FALSE
    BY DEF OneOwner
  <2>1. PICK i \in 1..Len(Queue(s)) : x = Queue(s)[i]
    BY DEF Queued
  <2>2. PICK j \in 1..Len(Queue(t)) : x = Queue(t)[j]
    BY DEF Queued
  <2>3. Owned
    BY DEF PluginInv, QueuesInv
  <2>4. x.copy \in {s, NULL} /\ x.copy \in {t, NULL}
    BY <2>1, <2>2, <2>3 DEF Owned
  <2>5. Queue(s)[i].copy = NULL /\ Queue(t)[j].copy = NULL
    BY <2>1, <2>2, <2>4
  <2>6. Queue(t)[j].msg # Queue(s)[i].msg
    BY <2>3, <2>5 DEF Owned
  <2> QED
    BY <2>1, <2>2, <2>6
<1> QED
  BY <1>1, PluginInvariant, PTL

\* A plugin that Reap or Destroy deletes is not one a broadcast, a dispatch or
\* a signal still comes to
THEOREM NoCallAfterDelete == Spec => []NoDeletedPlugin
<1>1. PluginInv => NoDeletedPlugin
  BY DEF PluginInv, ManagerInv
<1> QED
  BY <1>1, PluginInvariant, PTL

\* When Entry has returned in the ordinary way all processors are deleted, so
\* that Destroy joins no thread that waits for its mutex
THEOREM EntryStopsProcessors == Spec => []ProcessorsFirst
<1>1. PluginInv => ProcessorsFirst
  BY DEF PluginInv, ManagerInv
<1> QED
  BY <1>1, PluginInvariant, PTL
=============================================================================
