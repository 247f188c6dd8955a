------------------------ MODULE PacketCaptureProofs ------------------------
(***************************************************************************)
(* Proofs about the capture threads for every number of threads, size of   *)
(* the ring and of the sockets, and all traffic.                           *)
(***************************************************************************)
EXTENDS PacketCapture, FiniteSetTheorems, FunctionTheorems, SequenceTheorems,
        TLAPS

-----------------------------------------------------------------------------
\* The types of the state, by part

Stats == [Counters -> Nat]

Places == {"none", "closed", "next", "copy", "count", "lock", "process",
           "delay", "due", "overrun", "ended"}

LogEntry == [thread : Threads, id : Nat, key : Key \cup {NULL},
             admitted : BOOLEAN]

KernelType ==
  /\ type \in CaptureTypes /\ trace \in Seq(Packet)
  /\ arrived \in 0..Len(trace) /\ lost \in SUBSET (1..arrived)
  /\ ring \in [Threads -> [Blocks -> Seq(Nat)]]
  /\ status \in [Threads -> [Blocks -> {"kernel", "user"}]]
  /\ kblock \in [Threads -> Blocks]
  /\ sock \in [Threads -> Seq(Nat)]
  /\ drops \in [Threads -> Nat]
  /\ overrun \in [Threads -> BOOLEAN]

ThreadType ==
  /\ pc \in [Threads -> Places]
  /\ lock \in [Threads -> Threads \cup {NULL, "update"}]
  /\ it_block \in [Threads -> Blocks]
  /\ block \in [Threads -> Blocks]
  /\ copied \in [Threads -> Nat]
  /\ pkt_queue \in [Threads -> Seq(Nat)]
  /\ vlan_id \in [Threads -> Nat]
  /\ log \in Seq(LogEntry)

CountType ==
  /\ reg = [t \in Threads |-> reg[t]]
  /\ \A t \in Threads : /\ pc[t] = "count" => reg[t] \in Stats
                        /\ pc[t] = "overrun" => reg[t] \in Nat
  /\ stats \in [Threads -> Stats]
  /\ dropped \in [Threads -> Nat]
  /\ pcs_last \in [Threads -> Nat]
  /\ upc \in {"idle", "lock", "get", "add", "reset"}
  /\ todo \in SUBSET Threads
  /\ asked \in Threads \cup {NULL}
  /\ pkt_stats \in Stats /\ pkt_stats_global \in Stats

TypeOK == KernelType /\ ThreadType /\ CountType

\* Who holds a thread's mutex, and which back end uses what.
Control ==
  /\ \A t \in Threads :
       /\ pc[t] \in {"process", "due"} => lock[t] = t
       /\ pc[t] \in {"none", "closed", "next", "overrun"} =>
            pkt_queue[t] = <<>>
       /\ Copying(t) => type = "tpv3"
       /\ type = "tpv3" => sock[t] = <<>> /\ ~overrun[t]
       /\ type # "tpv3" => \A b \in Blocks : ring[t][b] = <<>>
  /\ upc \in {"get", "add", "reset"} =>
       asked \in Threads /\ lock[asked] = "update"

\* The blocks that the thread has not given back lie between its iterator
\* and the kernel's block; the kernel fills one block only.
User(t, b) == status[t][b] = "user"

Between(t, b) == Ahead(t, b) < Ahead(t, kblock[t])

BlockOwners(t) ==
  IF Copying(t)
  THEN /\ it_block[t] = NextBlock(block[t])
       /\ User(t, block[t])
       /\ \A b \in Blocks \ {block[t]} : User(t, b) <=> Between(t, b)
  ELSE \/ \A b \in Blocks : User(t, b) <=> Between(t, b)
       \/ kblock[t] = it_block[t] /\ \A b \in Blocks : User(t, b)

KernelBlocks(t) ==
  \A b \in Blocks \ {kblock[t]} : ~User(t, b) => ring[t][b] = <<>>

\* The packet that is being counted as filtered
Counting(t) ==
  pc[t] = "count" => /\ copied[t] < Len(ring[t][block[t]])
                     /\ trace[ring[t][block[t]][copied[t] + 1]].filtered

RingShape(t) == BlockOwners(t) /\ KernelBlocks(t) /\ Counting(t)

\* The packets at each stage of thread t
Elems(s) == {s[n] : n \in DOMAIN s}

LogIds(t) == {log[n].id : n \in {m \in DOMAIN log : log[m].thread = t}}

BlockIds(t) ==
  {ring[t][block[t]][n] :
     n \in {m \in DOMAIN ring[t][block[t]] : Copying(t) /\ m > copied[t]}}

Others(t) == {b \in Blocks : ~(Copying(t) /\ b = block[t])}

RingIds(t) == UNION {Elems(ring[t][b]) : b \in Others(t)}

Waiting(t) == BlockIds(t) \cup RingIds(t) \cup Elems(sock[t])

Ids(t) == LogIds(t) \cup Elems(pkt_queue[t]) \cup Waiting(t)

Sorted(s) == \A m, n \in DOMAIN s : m < n => s[m] < s[n]

Below(A, B) == \A x \in A, y \in B : x < y

LogSorted(t) ==
  \A m, n \in DOMAIN log :
    log[m].thread = t /\ log[n].thread = t /\ m < n => log[m].id < log[n].id

RingSorted(t) ==
  \A b, c \in Others(t) :
    Ahead(t, b) < Ahead(t, c) => Below(Elems(ring[t][b]), Elems(ring[t][c]))

StageOrder(t) ==
  /\ LogSorted(t) /\ Sorted(pkt_queue[t]) /\ Sorted(sock[t])
  /\ \A b \in Blocks : Sorted(ring[t][b])
  /\ RingSorted(t)
  /\ Below(LogIds(t), Elems(pkt_queue[t]))
  /\ Below(LogIds(t), Waiting(t))
  /\ Below(Elems(pkt_queue[t]), Waiting(t))
  /\ Below(BlockIds(t), RingIds(t))
  /\ Ids(t) \subseteq 1..arrived

\* Every packet that had room and is not filtered is at some stage.
NoneLeftOut ==
  type # "pcap" =>
    \A i \in 1..arrived :
      i \in lost \/ trace[i].filtered \/ \E t \in Threads : i \in Ids(t)

\* The drops that libpcap has counted since the last update
Unreported ==
  [t \in Threads |->
     drops[t] - IF pcs_last[t] <= drops[t] THEN pcs_last[t] ELSE 0]

\* What the counters of the threads, the update under way and the reports
\* before it add up to
CountInv ==
  /\ Reported("raw") = Len(log)
  /\ Reported("ip") = Cardinality({n \in DOMAIN log : log[n].admitted})
  /\ type # "tpv3" => Reported("discard") =
       Total([n \in DOMAIN log |-> Discards(log[n])])

\* Between two updates the interface has no counters of its own, and the
\* drops of a thread are counted when it is asked only.
StatsClear ==
  /\ upc = "idle" => pkt_stats = NoStats
  /\ \A t \in Threads :
       stats[t]["dropped"] # 0 => t = asked /\ upc \in {"add", "reset"}

DropInv ==
  /\ type = "tpv3" => Reported("dropped") + Total(drops) = Cardinality(lost)
  /\ type = "pcap" =>
       Reported("dropped") + Total(Unreported) <= Cardinality(lost)

\* The digest of a processed packet, and where its VLAN comes from
Tagged(t) ==
  \E m \in DOMAIN log : log[m].thread = t /\ trace[log[m].id].vlan # 0

KeyOf(e) ==
  LET p == trace[e.id] IN
  IF e.key = NULL THEN ~e.admitted
  ELSE /\ e.key = Hash(Device(e.thread), e.key.vlan, p)
       /\ p.vlan # 0 => e.key.vlan = p.vlan
       /\ e.key.vlan # 0 => Tagged(e.thread)

KeyInv ==
  /\ \A n \in DOMAIN log : KeyOf(log[n])
  /\ \A t \in Threads : vlan_id[t] # 0 => Tagged(t)

\* The flow of a packet remembers the packet that made it.
FlowInv ==
  /\ \A k \in DOMAIN flows : \E n \in DOMAIN log :
       log[n].admitted /\ log[n].key = k
  /\ \A n \in DOMAIN log :
       /\ log[n].admitted => log[n].key \in DOMAIN flows
       /\ MadeFlow(n) =>
            flows[log[n].key] = Origin(trace[log[n].id], log[n].key)

CaptureInv ==
  /\ TypeOK /\ Control
  /\ \A t \in Threads : RingShape(t) /\ StageOrder(t)
  /\ NoneLeftOut /\ CountInv /\ StatsClear /\ DropInv /\ KeyInv /\ FlowInv

-----------------------------------------------------------------------------
\* Queues

\* A packet that is put into a queue is at its end.
LEMMA AppendElems ==
  ASSUME NEW s \in Seq(Nat), NEW x \in Nat
  PROVE  /\ Append(s, x) \in Seq(Nat)
         /\ Elems(Append(s, x)) = Elems(s) \cup {x}
         /\ Sorted(s) /\ Below(Elems(s), {x}) => Sorted(Append(s, x))
<1> DEFINE r == Append(s, x)
<1>1. /\ r \in Seq(Nat) /\ Len(s) \in Nat
      /\ DOMAIN s = 1..Len(s) /\ DOMAIN r = 1..(Len(s) + 1)
      /\ \A n \in 1..Len(s) : r[n] = s[n]
      /\ r[Len(s) + 1] = x
  OBVIOUS
<1> HIDE DEF r
<1>2. Elems(r) = Elems(s) \cup {x}
  <2>1. ASSUME NEW y \in Elems(r) PROVE y \in Elems(s) \cup {x}
    BY <1>1 DEF Elems
  <2>2. ASSUME NEW y \in Elems(s) PROVE y \in Elems(r)
    BY <1>1 DEF Elems
  <2>3. x \in Elems(r)
    BY <1>1 DEF Elems
  <2> QED
    BY <2>1, <2>2, <2>3
<1>3. ASSUME Sorted(s), Below(Elems(s), {x}),
             NEW m \in DOMAIN r, NEW n \in DOMAIN r, m < n
      PROVE  r[m] < r[n]
  <2>1. m \in 1..Len(s) /\ r[m] = s[m] /\ s[m] \in Elems(s)
    BY <1>1, <1>3 DEF Elems
  <2>2. CASE n = Len(s) + 1
    BY <1>1, <1>3, <2>1, <2>2 DEF Below
  <2>3. CASE n # Len(s) + 1
    <3>1. n \in 1..Len(s) /\ r[n] = s[n]
      BY <1>1, <2>3
    <3> QED
      BY <1>1, <1>3, <2>1, <3>1 DEF Sorted
  <2> QED
    BY <2>2, <2>3
<1>4. Sorted(s) /\ Below(Elems(s), {x}) => Sorted(r)
  BY <1>3 DEF Sorted
<1> QED
  BY <1>1, <1>2, <1>4 DEF r

\* A packet that is taken from a queue is its first.
LEMMA TailElems ==
  ASSUME NEW s \in Seq(Nat), s # <<>>
  PROVE  /\ Head(s) \in Nat /\ Tail(s) \in Seq(Nat)
         /\ Elems(s) = {Head(s)} \cup Elems(Tail(s))
         /\ Sorted(s) => Sorted(Tail(s)) /\ Below({Head(s)}, Elems(Tail(s)))
<1> DEFINE h == Head(s)
           r == Tail(s)
<1>1. /\ Len(s) \in Nat \ {0} /\ DOMAIN s = 1..Len(s)
      /\ r \in Seq(Nat) /\ DOMAIN r = 1..(Len(s) - 1)
      /\ h \in Nat /\ h = s[1]
      /\ \A n \in 1..(Len(s) - 1) : r[n] = s[n + 1]
  OBVIOUS
<1> HIDE DEF h, r
<1>2. Elems(s) = {h} \cup Elems(r)
  <2>1. ASSUME NEW y \in Elems(s) PROVE y \in {h} \cup Elems(r)
    <3>1. PICK n \in 1..Len(s) : y = s[n]
      BY <1>1 DEF Elems
    <3>2. CASE n = 1
      BY <1>1, <3>1, <3>2
    <3>3. CASE n # 1
      <4>1. n - 1 \in 1..(Len(s) - 1) /\ r[n - 1] = s[n]
        BY <1>1, <3>3
      <4> QED
        BY <1>1, <3>1, <4>1 DEF Elems
    <3> QED
      BY <3>2, <3>3
  <2>2. ASSUME NEW y \in Elems(r) PROVE y \in Elems(s)
    <3>1. PICK n \in 1..(Len(s) - 1) : y = r[n]
      BY <1>1 DEF Elems
    <3>2. n + 1 \in 1..Len(s) /\ y = s[n + 1]
      BY <1>1, <3>1
    <3> QED
      BY <1>1, <3>2 DEF Elems
  <2>3. h \in Elems(s)
    BY <1>1 DEF Elems
  <2> QED
    BY <2>1, <2>2, <2>3
<1>3. ASSUME Sorted(s) PROVE Sorted(r) /\ Below({h}, Elems(r))
  <2>1. ASSUME NEW m \in DOMAIN r, NEW n \in DOMAIN r, m < n
        PROVE  r[m] < r[n]
    <3>1. m \in 1..(Len(s) - 1) /\ n \in 1..(Len(s) - 1)
      BY <1>1, <2>1
    <3>2. m + 1 \in 1..Len(s) /\ n + 1 \in 1..Len(s) /\ m + 1 < n + 1
      <4>1. Len(s) \in Nat
        BY <1>1
      <4> QED
        BY <2>1, <3>1, <4>1
    <3>3. r[m] = s[m + 1] /\ r[n] = s[n + 1]
      BY <1>1, <3>1
    <3> QED
      BY <1>1, <1>3, <3>2, <3>3 DEF Sorted
  <2>2. ASSUME NEW n \in DOMAIN r PROVE h < r[n]
    <3>1. 1 \in DOMAIN s /\ n + 1 \in DOMAIN s /\ 1 < n + 1
      BY <1>1
    <3>2. r[n] = s[n + 1]
      BY <1>1
    <3> QED
      BY <1>1, <1>3, <3>1, <3>2 DEF Sorted
  <2> QED
    BY <2>1, <2>2 DEF Sorted, Below, Elems
<1> QED
  BY <1>1, <1>2, <1>3 DEF h, r

\* The packets of a block that have not been looked at
LEMMA UncopiedIs ==
  ASSUME TypeOK, NEW t \in Threads
  PROVE  LET s == ring[t][block[t]]
         IN  /\ s \in Seq(Nat) /\ Len(s) \in Nat /\ copied[t] \in Nat
             /\ Uncopied(t) # <<>> <=> copied[t] < Len(s)
             /\ Uncopied(t) # <<>> => Head(Uncopied(t)) = s[copied[t] + 1]
<1> DEFINE s == ring[t][block[t]]
           c == copied[t]
           u == SubSeq(s, c + 1, Len(s))
<1>1. s \in Seq(Nat) /\ Len(s) \in Nat /\ c \in Nat
  BY DEF TypeOK, KernelType, ThreadType
<1>2. Uncopied(t) = u
  BY DEF Uncopied
<1> HIDE DEF s, c
<1>3. CASE c < Len(s)
  <2>1. c + 1 \in 1..Len(s) /\ Len(s) \in (c + 1)..Len(s)
    BY <1>1, <1>3
  <2>2. Head(u) = s[c + 1]
    BY <1>1, <2>1, HeadTailOfSubSeq
  <2>3. Len(u) = Len(s) - c
    BY <1>1, <1>3
  <2>4. u # <<>>
    <3> HIDE DEF u
    <3>1. Len(u) # 0
      BY <1>1, <1>3, <2>3
    <3> QED
      BY <3>1
  <2> QED
    BY <1>1, <1>2, <1>3, <2>2, <2>4 DEF s, c
<1>4. CASE ~(c < Len(s))
  <2>1. u = <<>>
    BY <1>1, <1>4, SubSeqEmpty
  <2> QED
    BY <1>1, <1>2, <1>4, <2>1 DEF s, c
<1> QED
  BY <1>3, <1>4

-----------------------------------------------------------------------------
\* The ring

\* The block after b, without a remainder
LEMMA NextBlockIs ==
  ASSUME NEW b \in Blocks
  PROVE  /\ NextBlock(b) \in Blocks
         /\ NextBlock(b) = IF b = RingBlocks - 1 THEN 0 ELSE b + 1
<1>1. RingBlocks \in Nat /\ RingBlocks > 0
  BY CaptureAssumption
<1>2. CASE b = RingBlocks - 1
  <2>1. b + 1 = RingBlocks
    BY <1>1, <1>2
  <2>2. RingBlocks % RingBlocks = 0
    BY <1>1
  <2> QED
    BY <1>1, <1>2, <2>1, <2>2 DEF NextBlock, Blocks
<1>3. CASE b # RingBlocks - 1
  <2>1. b + 1 \in 0..RingBlocks - 1
    BY <1>1, <1>3 DEF Blocks
  <2>2. (b + 1) % RingBlocks = b + 1
    BY <1>1, <2>1
  <2> QED
    BY <1>3, <2>1, <2>2 DEF NextBlock, Blocks
<1> QED
  BY <1>2, <1>3

-----------------------------------------------------------------------------
\* Types

\* The actions that change what the kernel keeps
LEMMA KernelFrame ==
  ASSUME [Next]_vars
  PROVE  \/ UNCHANGED <<type, kernelVars>>
         \/ GetCaptureStats
         \/ \E t \in Threads :
              \/ Arrive(t) \/ Retire(t) \/ Release(t) \/ Overrun(t)
              \/ Receive(t) \/ ReceiveFails(t) \/ PcapClose(t)
<1> USE DEF kernelVars
<1>1. CASE UNCHANGED vars
  BY <1>1 DEF vars
<1>2. CASE Update \/ LockForStats \/ AddStats \/ ResetStats \/ Updated
  BY <1>2 DEF Update, LockForStats, AddStats, ResetStats, Updated, captureVars
<1>3. ASSUME NEW t \in Threads,
             NextReady(t) \/ CopyPacket(t) \/ CountFiltered(t)
             \/ CountOverrun(t) \/ OpenCapture(t) \/ End(t)
      PROVE  UNCHANGED <<type, kernelVars>>
  BY <1>3 DEF NextReady, CopyPacket, CountFiltered, CountOverrun,
              OpenCapture, End
<1>4. ASSUME NEW t \in Threads,
             LockThread(t) \/ Delay(t) \/ Delayed(t) \/ UnlockThread(t)
             \/ RejectLink(t) \/ RejectNet(t) \/ DropFlow(t) \/ CountFlow(t)
      PROVE  UNCHANGED <<type, kernelVars>>
  BY <1>4 DEF LockThread, Delay, Delayed, UnlockThread, RejectLink,
              RejectNet, DropFlow, CountFlow, Processed
<1> QED
  BY <1>1, <1>2, <1>3, <1>4 DEF Next, Instance, Kernel, Capture, Fail

\* What an arriving packet does: nothing, if a filter rejects it before it is
\* buffered, or it goes to the ring, or to the socket.
LEMMA ArriveCases ==
  ASSUME TypeOK, NEW t \in Threads, Arrive(t)
  PROVE  LET i == arrived + 1 IN
         /\ i \in Nat /\ i \in 1..Len(trace) /\ Len(trace) \in Nat
         /\ arrived' = i /\ trace[i] \in Packet
         /\ UNCHANGED <<type, trace, pc, lock, copyVars, stats, dropped,
                        pcs_last, flowVars, updateVars>>
         /\ \/ /\ ~Reaches(trace[i])
               /\ UNCHANGED <<lost, ring, status, kblock, sock, drops,
                              overrun>>
            \/ Reaches(trace[i]) /\ type = "tpv3" /\ ArriveRing(t, i)
            \/ Reaches(trace[i]) /\ type # "tpv3" /\ ArriveSocket(t, i)
<1> DEFINE i == arrived + 1
<1>1. i \in Nat /\ i \in 1..Len(trace) /\ Len(trace) \in Nat
  BY DEF TypeOK, KernelType, Arrive
<1>2. trace[i] \in Packet
  BY <1>1 DEF TypeOK, KernelType
<1>3. /\ arrived' = i
      /\ UNCHANGED <<type, trace, pc, lock, copyVars, stats, dropped,
                     pcs_last, flowVars, updateVars>>
  BY DEF Arrive
<1>4. \/ /\ ~Reaches(trace[i])
         /\ UNCHANGED <<lost, ring, status, kblock, sock, drops, overrun>>
      \/ Reaches(trace[i]) /\ type = "tpv3" /\ ArriveRing(t, i)
      \/ Reaches(trace[i]) /\ type # "tpv3" /\ ArriveSocket(t, i)
  <2>1. CASE ~Reaches(trace[i])
    BY <2>1 DEF Arrive
  <2>2. CASE Reaches(trace[i]) /\ type = "tpv3"
    BY <2>2 DEF Arrive
  <2>3. CASE Reaches(trace[i]) /\ type # "tpv3"
    BY <2>3 DEF Arrive
  <2> QED
    BY <2>1, <2>2, <2>3
<1> HIDE DEF i
<1> QED
  BY <1>1, <1>2, <1>3, <1>4 DEF i

\* A packet in the ring, in the kernel's block; and what a full block means
LEMMA RingCases ==
  ASSUME TypeOK, NEW t \in Threads, NEW i \in Nat, ArriveRing(t, i)
  PROVE  LET b == kblock[t] IN
         /\ b \in Blocks /\ NextBlock(b) \in Blocks
         /\ UNCHANGED <<sock, overrun>>
         /\ \/ /\ status[t][b] = "kernel"
               /\ ring' = [ring EXCEPT ![t][b] = Append(ring[t][b], i)]
               /\ \/ UNCHANGED <<status, kblock>>
                  \/ /\ status' = [status EXCEPT ![t][b] = "user"]
                     /\ kblock' = [kblock EXCEPT ![t] = NextBlock(b)]
               /\ UNCHANGED <<lost, drops>>
            \/ /\ status[t][b] # "kernel"
               /\ lost' = lost \cup {i}
               /\ drops' = [drops EXCEPT ![t] = drops[t] + 1]
               /\ UNCHANGED <<ring, status, kblock>>
<1> DEFINE b == kblock[t]
<1>1. b \in Blocks /\ NextBlock(b) \in Blocks
  BY NextBlockIs DEF TypeOK, KernelType
<1>2. CASE status[t][b] = "kernel"
  <2> DEFINE full == Len(Append(ring[t][b], i)) = BlockSize
  <2>1. /\ ring' = [ring EXCEPT ![t][b] = Append(ring[t][b], i)]
        /\ status' = [status EXCEPT ![t][b] = IF full THEN "user" ELSE @]
        /\ kblock' = [kblock EXCEPT ![t] = IF full THEN NextBlock(@) ELSE @]
        /\ UNCHANGED <<lost, drops, sock, overrun>>
    BY <1>2 DEF ArriveRing
  <2>2. CASE full
    <3>1. /\ status' = [status EXCEPT ![t][b] = "user"]
          /\ kblock' = [kblock EXCEPT ![t] = NextBlock(b)]
      BY <2>1, <2>2
    <3> QED
      BY <1>1, <1>2, <2>1, <3>1
  <2>3. CASE ~full
    <3>1. status' = status /\ kblock' = kblock
      BY <1>1, <2>1, <2>3 DEF TypeOK, KernelType
    <3> QED
      BY <1>1, <1>2, <2>1, <3>1
  <2> QED
    BY <2>2, <2>3
<1>3. CASE status[t][b] # "kernel"
  BY <1>1, <1>3 DEF ArriveRing
<1> QED
  BY <1>2, <1>3

\* Blocks stay lists of packets, and so do sockets.
LEMMA KernelTyped ==
  ASSUME TypeOK, [Next]_vars
  PROVE  KernelType'
<1> USE DEF KernelType
<1>1. CASE UNCHANGED <<type, kernelVars>>
  BY <1>1 DEF kernelVars, TypeOK
<1>2. CASE GetCaptureStats
  <2>1. drops' = drops \/ drops' = [drops EXCEPT ![asked] = 0]
    BY <1>2 DEF GetCaptureStats
  <2>2. drops' \in [Threads -> Nat]
    <3>1. drops \in [Threads -> Nat]
      BY DEF TypeOK
    <3> QED
      BY <2>1, <3>1
  <2>3. UNCHANGED <<type, trace, arrived, lost, ring, status, kblock, sock,
                    overrun>>
    BY <1>2 DEF GetCaptureStats, captureVars
  <2> QED
    BY <2>2, <2>3 DEF TypeOK
<1>3. ASSUME NEW t \in Threads, Arrive(t) PROVE KernelType'
  <2> DEFINE i == arrived + 1
  <2>1. /\ i \in Nat /\ i \in 1..Len(trace) /\ arrived' = i
        /\ UNCHANGED <<type, trace>>
    BY <1>3, ArriveCases
  <2>2. lost \in SUBSET (1..arrived') /\ lost \cup {i} \in SUBSET (1..arrived')
    BY <2>1 DEF TypeOK
  <2>3. CASE UNCHANGED <<lost, ring, status, kblock, sock, drops, overrun>>
    BY <2>1, <2>2, <2>3 DEF TypeOK
  <2>4. CASE ArriveRing(t, i)
    <3> DEFINE b == kblock[t]
    <3>1. b \in Blocks /\ NextBlock(b) \in Blocks
      BY <2>1, <2>4, RingCases
    <3>2. Append(ring[t][b], i) \in Seq(Nat)
      <4>1. ring[t][b] \in Seq(Nat)
        BY <3>1 DEF TypeOK
      <4> QED
        BY <2>1, <4>1, AppendElems
    <3>3. /\ [ring EXCEPT ![t][b] = Append(ring[t][b], i)]
               \in [Threads -> [Blocks -> Seq(Nat)]]
          /\ [status EXCEPT ![t][b] = "user"]
               \in [Threads -> [Blocks -> {"kernel", "user"}]]
          /\ [kblock EXCEPT ![t] = NextBlock(b)] \in [Threads -> Blocks]
          /\ [drops EXCEPT ![t] = drops[t] + 1] \in [Threads -> Nat]
      BY <3>1, <3>2 DEF TypeOK
    <3>4. /\ ring' \in [Threads -> [Blocks -> Seq(Nat)]]
          /\ status' \in [Threads -> [Blocks -> {"kernel", "user"}]]
          /\ kblock' \in [Threads -> Blocks]
          /\ drops' \in [Threads -> Nat]
          /\ lost' \in SUBSET (1..arrived')
      BY <2>1, <2>2, <2>4, <3>3, RingCases DEF TypeOK
    <3>5. UNCHANGED <<sock, overrun>>
      BY <2>1, <2>4, RingCases
    <3> HIDE DEF i
    <3> QED
      BY <2>1, <3>4, <3>5 DEF TypeOK
  <2>5. CASE ArriveSocket(t, i)
    <3>1. Append(sock[t], i) \in Seq(Nat)
      <4>1. sock[t] \in Seq(Nat)
        BY DEF TypeOK
      <4> QED
        BY <2>1, <4>1, AppendElems
    <3>2. sock' \in [Threads -> Seq(Nat)]
      BY <2>5, <3>1 DEF ArriveSocket, TypeOK
    <3>3. drops' \in [Threads -> Nat] /\ overrun' \in [Threads -> BOOLEAN]
      <4>1. drops \in [Threads -> Nat] /\ overrun \in [Threads -> BOOLEAN]
        BY DEF TypeOK
      <4>2. /\ drops' = drops \/ drops' = [drops EXCEPT ![t] = drops[t] + 1]
            /\ overrun' = overrun \/ overrun' = [overrun EXCEPT ![t] = TRUE]
        BY <2>5 DEF ArriveSocket
      <4>3. drops' \in [Threads -> Nat]
        BY <4>1, <4>2
      <4>4. overrun' \in [Threads -> BOOLEAN]
        BY <4>1, <4>2
      <4> QED
        BY <4>3, <4>4
    <3>4. lost' \in SUBSET (1..arrived')
      BY <2>2, <2>5 DEF ArriveSocket
    <3> QED
      BY <2>1, <2>5, <3>2, <3>3, <3>4 DEF ArriveSocket, TypeOK
  <2> QED
    BY <1>3, <2>3, <2>4, <2>5, ArriveCases
<1>4. ASSUME NEW t \in Threads, Retire(t) PROVE KernelType'
  <2>1. kblock[t] \in Blocks /\ NextBlock(kblock[t]) \in Blocks
    BY NextBlockIs DEF TypeOK
  <2> QED
    BY <1>4, <2>1 DEF Retire, TypeOK
<1>5. ASSUME NEW t \in Threads, Release(t) PROVE KernelType'
  <2>1. block[t] \in Blocks /\ <<>> \in Seq(Nat)
    BY DEF ThreadType, TypeOK
  <2>2. /\ status' \in [Threads -> [Blocks -> {"kernel", "user"}]]
        /\ ring' \in [Threads -> [Blocks -> Seq(Nat)]]
    BY <1>5, <2>1 DEF Release, TypeOK
  <2> QED
    BY <1>5, <2>2 DEF Release, TypeOK
<1>6. ASSUME NEW t \in Threads, Receive(t) \/ ReceiveFails(t)
      PROVE  KernelType'
  <2>1. sock[t] \in Seq(Nat) /\ sock[t] # <<>>
    BY <1>6 DEF Receive, ReceiveFails, TypeOK
  <2>2. Tail(sock[t]) \in Seq(Nat)
    BY <2>1, TailElems
  <2>3. sock' \in [Threads -> Seq(Nat)]
    BY <1>6, <2>2 DEF Receive, ReceiveFails, TypeOK
  <2> QED
    BY <1>6, <2>3 DEF Receive, ReceiveFails, TypeOK
<1>7. ASSUME NEW t \in Threads, PcapClose(t) PROVE KernelType'
  <2>1. <<>> \in Seq(Nat)
    OBVIOUS
  <2> QED
    BY <1>7, <2>1 DEF PcapClose, TypeOK
<1>8. ASSUME NEW t \in Threads, Overrun(t) PROVE KernelType'
  BY <1>8 DEF Overrun, TypeOK
<1> QED
  BY <1>1, <1>2, <1>3, <1>4, <1>5, <1>6, <1>7, <1>8, KernelFrame

\* The packet that a thread is about to process is one that arrived.
LEMMA HeadOfQueue ==
  ASSUME TypeOK, NEW t \in Threads, StageOrder(t), pkt_queue[t] # <<>>
  PROVE  LET h == Head(pkt_queue[t])
         IN  /\ h \in 1..arrived /\ h \in 1..Len(trace) /\ h \in Nat
             /\ h \in Elems(pkt_queue[t])
             /\ trace[h] \in Packet
<1> DEFINE q == pkt_queue[t]
           h == Head(q)
<1>1. q \in Seq(Nat) /\ q # <<>>
  BY DEF TypeOK, ThreadType
<1>2. h \in Elems(q)
  <2> HIDE DEF q
  <2> QED
    BY <1>1, TailElems
<1>3. h \in 1..arrived
  BY <1>2 DEF StageOrder, Ids
<1> HIDE DEF q, h
<1>4. arrived \in 0..Len(trace) /\ trace \in Seq(Packet) /\ Len(trace) \in Nat
  BY DEF TypeOK, KernelType
<1>5. h \in 1..Len(trace) /\ h \in Nat
  BY <1>3, <1>4
<1>6. trace[h] \in Packet
  BY <1>4, <1>5
<1> QED
  BY <1>2, <1>3, <1>5, <1>6 DEF q, h

LEMMA PortRange ==
  ASSUME NEW n \in Port
  PROVE  n \in Nat /\ n \in Int /\ 0 <= n /\ n <= 65535
  BY DEF Port


\* The fields of a packet
LEMMA PacketFields ==
  ASSUME NEW p \in Packet
  PROVE  /\ p.src \in Nat /\ p.dst \in Nat /\ p.vlan \in Nat
         /\ p.sport \in Port /\ p.dport \in Port /\ p.beyond \in Nat
         /\ p.sport \in Nat /\ p.dport \in Nat
         /\ p.proto \in {"tcp", "udp", "icmp"}
         /\ p.flags \in {"", "syn", "synack"}
         /\ p.reject \in {"", "silent", "link", "net"}
<1>1. p.sport \in Port /\ p.dport \in Port
  BY DEF Packet
<1>2. p.sport \in Nat /\ p.dport \in Nat
  BY <1>1, PortRange
<1>3. /\ p.src \in Nat /\ p.dst \in Nat /\ p.vlan \in Nat /\ p.beyond \in Nat
      /\ p.proto \in {"tcp", "udp", "icmp"}
      /\ p.flags \in {"", "syn", "synack"}
      /\ p.reject \in {"", "silent", "link", "net"}
  BY DEF Packet
<1> QED
  BY <1>1, <1>2, <1>3

\* A digest is made of the packet, the thread's interface and a VLAN.
LEMMA HashTyped ==
  ASSUME NEW p \in Packet, NEW t \in Threads, NEW v \in Nat
  PROVE  Hash(Device(t), v, p) \in Key
<1>1. /\ <<p.src, p.sport>> \in Nat \X Nat /\ <<p.dst, p.dport>> \in Nat \X Nat
      /\ p.proto \in {"tcp", "udp", "icmp"}
  BY PacketFields
<1>2. Device(t) \in Threads \cup {"interface"}
  BY DEF Device
<1> QED
  BY <1>1, <1>2 DEF Hash, Key

\* Processing a packet: the ways through ProcessPacket, in common
LEMMA ProcessCases ==
  ASSUME TypeOK, NEW t \in Threads, StageOrder(t),
         RejectLink(t) \/ RejectNet(t) \/ DropFlow(t) \/ CountFlow(t)
  PROVE  LET h == Head(pkt_queue[t])
             p == trace[h]
             v == Vlan(t, p)
         IN  /\ pc[t] \in {"process", "due"} /\ pkt_queue[t] # <<>>
             /\ p \in Packet /\ v \in Nat
             /\ pc' = [pc EXCEPT ![t] = "process"]
             /\ pkt_queue' = [pkt_queue EXCEPT ![t] = Tail(pkt_queue[t])]
             /\ vlan_id' = vlan_id \/ vlan_id' = [vlan_id EXCEPT ![t] = v]
             /\ \E key \in Key \cup {NULL}, admitted \in BOOLEAN :
                  log' = Append(log, [thread |-> t, id |-> h, key |-> key,
                                      admitted |-> admitted])
             /\ UNCHANGED <<type, kernelVars, lock, it_block, block, copied,
                            reg, dropped, pcs_last, updateVars>>
<1> DEFINE h == Head(pkt_queue[t])
           p == trace[h]
           v == Vlan(t, p)
           k == Hash(Device(t), v, p)
<1>1. PICK key \in {NULL, k}, admitted \in BOOLEAN : Processed(t, key, admitted)
  BY DEF RejectLink, RejectNet, DropFlow, CountFlow
<1>2. pc[t] \in {"process", "due"} /\ pkt_queue[t] # <<>>
  BY <1>1 DEF Processed
<1>3. p \in Packet
  BY <1>2, HeadOfQueue
<1>4. v \in Nat
  BY <1>3, PacketFields DEF Vlan, TypeOK, ThreadType
<1>5. k \in Key
  <2> HIDE DEF p, v
  <2> QED
    BY <1>3, <1>4, HashTyped
<1>6. vlan_id' = vlan_id \/ vlan_id' = [vlan_id EXCEPT ![t] = v]
  BY DEF RejectLink, RejectNet, DropFlow, CountFlow
<1>7. /\ pc' = [pc EXCEPT ![t] = "process"]
      /\ pkt_queue' = [pkt_queue EXCEPT ![t] = Tail(pkt_queue[t])]
      /\ log' = Append(log, [thread |-> t, id |-> h, key |-> key,
                             admitted |-> admitted])
      /\ UNCHANGED <<type, kernelVars, lock, it_block, block, copied,
                     reg, dropped, pcs_last, updateVars>>
  BY <1>1 DEF Processed
<1> HIDE DEF h, p, v, k
<1>8. key \in Key \cup {NULL}
  BY <1>1, <1>5
<1> QED
  BY <1>2, <1>3, <1>4, <1>6, <1>7, <1>8 DEF h, p, v

\* The program counters, locks and queues of the threads stay typed.
LEMMA ThreadTyped ==
  ASSUME TypeOK, \A t \in Threads : StageOrder(t), [Next]_vars
  PROVE  ThreadType'
<1> USE DEF ThreadType
<1>1. CASE UNCHANGED vars
  BY <1>1 DEF vars, copyVars, flowVars, TypeOK
<1>2. CASE Update \/ GetCaptureStats \/ AddStats \/ Updated
  BY <1>2 DEF Update, GetCaptureStats, AddStats, Updated, captureVars,
              copyVars, flowVars, TypeOK
<1>3. CASE LockForStats \/ ResetStats
  BY <1>3 DEF LockForStats, ResetStats, captureVars, copyVars, flowVars, TypeOK
<1>4. ASSUME NEW t \in Threads, Arrive(t) \/ Retire(t) PROVE ThreadType'
  BY <1>4 DEF Arrive, Retire, copyVars, flowVars, TypeOK
<1>5. ASSUME NEW t \in Threads, NextReady(t) PROVE ThreadType'
  <2>1. it_block[t] \in Blocks /\ NextBlock(it_block[t]) \in Blocks
    BY NextBlockIs DEF TypeOK
  <2> QED
    BY <1>5, <2>1 DEF NextReady, Goto, Places, flowVars, TypeOK
<1>6. ASSUME NEW t \in Threads, CopyPacket(t) PROVE ThreadType'
  <2> DEFINE s == ring[t][block[t]]
             i == s[copied[t] + 1]
  <2>1. Uncopied(t) # <<>> /\ copied[t] \in Nat /\ copied[t] < Len(s)
        /\ Head(Uncopied(t)) = i /\ s \in Seq(Nat) /\ Len(s) \in Nat
    BY <1>6, UncopiedIs DEF CopyPacket
  <2>2. i \in Nat
    <3> HIDE DEF s
    <3>1. copied[t] + 1 \in 1..Len(s)
      BY <2>1
    <3> QED
      BY <2>1, <3>1
  <2>3. Append(pkt_queue[t], i) \in Seq(Nat)
    <3>1. pkt_queue[t] \in Seq(Nat)
      BY DEF TypeOK
    <3> HIDE DEF i
    <3> QED
      BY <2>2, <3>1, AppendElems
  <2>4. /\ pc' = pc \/ pc' = [pc EXCEPT ![t] = "count"]
        /\ copied' = copied \/ copied' = [copied EXCEPT ![t] = copied[t] + 1]
        /\ \/ pkt_queue' = pkt_queue
           \/ pkt_queue' = [pkt_queue EXCEPT ![t] = Append(pkt_queue[t], i)]
        /\ UNCHANGED <<lock, it_block, block, vlan_id, log>>
    BY <1>6, <2>1 DEF CopyPacket, flowVars
  <2> HIDE DEF i, s
  <2>5. pkt_queue' \in [Threads -> Seq(Nat)]
    BY <2>3, <2>4 DEF TypeOK
  <2>6. pc' \in [Threads -> Places]
    BY <2>4 DEF Places, TypeOK
  <2>7. copied' \in [Threads -> Nat]
    BY <2>4 DEF TypeOK
  <2> QED
    BY <2>4, <2>5, <2>6, <2>7 DEF TypeOK
<1>7. ASSUME NEW t \in Threads,
             CountFiltered(t) \/ Release(t) \/ Overrun(t) \/ CountOverrun(t)
             \/ PcapClose(t) \/ OpenCapture(t) \/ End(t)
      PROVE  ThreadType'
  <2>1. /\ copied' = copied \/ copied' = [copied EXCEPT ![t] = copied[t] + 1]
        /\ UNCHANGED <<lock, it_block, block, pkt_queue, vlan_id, log>>
    BY <1>7 DEF CountFiltered, Release, Overrun, CountOverrun, PcapClose,
                OpenCapture, End, copyVars, flowVars
  <2>2. \/ pc' = [pc EXCEPT ![t] = "copy"] \/ pc' = [pc EXCEPT ![t] = "next"]
        \/ pc' = [pc EXCEPT ![t] = "lock"] \/ pc' = [pc EXCEPT ![t] = "overrun"]
        \/ pc' = [pc EXCEPT ![t] = "closed"] \/ pc' = [pc EXCEPT ![t] = "ended"]
    BY <1>7 DEF CountFiltered, Release, Overrun, CountOverrun, PcapClose,
                OpenCapture, End, Goto
  <2>3. pc' \in [Threads -> Places]
    BY <2>2 DEF TypeOK, Places
  <2>4. copied' \in [Threads -> Nat]
    <3>1. copied \in [Threads -> Nat]
      BY DEF TypeOK
    <3> QED
      BY <2>1, <3>1
  <2> QED
    BY <2>1, <2>3, <2>4 DEF TypeOK
<1>8. ASSUME NEW t \in Threads,
             LockThread(t) \/ Delay(t) \/ Delayed(t) \/ UnlockThread(t)
      PROVE  ThreadType'
  <2>1. /\ \/ lock' = [lock EXCEPT ![t] = t]
           \/ lock' = [lock EXCEPT ![t] = NULL]
        /\ UNCHANGED <<it_block, block, copied, pkt_queue, vlan_id, log>>
    BY <1>8 DEF LockThread, Delay, Delayed, UnlockThread, copyVars, flowVars
  <2>2. \/ pc' = [pc EXCEPT ![t] = "process"] \/ pc' = [pc EXCEPT ![t] = "delay"]
        \/ pc' = [pc EXCEPT ![t] = "due"] \/ pc' = [pc EXCEPT ![t] = "next"]
    BY <1>8 DEF LockThread, Delay, Delayed, UnlockThread, Goto
  <2>3. pc' \in [Threads -> Places]
    BY <2>2 DEF TypeOK, Places
  <2> QED
    BY <2>1, <2>3 DEF TypeOK
<1>9. ASSUME NEW t \in Threads, Receive(t) \/ ReceiveFails(t)
      PROVE  ThreadType'
  <2>1. sock[t] \in Seq(Nat) /\ sock[t] # <<>>
    BY <1>9 DEF Receive, ReceiveFails, TypeOK, KernelType
  <2>2. <<Head(sock[t])>> \in Seq(Nat)
    BY <2>1
  <2>3. /\ \E p \in Places : pc' = [pc EXCEPT ![t] = p]
        /\ pkt_queue' = [pkt_queue EXCEPT ![t] = <<Head(sock[t])>>]
        /\ UNCHANGED <<lock, it_block, block, copied, vlan_id, log>>
    BY <1>9 DEF Receive, ReceiveFails, Goto, Places, flowVars
  <2> QED
    BY <2>2, <2>3 DEF TypeOK
<1>10. ASSUME NEW t \in Threads,
              RejectLink(t) \/ RejectNet(t) \/ DropFlow(t) \/ CountFlow(t)
       PROVE  ThreadType'
  <2> DEFINE h == Head(pkt_queue[t])
             v == Vlan(t, trace[h])
  <2>1. /\ pkt_queue[t] # <<>> /\ v \in Nat
        /\ pc' = [pc EXCEPT ![t] = "process"]
        /\ pkt_queue' = [pkt_queue EXCEPT ![t] = Tail(pkt_queue[t])]
        /\ vlan_id' = vlan_id \/ vlan_id' = [vlan_id EXCEPT ![t] = v]
        /\ UNCHANGED <<lock, it_block, block, copied>>
    BY <1>10, ProcessCases
  <2>2. h \in Nat
    BY <2>1, HeadOfQueue
  <2>3. PICK key \in Key \cup {NULL}, admitted \in BOOLEAN :
          log' = Append(log, [thread |-> t, id |-> h, key |-> key,
                              admitted |-> admitted])
    BY <1>10, ProcessCases
  <2> DEFINE e == [thread |-> t, id |-> h, key |-> key, admitted |-> admitted]
  <2> HIDE DEF h, v
  <2>4. log' \in Seq(LogEntry)
    <3>1. e \in LogEntry
      BY <2>2 DEF LogEntry
    <3> HIDE DEF e
    <3>2. log' = Append(log, e)
      BY <2>3 DEF e
    <3>3. log \in Seq(LogEntry)
      BY DEF TypeOK
    <3> QED
      BY <3>1, <3>2, <3>3
  <2>5. Tail(pkt_queue[t]) \in Seq(Nat)
    BY <2>1, TailElems DEF TypeOK
  <2>6. /\ pkt_queue' \in [Threads -> Seq(Nat)]
        /\ vlan_id' \in [Threads -> Nat]
        /\ pc' \in [Threads -> Places]
    BY <2>1, <2>5 DEF TypeOK, Places
  <2> QED
    BY <2>1, <2>4, <2>6 DEF TypeOK
<1> QED
  BY <1>1, <1>2, <1>3, <1>4, <1>5, <1>6, <1>7, <1>8, <1>9, <1>10
  DEF Next, Instance, Kernel, Capture, Fail

\* What Count adds
LEMMA CountIs ==
  ASSUME NEW s \in Stats, NEW r \in Nat, NEW i \in Nat, NEW d \in Nat,
         NEW f \in Nat
  PROVE  LET c == Count(s, r, i, d, f) IN
         /\ c \in Stats
         /\ c["raw"] = s["raw"] + r
         /\ c["ip"] = s["ip"] + i
         /\ c["discard"] = s["discard"] + d
         /\ c["dropped"] = s["dropped"]
<1>1. Count(s, r, i, d, f) =
        [x \in Counters |-> CASE x = "raw" -> s[x] + r
                              [] x = "ip" -> s[x] + i
                              [] x = "discard" -> s[x] + d
                              [] x = "flow_dropped" -> s[x] + f
                              [] OTHER -> s[x]]
  BY DEF Count, Stats, Counters
<1> QED
  BY <1>1 DEF Stats, Counters

\* The counters stay typed.
LEMMA CountTyped ==
  ASSUME TypeOK, Control, \A t \in Threads : StageOrder(t), [Next]_vars
  PROVE  CountType'
<1> USE DEF CountType
<1>1. CASE UNCHANGED vars
  BY <1>1 DEF vars, copyVars, updateVars, TypeOK
<1>2. CASE Update
  <2>1. NoStats \in Stats
    BY DEF NoStats, Stats
  <2> QED
    BY <1>2, <2>1 DEF Update, captureVars, copyVars, TypeOK
<1>3. CASE LockForStats
  <2>1. FirstOf(todo) \in todo
    BY <1>3 DEF LockForStats, FirstOf
  <2> QED
    BY <1>3, <2>1 DEF LockForStats, captureVars, copyVars, TypeOK
<1>4. CASE GetCaptureStats
  <2>1. asked \in Threads
    BY <1>4 DEF GetCaptureStats, Control
  <2>2. \E d \in Nat : stats' = [stats EXCEPT ![asked].dropped = d] \/ stats' = stats
    <3> DEFINE d == drops[asked] - IF pcs_last[asked] <= drops[asked]
                                   THEN pcs_last[asked] ELSE 0
    <3>1. drops[asked] \in Nat /\ d \in Nat
      BY <2>1 DEF TypeOK, KernelType
    <3>2. \/ stats' = stats
          \/ stats' = [stats EXCEPT ![asked].dropped = drops[asked]]
          \/ stats' = [stats EXCEPT ![asked].dropped = d]
      BY <1>4 DEF GetCaptureStats
    <3> HIDE DEF d
    <3> QED
      BY <3>1, <3>2
  <2>3. stats' \in [Threads -> Stats]
    BY <2>1, <2>2 DEF Stats, Counters, TypeOK
  <2>4. pcs_last' \in [Threads -> Nat]
    <3>1. \/ pcs_last' = pcs_last
          \/ pcs_last' = [pcs_last EXCEPT ![asked] = drops[asked]]
      BY <1>4 DEF GetCaptureStats
    <3>2. drops[asked] \in Nat
      BY <2>1 DEF TypeOK, KernelType
    <3> QED
      BY <3>1, <3>2 DEF TypeOK
  <2>5. pkt_stats' \in Stats
    <3>1. \/ pkt_stats' = pkt_stats
          \/ pkt_stats' = [pkt_stats EXCEPT !.dropped = dropped[asked]]
      BY <1>4 DEF GetCaptureStats
    <3>2. dropped[asked] \in Nat
      BY <2>1 DEF TypeOK
    <3> QED
      BY <3>1, <3>2 DEF TypeOK, Stats
  <2>6. UNCHANGED <<reg, pc, dropped, todo, asked, pkt_stats_global>>
        /\ upc' = "add"
    BY <1>4 DEF GetCaptureStats, captureVars, copyVars
  <2> QED
    BY <2>3, <2>4, <2>5, <2>6 DEF TypeOK
<1>5. CASE AddStats
  <2>1. asked \in Threads
    BY <1>5 DEF AddStats, Control
  <2>2. pkt_stats' \in Stats
    <3>1. stats[asked] \in Stats /\ pkt_stats \in Stats
      BY <2>1 DEF TypeOK
    <3>2. Plus(pkt_stats, stats[asked]) \in Stats
      BY <3>1 DEF Plus, Stats
    <3> QED
      BY <1>5, <3>2 DEF AddStats
  <2> QED
    BY <1>5, <2>1, <2>2 DEF AddStats, captureVars, copyVars, TypeOK
<1>6. CASE ResetStats
  <2>1. NoStats \in Stats
    BY DEF NoStats, Stats
  <2> QED
    BY <1>6, <2>1 DEF ResetStats, captureVars, copyVars, TypeOK
<1>7. CASE Updated
  <2>1. NoStats \in Stats
    BY DEF NoStats, Stats
  <2>2. Plus(pkt_stats_global, pkt_stats) \in Stats
    BY DEF Plus, Stats, TypeOK
  <2> QED
    BY <1>7, <2>1, <2>2 DEF Updated, captureVars, copyVars, TypeOK
<1>8. ASSUME NEW t \in Threads, CopyPacket(t) PROVE CountType'
  <2>1. /\ \/ pc' = pc /\ reg' = reg
           \/ /\ pc' = [pc EXCEPT ![t] = "count"]
              /\ reg' = [reg EXCEPT ![t] = stats[t]]
        /\ UNCHANGED <<stats, dropped, pcs_last, updateVars>>
    BY <1>8 DEF CopyPacket
  <2>2. stats[t] \in Stats
    BY DEF TypeOK
  <2> QED
    BY <2>1, <2>2 DEF updateVars, TypeOK, ThreadType
<1>9. ASSUME NEW t \in Threads, CountFiltered(t) PROVE CountType'
  <2>1. reg[t] \in Stats
    BY <1>9 DEF CountFiltered, Goto, TypeOK
  <2> DEFINE new == [stats[t] EXCEPT !.filtered = reg[t].filtered + 1,
                                     !.discard = reg[t].discard + 1]
  <2>2. new \in Stats
    <3>1. stats[t] \in Stats
      BY DEF TypeOK
    <3>2. reg[t].filtered + 1 \in Nat /\ reg[t].discard + 1 \in Nat
      BY <2>1 DEF Stats, Counters
    <3> QED
      BY <3>1, <3>2 DEF Stats
  <2>3. stats' = [stats EXCEPT ![t] = new]
    BY <1>9 DEF CountFiltered
  <2> HIDE DEF new
  <2>4. stats' \in [Threads -> Stats]
    BY <2>2, <2>3 DEF TypeOK
  <2> QED
    BY <1>9, <2>4 DEF CountFiltered, Goto, updateVars, TypeOK, ThreadType
<1>10. ASSUME NEW t \in Threads, Overrun(t) PROVE CountType'
  BY <1>10 DEF Overrun, Goto, updateVars, TypeOK, ThreadType
<1>11. ASSUME NEW t \in Threads, CountOverrun(t) PROVE CountType'
  <2>1. reg[t] \in Nat
    BY <1>11 DEF CountOverrun, Goto, TypeOK
  <2>2. dropped' \in [Threads -> Nat]
    BY <1>11, <2>1 DEF CountOverrun, TypeOK
  <2>3. \A u \in Threads : u # t => reg'[u] = reg[u] /\ pc'[u] = pc[u]
    BY <1>11 DEF CountOverrun, Goto, TypeOK, ThreadType
  <2>4. reg' = [u \in Threads |-> reg'[u]] /\ pc'[t] = "next"
    BY <1>11 DEF CountOverrun, Goto, TypeOK, ThreadType
  <2> QED
    BY <1>11, <2>2, <2>3, <2>4 DEF CountOverrun, updateVars, TypeOK
<1>12. ASSUME NEW t \in Threads,
              RejectLink(t) \/ RejectNet(t) \/ DropFlow(t) \/ CountFlow(t)
       PROVE  CountType'
  <2>1. /\ pkt_queue[t] # <<>> /\ trace[Head(pkt_queue[t])] \in Packet
        /\ pc' = [pc EXCEPT ![t] = "process"]
        /\ UNCHANGED <<reg, dropped, pcs_last, updateVars>>
    BY <1>12, ProcessCases
  <2> DEFINE p == trace[Head(pkt_queue[t])]
  <2>2. \E r, i, d, f \in Nat :
          stats' = [stats EXCEPT ![t] = Count(stats[t], r, i, d, f)]
    <3>1. p.beyond \in Nat /\ p.beyond + 1 \in Nat
      <4>1. p \in Packet
        BY <2>1
      <4> HIDE DEF p
      <4>2. p.beyond \in Nat
        BY <4>1, PacketFields
      <4> QED
        BY <4>2
    <3>2. \/ stats' = [stats EXCEPT ![t] = Count(stats[t], 1, 0, 1, 0)]
          \/ stats' = [stats EXCEPT ![t] = Count(stats[t], 1, 0, 0, 0)]
          \/ stats' = [stats EXCEPT ![t] = Count(stats[t], 1, 0, p.beyond + 1, 0)]
          \/ stats' = [stats EXCEPT ![t] = Count(stats[t], 1, 0, p.beyond + 1, 1)]
          \/ stats' = [stats EXCEPT ![t] = Count(stats[t], 1, 1, p.beyond, 0)]
      BY <1>12 DEF RejectLink, RejectNet, DropFlow, CountFlow
    <3> HIDE DEF p
    <3> QED
      BY <3>1, <3>2
  <2>3. \A r, i, d, f \in Nat : Count(stats[t], r, i, d, f) \in Stats
    <3>1. stats[t] \in Stats
      BY DEF TypeOK
    <3> QED
      BY <3>1, CountIs
  <2>4. stats' \in [Threads -> Stats]
    BY <2>2, <2>3 DEF TypeOK
  <2> QED
    BY <2>1, <2>4 DEF updateVars, TypeOK, ThreadType
<1>13. ASSUME NEW t \in Threads,
              Arrive(t) \/ Retire(t) \/ NextReady(t) \/ Release(t)
              \/ Receive(t) \/ ReceiveFails(t) \/ PcapClose(t)
              \/ OpenCapture(t) \/ End(t)
       PROVE  CountType'
  <2>1. UNCHANGED <<reg, stats, dropped, pcs_last, updateVars>>
    BY <1>13 DEF Arrive, Retire, NextReady, Release, Receive, ReceiveFails,
                 PcapClose, OpenCapture, End, copyVars
  <2>2. /\ \A u \in Threads : pc'[u] = "count" => pc[u] = "count"
        /\ \A u \in Threads : pc'[u] = "overrun" => pc[u] = "overrun"
    BY <1>13 DEF Arrive, Retire, NextReady, Release, Receive, ReceiveFails,
                 PcapClose, OpenCapture, End, Goto, TypeOK, ThreadType
  <2> QED
    BY <2>1, <2>2 DEF updateVars, TypeOK
<1>14. ASSUME NEW t \in Threads,
              LockThread(t) \/ Delay(t) \/ Delayed(t) \/ UnlockThread(t)
       PROVE  CountType'
  <2>1. UNCHANGED <<reg, stats, dropped, pcs_last, updateVars>>
    BY <1>14 DEF LockThread, Delay, Delayed, UnlockThread, copyVars
  <2>2. /\ \A u \in Threads : pc'[u] = "count" => pc[u] = "count"
        /\ \A u \in Threads : pc'[u] = "overrun" => pc[u] = "overrun"
    BY <1>14 DEF LockThread, Delay, Delayed, UnlockThread, Goto, TypeOK,
                 ThreadType
  <2> QED
    BY <2>1, <2>2 DEF updateVars, TypeOK
<1> QED
  BY <1>1, <1>2, <1>3, <1>4, <1>5, <1>6, <1>7, <1>8, <1>9, <1>10, <1>11,
     <1>12, <1>13, <1>14
  DEF Next, Instance, Kernel, Capture, Fail

-----------------------------------------------------------------------------
\* Locks and back ends

\* A thread holds its lock while it processes packets, and the instance
\* thread while it asks for counters.
LEMMA LocksKept ==
  ASSUME TypeOK, Control, [Next]_vars
  PROVE  /\ \A t \in Threads : pc'[t] \in {"process", "due"} => lock'[t] = t
         /\ upc' \in {"get", "add", "reset"} =>
              asked' \in Threads /\ lock'[asked'] = "update"
<1> DEFINE Goal == /\ \A t \in Threads :
                        pc'[t] \in {"process", "due"} => lock'[t] = t
                   /\ upc' \in {"get", "add", "reset"} =>
                        asked' \in Threads /\ lock'[asked'] = "update"
<1>1. /\ pc \in [Threads -> Places]
      /\ lock \in [Threads -> Threads \cup {NULL, "update"}]
      /\ todo \in SUBSET Threads
      /\ \A t \in Threads : pc[t] \in {"process", "due"} => lock[t] = t
      /\ upc \in {"get", "add", "reset"} =>
           asked \in Threads /\ lock[asked] = "update"
      /\ "update" \notin Threads /\ NULL \notin Threads
      /\ NULL # "update"
  BY CaptureAssumption DEF TypeOK, ThreadType, CountType, Control
<1>2. CASE UNCHANGED <<pc, lock, upc, asked>>
  BY <1>1, <1>2
<1>3. CASE Update \/ GetCaptureStats \/ AddStats \/ Updated
  BY <1>1, <1>3 DEF Update, GetCaptureStats, AddStats, Updated, captureVars
<1>4. CASE LockForStats
  <2>1. FirstOf(todo) \in todo
    BY <1>4 DEF LockForStats, FirstOf
  <2> QED
    BY <1>1, <1>4, <2>1 DEF LockForStats, captureVars
<1>5. CASE ResetStats
  BY <1>1, <1>5 DEF ResetStats, captureVars
<1>6. ASSUME NEW t \in Threads,
             NextReady(t) \/ CopyPacket(t) \/ CountFiltered(t) \/ Release(t)
             \/ Receive(t) \/ ReceiveFails(t) \/ Overrun(t)
             \/ CountOverrun(t) \/ PcapClose(t) \/ OpenCapture(t) \/ End(t)
      PROVE  Goal
  <2>1. UNCHANGED <<lock, upc, asked>>
    BY <1>6 DEF NextReady, CopyPacket, CountFiltered, Release, Receive,
                ReceiveFails, Overrun, CountOverrun, PcapClose, OpenCapture,
                End, updateVars
  <2>2. \/ pc' = pc
        \/ pc' = [pc EXCEPT ![t] = "copy"] \/ pc' = [pc EXCEPT ![t] = "next"]
        \/ pc' = [pc EXCEPT ![t] = "lock"] \/ pc' = [pc EXCEPT ![t] = "overrun"]
        \/ pc' = [pc EXCEPT ![t] = "count"]
        \/ pc' = [pc EXCEPT ![t] = "closed"] \/ pc' = [pc EXCEPT ![t] = "ended"]
    BY <1>6 DEF NextReady, CopyPacket, CountFiltered, Release, Receive,
                ReceiveFails, Overrun, CountOverrun, PcapClose, OpenCapture,
                End, Goto
  <2> QED
    BY <1>1, <2>1, <2>2
<1>7. ASSUME NEW t \in Threads,
             LockThread(t) \/ Delay(t) \/ Delayed(t) \/ UnlockThread(t)
      PROVE  Goal
  BY <1>1, <1>7 DEF LockThread, Delay, Delayed, UnlockThread, Goto, updateVars
<1>8. ASSUME NEW t \in Threads,
             RejectLink(t) \/ RejectNet(t) \/ DropFlow(t) \/ CountFlow(t)
      PROVE  Goal
  BY <1>1, <1>8 DEF RejectLink, RejectNet, DropFlow, CountFlow, Processed,
                    updateVars
<1>9. ASSUME NEW t \in Threads, Arrive(t) \/ Retire(t) PROVE Goal
  BY <1>1, <1>9 DEF Arrive, Retire, updateVars
<1> QED
  BY <1>2, <1>3, <1>4, <1>5, <1>6, <1>7, <1>8, <1>9
  DEF vars, updateVars, Next, Instance, Kernel, Capture, Fail

\* A step that leaves the packets of thread t where they are
Still(t) ==
  /\ UNCHANGED <<type, trace>>
  /\ arrived' \in Nat /\ arrived <= arrived'
  /\ UNCHANGED <<ring[t], status[t], kblock[t], sock[t], it_block[t],
                 block[t], copied[t], pkt_queue[t]>>
  /\ Copying(t)' <=> Copying(t)
  /\ pc'[t] = "count" => pc[t] = "count"
  /\ \/ log' = log
     \/ \E e \in LogEntry : e.thread # t /\ log' = Append(log, e)

\* The steps that move packets of thread t
Moves(t) ==
  \/ Arrive(t) \/ Retire(t) \/ NextReady(t) \/ CopyPacket(t)
  \/ CountFiltered(t) \/ Release(t) \/ Receive(t) \/ ReceiveFails(t)
  \/ PcapClose(t) \/ RejectLink(t) \/ RejectNet(t) \/ DropFlow(t)
  \/ CountFlow(t)

LEMMA StillOrMoves ==
  ASSUME TypeOK, \A u \in Threads : StageOrder(u), [Next]_vars,
         NEW t \in Threads
  PROVE  Still(t) \/ Moves(t)
<1>1. /\ arrived \in Nat
      /\ ring \in [Threads -> [Blocks -> Seq(Nat)]]
      /\ status \in [Threads -> [Blocks -> {"kernel", "user"}]]
      /\ kblock \in [Threads -> Blocks]
      /\ sock \in [Threads -> Seq(Nat)]
      /\ pc \in [Threads -> Places]
      /\ it_block \in [Threads -> Blocks]
      /\ block \in [Threads -> Blocks]
      /\ copied \in [Threads -> Nat]
      /\ pkt_queue \in [Threads -> Seq(Nat)]
  BY DEF TypeOK, KernelType, ThreadType
<1>2. CASE UNCHANGED vars
  BY <1>1, <1>2 DEF vars, kernelVars, copyVars, flowVars, Still, Copying
<1>3. CASE Instance
  BY <1>1, <1>3 DEF Instance, Update, LockForStats, GetCaptureStats, AddStats,
                    ResetStats, Updated, captureVars, copyVars, flowVars,
                    Still, Copying
<1>4. ASSUME NEW u \in Threads,
             LockThread(u) \/ Delay(u) \/ Delayed(u) \/ UnlockThread(u)
             \/ Overrun(u) \/ CountOverrun(u) \/ OpenCapture(u) \/ End(u)
      PROVE  Still(t)
  <2>1. UNCHANGED <<type, trace, arrived, ring, status, kblock, sock,
                    it_block, block, copied, pkt_queue, log>>
    BY <1>4 DEF LockThread, Delay, Delayed, UnlockThread, Overrun,
                CountOverrun, OpenCapture, End, kernelVars, copyVars, flowVars
  <2>2. /\ ~Copying(u)
        /\ \/ pc' = [pc EXCEPT ![u] = "process"]
           \/ pc' = [pc EXCEPT ![u] = "delay"]
           \/ pc' = [pc EXCEPT ![u] = "due"]
           \/ pc' = [pc EXCEPT ![u] = "next"]
           \/ pc' = [pc EXCEPT ![u] = "overrun"]
           \/ pc' = [pc EXCEPT ![u] = "ended"]
    BY <1>4 DEF LockThread, Delay, Delayed, UnlockThread, Overrun,
                CountOverrun, OpenCapture, End, Goto, Copying
  <2>3. (Copying(t)' <=> Copying(t)) /\ (pc'[t] = "count" => pc[t] = "count")
    BY <1>1, <2>2 DEF Copying
  <2> QED
    BY <1>1, <2>1, <2>3 DEF Still
<1>5. ASSUME NEW u \in Threads, Moves(u), u # t PROVE Still(t)
  <2>1. CASE Arrive(u)
    <3>1. /\ arrived' = arrived + 1
          /\ UNCHANGED <<type, trace, pc, it_block, block, copied, pkt_queue,
                         log>>
      BY <2>1 DEF Arrive, copyVars, flowVars
    <3>2. UNCHANGED <<ring[t], status[t], kblock[t], sock[t]>>
      BY <1>1, <1>5, <2>1 DEF Arrive, ArriveRing, ArriveSocket
    <3>3. arrived' \in Nat /\ arrived <= arrived'
      BY <1>1, <3>1
    <3>4. /\ UNCHANGED <<it_block[t], block[t], copied[t], pkt_queue[t]>>
          /\ Copying(t)' <=> Copying(t)
          /\ pc'[t] = "count" => pc[t] = "count"
      BY <3>1 DEF Copying
    <3> QED
      BY <3>1, <3>2, <3>3, <3>4 DEF Still
  <2>2. CASE Retire(u) \/ NextReady(u) \/ CopyPacket(u) \/ CountFiltered(u)
             \/ Release(u)
    <3>1. UNCHANGED <<type, trace, arrived, sock, log>>
      BY <2>2 DEF Retire, NextReady, CopyPacket, CountFiltered, Release,
                  kernelVars, flowVars
    <3>2. UNCHANGED <<ring[t], status[t], kblock[t], it_block[t]>>
      BY <1>1, <1>5, <2>2 DEF Retire, NextReady, CopyPacket, CountFiltered,
                  Release, kernelVars, copyVars
    <3>3. UNCHANGED <<block[t], copied[t], pkt_queue[t], pc[t]>>
      BY <1>1, <1>5, <2>2 DEF Retire, NextReady, CopyPacket, CountFiltered,
                  Release, kernelVars, copyVars, Goto
    <3> QED
      BY <1>1, <3>1, <3>2, <3>3 DEF Still, Copying
  <2>3. CASE Receive(u) \/ ReceiveFails(u) \/ PcapClose(u)
    <3>1. UNCHANGED <<type, trace, arrived, log, ring, status, kblock,
                      it_block, block, copied>>
      BY <2>3 DEF Receive, ReceiveFails, PcapClose, copyVars, flowVars
    <3>2. UNCHANGED <<sock[t], pkt_queue[t], pc[t]>>
      BY <1>1, <1>5, <2>3 DEF Receive, ReceiveFails, PcapClose, copyVars, Goto
    <3> QED
      BY <1>1, <3>1, <3>2 DEF Still, Copying
  <2>4. CASE RejectLink(u) \/ RejectNet(u) \/ DropFlow(u) \/ CountFlow(u)
    <3>1. /\ UNCHANGED <<type, trace, arrived, ring, status, kblock, sock,
                         it_block, block, copied>>
          /\ pc' = [pc EXCEPT ![u] = "process"]
          /\ pkt_queue' = [pkt_queue EXCEPT ![u] = Tail(pkt_queue[u])]
          /\ pkt_queue[u] # <<>>
      BY <2>4, ProcessCases DEF kernelVars
    <3>2. PICK key \in Key \cup {NULL}, admitted \in BOOLEAN :
            log' = Append(log, [thread |-> u, id |-> Head(pkt_queue[u]),
                                key |-> key, admitted |-> admitted])
      BY <2>4, ProcessCases
    <3>3. Head(pkt_queue[u]) \in Nat
      BY <3>1, HeadOfQueue
    <3> DEFINE e == [thread |-> u, id |-> Head(pkt_queue[u]),
                     key |-> key, admitted |-> admitted]
    <3>4. e \in LogEntry /\ e.thread # t
      BY <1>5, <3>3 DEF LogEntry
    <3>5. log' = Append(log, e)
      BY <3>2
    <3> HIDE DEF e
    <3>6. \E f \in LogEntry : f.thread # t /\ log' = Append(log, f)
      BY <3>4, <3>5
    <3>7. UNCHANGED <<pkt_queue[t], pc[t]>>
      BY <1>1, <1>5, <3>1
    <3>8. (Copying(t)' <=> Copying(t)) /\ (pc'[t] = "count" => pc[t] = "count")
      BY <3>7 DEF Copying
    <3>9. /\ UNCHANGED <<type, trace>>
          /\ arrived' \in Nat /\ arrived <= arrived'
          /\ UNCHANGED <<ring[t], status[t], kblock[t], sock[t], it_block[t],
                         block[t], copied[t], pkt_queue[t]>>
      BY <1>1, <3>1, <3>7
    <3> QED
      BY <3>6, <3>8, <3>9 DEF Still
  <2> QED
    BY <1>5, <2>1, <2>2, <2>3, <2>4 DEF Moves
<1>6. ASSUME NEW u \in Threads, Kernel(u) \/ Capture(u) \/ Fail(u)
      PROVE  Still(t) \/ Moves(t)
  <2>1. CASE Moves(u)
    BY <1>5, <2>1
  <2>2. CASE ~Moves(u)
    BY <1>4, <1>6, <2>2 DEF Moves, Kernel, Capture, Fail
  <2> QED
    BY <2>1, <2>2
<1> QED
  BY <1>2, <1>3, <1>6 DEF Next

\* A thread that waits for packets has processed all that it copied.
LEMMA QueuesKept ==
  ASSUME TypeOK, Control, [Next]_vars, NEW t \in Threads,
         pc'[t] \in {"none", "closed", "next", "overrun"}
  PROVE  pkt_queue'[t] = <<>>
<1>1. /\ pc \in [Threads -> Places]
      /\ pkt_queue \in [Threads -> Seq(Nat)]
      /\ pc[t] \in {"none", "closed", "next", "overrun"} =>
           pkt_queue[t] = <<>>
  BY DEF TypeOK, ThreadType, Control
<1>2. CASE UNCHANGED <<pc, pkt_queue>>
  BY <1>1, <1>2
<1>3. CASE Instance
  BY <1>1, <1>3 DEF Instance, Update, LockForStats, GetCaptureStats, AddStats,
                    ResetStats, Updated, captureVars, copyVars
<1>4. ASSUME NEW u \in Threads,
             Arrive(u) \/ Retire(u) \/ NextReady(u) \/ CountFiltered(u)
             \/ Release(u) \/ Overrun(u) \/ CountOverrun(u) \/ PcapClose(u)
             \/ OpenCapture(u) \/ End(u)
      PROVE  pkt_queue'[t] = <<>>
  <2>1. pkt_queue' = pkt_queue
    BY <1>4 DEF Arrive, Retire, NextReady, CountFiltered, Release, Overrun,
                CountOverrun, PcapClose, OpenCapture, End, copyVars
  <2>2. pc[t] \in {"none", "closed", "next", "overrun"} \/ pkt_queue[t] = <<>>
    BY <1>1, <1>4 DEF Arrive, Retire, NextReady, CountFiltered, Release,
                Overrun, CountOverrun, PcapClose, OpenCapture, End, Goto
  <2> QED
    BY <1>1, <2>1, <2>2
<1>5. ASSUME NEW u \in Threads,
             LockThread(u) \/ Delay(u) \/ Delayed(u) \/ UnlockThread(u)
      PROVE  pkt_queue'[t] = <<>>
  BY <1>1, <1>5 DEF LockThread, Delay, Delayed, UnlockThread, Goto, copyVars
<1>6. ASSUME NEW u \in Threads,
             CopyPacket(u) \/ Receive(u) \/ ReceiveFails(u)
             \/ RejectLink(u) \/ RejectNet(u) \/ DropFlow(u) \/ CountFlow(u)
      PROVE  pkt_queue'[t] = <<>>
  <2>1. u # t
    BY <1>1, <1>6 DEF CopyPacket, Receive, ReceiveFails, RejectLink,
                RejectNet, DropFlow, CountFlow, Processed, Goto
  <2>2. pkt_queue'[t] = pkt_queue[t] /\ pc'[t] = pc[t]
    BY <1>1, <1>6, <2>1 DEF CopyPacket, Receive, ReceiveFails, RejectLink,
                RejectNet, DropFlow, CountFlow, Processed, Goto
  <2> QED
    BY <1>1, <2>2
<1> QED
  BY <1>2, <1>3, <1>4, <1>5, <1>6
  DEF vars, copyVars, Next, Kernel, Capture, Fail

\* TPACKET_V3 uses the ring and no socket, the others a socket and no ring.
LEMMA BackEndsKept ==
  ASSUME TypeOK, Control, \A u \in Threads : StageOrder(u), [Next]_vars,
         NEW t \in Threads
  PROVE  /\ type' = type
         /\ Copying(t)' => type = "tpv3"
         /\ type = "tpv3" => sock'[t] = <<>> /\ ~overrun'[t]
         /\ type # "tpv3" => \A b \in Blocks : ring'[t][b] = <<>>
<1> DEFINE Empty(r) == \A b \in Blocks : r[b] = <<>>
<1>1. /\ Copying(t) => type = "tpv3"
      /\ type = "tpv3" => sock[t] = <<>>
      /\ type = "tpv3" => ~overrun[t]
      /\ type # "tpv3" => Empty(ring[t])
  BY DEF Control
<1>2. /\ overrun \in [Threads -> BOOLEAN] /\ sock \in [Threads -> Seq(Nat)]
      /\ pc \in [Threads -> Places]
      /\ ring \in [Threads -> [Blocks -> Seq(Nat)]]
      /\ block \in [Threads -> Blocks]
  BY DEF TypeOK, KernelType, ThreadType
<1> HIDE DEF Empty
<1>3. type' = type
  <2>1. ASSUME NEW u \in Threads, Still(u) PROVE type' = type
    BY <2>1 DEF Still
  <2>2. ASSUME NEW u \in Threads, Moves(u) PROVE type' = type
    BY <2>2 DEF Moves, Arrive, Retire, NextReady, CopyPacket, CountFiltered,
                Release, Receive, ReceiveFails, PcapClose, RejectLink,
                RejectNet, DropFlow, CountFlow, Processed
  <2> QED
    BY <2>1, <2>2, StillOrMoves
<1>4. Copying(t)' => type = "tpv3"
  <2>1. CASE Still(t)
    BY <1>1, <2>1 DEF Still
  <2>2. CASE NextReady(t)
    BY <2>2 DEF NextReady
  <2>3. CASE Moves(t) /\ ~NextReady(t)
    <3>1. Copying(t)' => Copying(t)
      BY <1>2, <2>3 DEF Moves, Arrive, Retire, CopyPacket, CountFiltered,
                Release, Receive, ReceiveFails, PcapClose, RejectLink,
                RejectNet, DropFlow, CountFlow, Processed, Goto, Copying
    <3> QED
      BY <1>1, <3>1
  <2> QED
    BY <2>1, <2>2, <2>3, StillOrMoves
<1>5. type = "tpv3" => sock'[t] = <<>>
  <2>1. CASE Still(t)
    BY <1>1, <2>1 DEF Still
  <2>2. CASE Arrive(t)
    BY <1>1, <2>2 DEF Arrive, ArriveRing
  <2>3. CASE Moves(t) /\ ~Arrive(t)
    <3>1. sock' = sock \/ sock[t] # <<>> \/ sock'[t] = <<>>
      BY <1>2, <2>3 DEF Moves, Retire, NextReady, CopyPacket, CountFiltered,
                Release, Receive, ReceiveFails, PcapClose, RejectLink,
                RejectNet, DropFlow, CountFlow, Processed, kernelVars
    <3> QED
      BY <1>1, <3>1
  <2> QED
    BY <2>1, <2>2, <2>3, StillOrMoves
<1>6. ASSUME type = "tpv3" PROVE ~overrun'[t]
  <2>1. overrun' = overrun \/ \E u \in Threads : Overrun(u)
    <3>1. ASSUME NEW u \in Threads, Arrive(u) PROVE overrun' = overrun
      BY <1>6, <3>1 DEF Arrive, ArriveRing
    <3>2. ASSUME NEW u \in Threads,
                 Retire(u) \/ Release(u) \/ Receive(u) \/ ReceiveFails(u)
                 \/ PcapClose(u)
          PROVE  overrun' = overrun
      BY <3>2 DEF Retire, Release, Receive, ReceiveFails, PcapClose
    <3> QED
      BY <3>1, <3>2, KernelFrame DEF kernelVars, GetCaptureStats, captureVars
  <2>2. ASSUME NEW u \in Threads, Overrun(u) PROVE ~overrun'[t]
    <3>1. overrun' = [overrun EXCEPT ![u] = FALSE]
      BY <2>2 DEF Overrun
    <3> QED
      BY <1>1, <1>2, <1>6, <3>1
  <2>3. CASE overrun' = overrun
    BY <1>1, <1>6, <2>3
  <2> QED
    BY <2>1, <2>2, <2>3
<1>7. ASSUME type # "tpv3" PROVE Empty(ring'[t])
  <2>1. CASE Still(t)
    BY <1>1, <1>7, <2>1 DEF Still
  <2>2. CASE Arrive(t)
    <3>1. ring' = ring
      BY <1>7, <2>2 DEF Arrive, ArriveSocket
    <3> QED
      BY <1>1, <1>7, <3>1
  <2>3. CASE Release(t)
    <3>1. ring' = [ring EXCEPT ![t][block[t]] = <<>>]
      BY <2>3 DEF Release
    <3> QED
      BY <1>1, <1>2, <1>7, <3>1 DEF Empty
  <2>4. CASE Moves(t) /\ ~Arrive(t) /\ ~Release(t)
    <3>1. ring' = ring
      BY <2>4 DEF Moves, Retire, NextReady, CopyPacket, CountFiltered,
                Receive, ReceiveFails, PcapClose, RejectLink,
                RejectNet, DropFlow, CountFlow, Processed, kernelVars
    <3> QED
      BY <1>1, <1>7, <3>1
  <2> QED
    BY <2>1, <2>2, <2>3, <2>4, StillOrMoves
<1> QED
  BY <1>3, <1>4, <1>5, <1>6, <1>7 DEF Empty

LEMMA ControlKept ==
  ASSUME TypeOK, Control, \A t \in Threads : StageOrder(t), [Next]_vars
  PROVE  Control'
<1>1. ASSUME NEW t \in Threads
      PROVE  /\ pc'[t] \in {"process", "due"} => lock'[t] = t
             /\ pc'[t] \in {"none", "closed", "next", "overrun"} =>
                  pkt_queue'[t] = <<>>
             /\ Copying(t)' => type' = "tpv3"
             /\ type' = "tpv3" => sock'[t] = <<>> /\ ~overrun'[t]
             /\ type' # "tpv3" => \A b \in Blocks : ring'[t][b] = <<>>
  <2>1. pc'[t] \in {"process", "due"} => lock'[t] = t
    BY LocksKept
  <2>2. pc'[t] \in {"none", "closed", "next", "overrun"} =>
          pkt_queue'[t] = <<>>
    BY QueuesKept
  <2>3. /\ Copying(t)' => type' = "tpv3"
        /\ type' = "tpv3" => sock'[t] = <<>> /\ ~overrun'[t]
        /\ type' # "tpv3" => \A b \in Blocks : ring'[t][b] = <<>>
    BY BackEndsKept
  <2> QED
    BY <2>1, <2>2, <2>3
<1>2. upc' \in {"get", "add", "reset"} =>
        asked' \in Threads /\ lock'[asked'] = "update"
  BY LocksKept
<1> QED
  BY <1>1, <1>2 DEF Control

-----------------------------------------------------------------------------
\* The blocks of the ring

\* How many blocks b is ahead of the iterator "it"
Gap(it, b) == IF b >= it THEN b - it ELSE b + RingBlocks - it

LEMMA GapIs ==
  ASSUME NEW it \in Blocks, NEW b \in Blocks
  PROVE  /\ Gap(it, b) \in Blocks
         /\ Gap(it, b) = 0 <=> b = it
         /\ \A c \in Blocks : Gap(it, b) = Gap(it, c) => b = c
         /\ Gap(it, NextBlock(b)) =
              IF Gap(it, b) = RingBlocks - 1 THEN 0 ELSE Gap(it, b) + 1
         /\ Gap(NextBlock(it), b) =
              IF b = it THEN RingBlocks - 1 ELSE Gap(it, b) - 1
<1>1. RingBlocks \in Nat /\ RingBlocks > 0
  BY CaptureAssumption
<1>2. /\ it \in Nat /\ it < RingBlocks
      /\ b \in Nat /\ b < RingBlocks
  BY <1>1 DEF Blocks
<1>3. NextBlock(b) = IF b = RingBlocks - 1 THEN 0 ELSE b + 1
  BY NextBlockIs
<1>4. NextBlock(it) = IF it = RingBlocks - 1 THEN 0 ELSE it + 1
  BY NextBlockIs
<1>5. /\ Gap(it, b) \in Blocks
      /\ Gap(it, b) = 0 <=> b = it
      /\ \A c \in Blocks : Gap(it, b) = Gap(it, c) => b = c
  BY <1>1, <1>2 DEF Gap, Blocks
<1>6. Gap(it, NextBlock(b)) =
        IF Gap(it, b) = RingBlocks - 1 THEN 0 ELSE Gap(it, b) + 1
  BY <1>1, <1>2, <1>3 DEF Gap
<1>7. Gap(NextBlock(it), b) =
        IF b = it THEN RingBlocks - 1 ELSE Gap(it, b) - 1
  BY <1>1, <1>2, <1>4 DEF Gap
<1> QED
  BY <1>5, <1>6, <1>7

\* How far each block is ahead, from one step to the next
LEMMA AheadIs ==
  ASSUME TypeOK, NEW t \in Threads
  PROVE  /\ it_block[t] \in Blocks /\ kblock[t] \in Blocks
         /\ block[t] \in Blocks
         /\ \A b \in Blocks : /\ Ahead(t, b) = Gap(it_block[t], b)
                              /\ Ahead(t, b) \in Nat
                              /\ Ahead(t, b) < RingBlocks
<1>1. it_block[t] \in Blocks /\ kblock[t] \in Blocks /\ block[t] \in Blocks
  BY DEF TypeOK, KernelType, ThreadType
<1>2. ASSUME NEW b \in Blocks
      PROVE  /\ Ahead(t, b) = Gap(it_block[t], b)
             /\ Ahead(t, b) \in Nat
             /\ Ahead(t, b) < RingBlocks
  <2>1. Ahead(t, b) = Gap(it_block[t], b)
    BY DEF Ahead, Gap
  <2>2. Gap(it_block[t], b) \in Blocks
    BY <1>1, GapIs
  <2>3. Gap(it_block[t], b) \in Nat /\ Gap(it_block[t], b) < RingBlocks
    BY <2>2, CaptureAssumption DEF Blocks
  <2> QED
    BY <2>1, <2>3
<1> QED
  BY <1>1, <1>2

\* The kernel hands its block over and goes on to the next.
LEMMA OwnersHandOver ==
  ASSUME TypeOK, NEW t \in Threads, BlockOwners(t), KernelBlocks(t),
         status[t][kblock[t]] = "kernel",
         status' = [status EXCEPT ![t][kblock[t]] = "user"],
         kblock' = [kblock EXCEPT ![t] = NextBlock(kblock[t])],
         UNCHANGED <<pc, it_block, block>>,
         \A b \in Blocks : b # kblock[t] => ring'[t][b] = ring[t][b]
  PROVE  BlockOwners(t)' /\ KernelBlocks(t)'
<1> DEFINE it == it_block[t]
           k == kblock[t]
           n == NextBlock(k)
<1>1. it \in Blocks /\ k \in Blocks /\ block[t] \in Blocks
  BY AheadIs
<1>2. n \in Blocks
  BY <1>1, NextBlockIs
<1>3. /\ kblock'[t] = n /\ it_block'[t] = it /\ block'[t] = block[t]
      /\ status'[t][k] = "user"
      /\ \A b \in Blocks : b # k => status'[t][b] = status[t][b]
      /\ Copying(t)' <=> Copying(t)
  BY <1>1 DEF TypeOK, KernelType, Copying
<1>4. \A b \in Blocks : /\ Ahead(t, b) = Gap(it, b)
                        /\ Ahead(t, b)' = Gap(it, b)
                        /\ Gap(it, b) \in Nat /\ Gap(it, b) < RingBlocks
  <2>1. \A b \in Blocks : Ahead(t, b)' = Gap(it, b)
    BY <1>3 DEF Ahead, Gap
  <2> QED
    BY <2>1, AheadIs
<1>5. Gap(it, n) = IF Gap(it, k) = RingBlocks - 1 THEN 0 ELSE Gap(it, k) + 1
  BY <1>1, GapIs
<1>6. \A b \in Blocks : Gap(it, b) = Gap(it, k) => b = k
  BY <1>1, GapIs
<1>7. RingBlocks \in Nat
  BY CaptureAssumption
<1>8. /\ \A b \in Blocks : User(t, b)' <=> User(t, b) \/ b = k
      /\ \A b \in Blocks : Between(t, b) <=> Gap(it, b) < Gap(it, k)
      /\ \A b \in Blocks : Between(t, b)' <=> Gap(it, b) < Gap(it, n)
      /\ ~User(t, k)
  <2>1. \A b \in Blocks : User(t, b)' <=> User(t, b) \/ b = k
    BY <1>1, <1>3 DEF User
  <2>2. \A b \in Blocks : Between(t, b) <=> Gap(it, b) < Gap(it, k)
    BY <1>1, <1>4 DEF Between
  <2>3. \A b \in Blocks : Between(t, b)' <=> Gap(it, b) < Gap(it, n)
    <3>1. \A b \in Blocks : Between(t, b)' <=>
            Gap(it_block'[t], b) < Gap(it_block'[t], kblock'[t])
      BY DEF Between, Ahead, Gap
    <3> HIDE DEF n
    <3> QED
      BY <1>3, <3>1
  <2> QED
    BY <2>1, <2>2, <2>3 DEF User
<1> HIDE DEF it, k, n
<1>9. CASE Copying(t)
  <2>1. /\ it = NextBlock(block[t]) /\ User(t, block[t])
        /\ \A b \in Blocks \ {block[t]} : User(t, b) <=> Between(t, b)
    BY <1>9 DEF BlockOwners, it
  <2>2. block[t] # k
    BY <1>8, <2>1
  <2>3. Gap(it, block[t]) = RingBlocks - 1
    BY <1>1, <2>1, GapIs
  <2>4. Gap(it, k) # RingBlocks - 1
    BY <1>1, <1>6, <2>2, <2>3
  <2>5. ASSUME NEW b \in Blocks \ {block[t]}
        PROVE  User(t, b)' <=> Between(t, b)'
    BY <1>1, <1>4, <1>5, <1>6, <1>7, <1>8, <2>1, <2>4
  <2>6. User(t, block[t])'
    BY <1>1, <1>3, <1>8, <2>1 DEF User
  <2>7. BlockOwners(t)'
    BY <1>3, <1>9, <2>1, <2>5, <2>6 DEF BlockOwners, it
  <2>8. KernelBlocks(t)'
    BY <1>3, <1>8 DEF KernelBlocks, k
  <2> QED
    BY <2>7, <2>8
<1>10. CASE ~Copying(t)
  <2>1. \A b \in Blocks : User(t, b) <=> Between(t, b)
    BY <1>1, <1>8, <1>10 DEF BlockOwners
  <2>2. CASE Gap(it, k) = RingBlocks - 1
    <3>1. Gap(it, n) = 0
      BY <1>5, <2>2
    <3>2. n = it
      BY <1>1, <1>2, <3>1, GapIs
    <3>3. \A b \in Blocks : User(t, b)'
      BY <1>1, <1>4, <1>6, <1>7, <1>8, <2>1, <2>2
    <3> QED
      BY <1>3, <1>8, <1>10, <3>2, <3>3 DEF BlockOwners, KernelBlocks, it
  <2>3. CASE Gap(it, k) # RingBlocks - 1
    <3>1. \A b \in Blocks : User(t, b)' <=> Between(t, b)'
      BY <1>1, <1>4, <1>5, <1>6, <1>7, <1>8, <2>1, <2>3
    <3>2. BlockOwners(t)'
      BY <1>3, <1>10, <3>1 DEF BlockOwners
    <3>3. KernelBlocks(t)'
      BY <1>3, <1>8 DEF KernelBlocks, k
    <3> QED
      BY <3>2, <3>3
  <2> QED
    BY <2>2, <2>3
<1> QED
  BY <1>9, <1>10

\* The thread takes the next block.
LEMMA OwnersNext ==
  ASSUME TypeOK, NEW t \in Threads, BlockOwners(t), NextReady(t)
  PROVE  BlockOwners(t)'
<1> DEFINE it == it_block[t]
           k == kblock[t]
           n == NextBlock(it)
<1>1. it \in Blocks /\ k \in Blocks /\ block[t] \in Blocks
  BY AheadIs
<1>2. n \in Blocks
  BY <1>1, NextBlockIs
<1>3. /\ it_block'[t] = n /\ block'[t] = it
      /\ UNCHANGED <<kblock, status>>
      /\ ~Copying(t) /\ Copying(t)'
      /\ status[t][it] = "user"
  BY DEF NextReady, Goto, TypeOK, ThreadType, kernelVars, Copying
<1>4. \A b \in Blocks : /\ Ahead(t, b) = Gap(it, b)
                        /\ Ahead(t, b)' = Gap(n, b)
                        /\ Gap(it, b) \in Nat /\ Gap(it, b) < RingBlocks
  <2>1. \A b \in Blocks : Ahead(t, b)' = Gap(n, b)
    <3> HIDE DEF n
    <3> QED
      BY <1>3 DEF Ahead, Gap
  <2> QED
    BY <2>1, AheadIs
<1>5. \A b \in Blocks : /\ Gap(n, b) = IF b = it THEN RingBlocks - 1
                                       ELSE Gap(it, b) - 1
                        /\ Gap(it, b) = 0 <=> b = it
  BY <1>1, GapIs
<1>6. RingBlocks \in Nat
  BY CaptureAssumption
<1>7. /\ \A b \in Blocks : User(t, b)' <=> User(t, b)
      /\ \A b \in Blocks : Between(t, b) <=> Gap(it, b) < Gap(it, k)
      /\ \A b \in Blocks : Between(t, b)' <=> Gap(n, b) < Gap(n, k)
      /\ User(t, it)
  <2>1. \A b \in Blocks : User(t, b)' <=> User(t, b)
    BY <1>3 DEF User
  <2>2. \A b \in Blocks : Between(t, b) <=> Gap(it, b) < Gap(it, k)
    BY <1>1, <1>4 DEF Between
  <2>3. \A b \in Blocks : Between(t, b)' <=> Gap(n, b) < Gap(n, k)
    <3>1. \A b \in Blocks : Between(t, b)' <=>
            Gap(it_block'[t], b) < Gap(it_block'[t], kblock'[t])
      BY DEF Between, Ahead, Gap
    <3>2. kblock'[t] = k
      BY <1>3
    <3> HIDE DEF n
    <3> QED
      BY <1>3, <3>1, <3>2
  <2> QED
    BY <1>3, <2>1, <2>2, <2>3 DEF User
<1> HIDE DEF it, k, n
<1>8. CASE \A b \in Blocks : User(t, b) <=> Between(t, b)
  <2>1. k # it
    BY <1>1, <1>4, <1>7, <1>8
  <2>2. \A b \in Blocks \ {it} : User(t, b)' <=> Between(t, b)'
    BY <1>1, <1>4, <1>5, <1>6, <1>7, <1>8, <2>1
  <2> QED
    BY <1>1, <1>3, <1>7, <2>2 DEF BlockOwners, n, it
<1>9. CASE k = it /\ \A b \in Blocks : User(t, b)
  <2>1. \A b \in Blocks \ {it} : User(t, b)' <=> Between(t, b)'
    BY <1>1, <1>4, <1>5, <1>6, <1>7, <1>9
  <2> QED
    BY <1>1, <1>3, <1>7, <2>1 DEF BlockOwners, n, it
<1> QED
  BY <1>3, <1>8, <1>9 DEF BlockOwners, k, it

\* The thread gives its block back.
LEMMA OwnersRelease ==
  ASSUME TypeOK, NEW t \in Threads, BlockOwners(t), KernelBlocks(t),
         Release(t)
  PROVE  BlockOwners(t)' /\ KernelBlocks(t)'
<1> DEFINE it == it_block[t]
           k == kblock[t]
           c == block[t]
<1>1. it \in Blocks /\ k \in Blocks /\ c \in Blocks
  BY AheadIs
<1>2. /\ UNCHANGED <<it_block, kblock, block>>
      /\ Copying(t) /\ ~Copying(t)'
      /\ status'[t][c] = "kernel" /\ ring'[t][c] = <<>>
      /\ \A b \in Blocks : b # c => status'[t][b] = status[t][b]
                                    /\ ring'[t][b] = ring[t][b]
  BY <1>1 DEF Release, Goto, TypeOK, KernelType, ThreadType, copyVars, Copying
<1>3. \A b \in Blocks : /\ Ahead(t, b) = Gap(it, b)
                        /\ Ahead(t, b)' = Ahead(t, b)
                        /\ Gap(it, b) \in Nat /\ Gap(it, b) < RingBlocks
  BY <1>2, AheadIs DEF Ahead
<1>4. \A b \in Blocks : Between(t, b)' <=> Between(t, b)
  BY <1>1, <1>2, <1>3 DEF Between, Ahead
<1>5. /\ it = NextBlock(c)
      /\ \A b \in Blocks \ {c} : User(t, b) <=> Between(t, b)
  BY <1>2 DEF BlockOwners
<1>6. Gap(it, c) = RingBlocks - 1
  BY <1>1, <1>5, GapIs
<1>7. ~Between(t, c)
  BY <1>1, <1>3, <1>6, CaptureAssumption DEF Between
<1>8. \A b \in Blocks : User(t, b)' <=> Between(t, b)'
  BY <1>1, <1>2, <1>4, <1>5, <1>7 DEF User
<1>9. KernelBlocks(t)'
  BY <1>1, <1>2 DEF KernelBlocks, User
<1> QED
  BY <1>2, <1>8, <1>9 DEF BlockOwners

\* The ring keeps its shape.
LEMMA RingKept ==
  ASSUME TypeOK, Control, \A u \in Threads : StageOrder(u), [Next]_vars,
         NEW t \in Threads, RingShape(t)
  PROVE  RingShape(t)'
<1>1. BlockOwners(t) /\ KernelBlocks(t) /\ Counting(t)
  BY DEF RingShape
<1>2. it_block[t] \in Blocks /\ kblock[t] \in Blocks /\ block[t] \in Blocks
  BY AheadIs
<1>3. ASSUME UNCHANGED <<trace, ring[t], status[t], kblock[t], it_block[t],
                         block[t]>>,
             Copying(t)' <=> Copying(t)
      PROVE  BlockOwners(t)' /\ KernelBlocks(t)'
  <2>1. \A b \in Blocks : (User(t, b)' <=> User(t, b))
                          /\ (Between(t, b)' <=> Between(t, b))
    BY <1>3 DEF User, Between, Ahead
  <2>2. User(t, block[t])' <=> User(t, block[t])
    BY <1>3 DEF User
  <2>3. BlockOwners(t)'
    BY <1>1, <1>3, <2>1, <2>2 DEF BlockOwners
  <2>4. KernelBlocks(t)'
    BY <1>1, <1>3, <2>1 DEF KernelBlocks
  <2> QED
    BY <2>3, <2>4
<1>4. CASE Still(t)
  <2>1. BlockOwners(t)' /\ KernelBlocks(t)'
    BY <1>3, <1>4 DEF Still
  <2>2. Counting(t)'
    BY <1>1, <1>4 DEF Counting, Still
  <2> QED
    BY <2>1, <2>2 DEF RingShape
<1>5. CASE Arrive(t)
  <2> DEFINE i == arrived + 1
             k == kblock[t]
  <2>1. /\ i \in Nat
        /\ UNCHANGED <<type, trace, pc, it_block, block, copied>>
    BY <1>5, ArriveCases DEF copyVars
  <2>2. CASE UNCHANGED <<ring, status, kblock>>
    <3>1. BlockOwners(t)' /\ KernelBlocks(t)'
      BY <1>3, <2>1, <2>2 DEF Copying
    <3>2. Counting(t)'
      BY <1>1, <2>1, <2>2 DEF Counting
    <3> QED
      BY <3>1, <3>2 DEF RingShape
  <2>3. CASE /\ status[t][k] = "kernel"
             /\ ring' = [ring EXCEPT ![t][k] = Append(ring[t][k], i)]
             /\ \/ UNCHANGED <<status, kblock>>
                \/ /\ status' = [status EXCEPT ![t][k] = "user"]
                   /\ kblock' = [kblock EXCEPT ![t] = NextBlock(k)]
    <3>1. \A b \in Blocks : b # k => ring'[t][b] = ring[t][b]
      BY <1>2, <2>3 DEF TypeOK, KernelType
    <3>2. ASSUME UNCHANGED <<status, kblock>>
          PROVE  BlockOwners(t)' /\ KernelBlocks(t)'
      <4>1. /\ \A b \in Blocks : (User(t, b)' <=> User(t, b))
                                 /\ (Between(t, b)' <=> Between(t, b))
            /\ User(t, block[t])' <=> User(t, block[t])
        BY <2>1, <3>2 DEF User, Between, Ahead
      <4>2. BlockOwners(t)'
        BY <1>1, <2>1, <3>2, <4>1 DEF BlockOwners, Copying
      <4>3. KernelBlocks(t)'
        BY <1>1, <3>1, <3>2, <4>1 DEF KernelBlocks
      <4> QED
        BY <4>2, <4>3
    <3>3. ASSUME status' = [status EXCEPT ![t][k] = "user"],
                 kblock' = [kblock EXCEPT ![t] = NextBlock(k)]
          PROVE  BlockOwners(t)' /\ KernelBlocks(t)'
      BY <1>1, <2>1, <2>3, <3>1, <3>3, OwnersHandOver
    <3>4. Counting(t)'
      <4>1. CASE pc[t] = "count"
        <5>1. block[t] # k
          BY <1>1, <2>3, <4>1 DEF BlockOwners, Copying, User
        <5>2. ring'[t][block[t]] = ring[t][block[t]]
          BY <1>2, <3>1, <5>1
        <5> QED
          BY <1>1, <2>1, <4>1, <5>2 DEF Counting
      <4>2. CASE pc[t] # "count"
        BY <2>1, <4>2 DEF Counting
      <4> QED
        BY <4>1, <4>2
    <3> QED
      BY <2>3, <3>2, <3>3, <3>4 DEF RingShape
  <2>4. ArriveRing(t, i) \/ UNCHANGED <<ring, status, kblock>>
    BY <1>5, ArriveCases DEF ArriveSocket
  <2>5. CASE ArriveRing(t, i)
    <3> HIDE DEF i
    <3> QED
      BY <2>1, <2>2, <2>3, <2>5, RingCases
  <2> QED
    BY <2>2, <2>4, <2>5
<1>6. CASE Retire(t)
  <2>1. /\ status[t][kblock[t]] = "kernel"
        /\ status' = [status EXCEPT ![t][kblock[t]] = "user"]
        /\ kblock' = [kblock EXCEPT ![t] = NextBlock(kblock[t])]
        /\ UNCHANGED <<trace, ring, pc, it_block, block, copied>>
    BY <1>6 DEF Retire, copyVars
  <2>2. BlockOwners(t)' /\ KernelBlocks(t)'
    BY <1>1, <2>1, OwnersHandOver
  <2>3. Counting(t)'
    BY <1>1, <2>1 DEF Counting
  <2> QED
    BY <2>2, <2>3 DEF RingShape
<1>7. CASE NextReady(t)
  <2>1. BlockOwners(t)'
    BY <1>1, <1>7, OwnersNext
  <2>2. KernelBlocks(t)'
    BY <1>1, <1>7 DEF NextReady, kernelVars, KernelBlocks, User
  <2>3. Counting(t)'
    BY <1>7 DEF NextReady, Goto, Counting, TypeOK, ThreadType
  <2> QED
    BY <2>1, <2>2, <2>3 DEF RingShape
<1>8. CASE CopyPacket(t)
  <2> DEFINE s == ring[t][block[t]]
  <2>1. /\ copied[t] < Len(s) /\ Head(Uncopied(t)) = s[copied[t] + 1]
    BY <1>8, UncopiedIs DEF CopyPacket
  <2>2. UNCHANGED <<trace, ring, status, kblock, it_block, block>>
    BY <1>8 DEF CopyPacket, kernelVars
  <2>3. /\ Copying(t) /\ Copying(t)'
        /\ pc'[t] = "count" =>
             trace[Head(Uncopied(t))].filtered /\ copied' = copied
    BY <1>8 DEF CopyPacket, Copying, TypeOK, ThreadType
  <2>4. BlockOwners(t)' /\ KernelBlocks(t)'
    BY <1>3, <2>2, <2>3
  <2>5. Counting(t)'
    BY <2>1, <2>2, <2>3 DEF Counting
  <2> QED
    BY <2>4, <2>5 DEF RingShape
<1>9. CASE CountFiltered(t)
  <2>1. UNCHANGED <<trace, ring, status, kblock, it_block, block>>
    BY <1>9 DEF CountFiltered, kernelVars
  <2>2. Copying(t) /\ Copying(t)' /\ pc'[t] # "count"
    BY <1>9 DEF CountFiltered, Goto, Copying, TypeOK, ThreadType
  <2>3. BlockOwners(t)' /\ KernelBlocks(t)'
    BY <1>3, <2>1, <2>2
  <2> QED
    BY <2>2, <2>3 DEF RingShape, Counting
<1>10. CASE Release(t)
  <2>1. BlockOwners(t)' /\ KernelBlocks(t)'
    BY <1>1, <1>10, OwnersRelease
  <2>2. pc'[t] # "count"
    BY <1>10 DEF Release, Goto, TypeOK, ThreadType
  <2> QED
    BY <2>1, <2>2 DEF RingShape, Counting
<1>11. CASE Receive(t) \/ ReceiveFails(t) \/ PcapClose(t) \/ RejectLink(t)
            \/ RejectNet(t) \/ DropFlow(t) \/ CountFlow(t)
  <2>1. UNCHANGED <<trace, ring, status, kblock, it_block, block>>
    BY <1>11 DEF Receive, ReceiveFails, PcapClose, RejectLink, RejectNet,
                 DropFlow, CountFlow, Processed, kernelVars, copyVars
  <2>2. ~Copying(t) /\ ~Copying(t)'
    BY <1>11 DEF Receive, ReceiveFails, PcapClose, RejectLink, RejectNet,
                 DropFlow, CountFlow, Processed, Goto, Copying, TypeOK,
                 ThreadType
  <2>3. BlockOwners(t)' /\ KernelBlocks(t)'
    BY <1>3, <2>1, <2>2
  <2> QED
    BY <2>2, <2>3 DEF RingShape, Counting, Copying
<1> QED
  BY <1>4, <1>5, <1>6, <1>7, <1>8, <1>9, <1>10, <1>11, StillOrMoves DEF Moves

-----------------------------------------------------------------------------
\* The order of the packets

\* The order of the stages of a thread, as one of sets: processed, queued,
\* in the block being copied, in the ring, at the socket
InOrder(L, Q, B, R, S, n) ==
  /\ Below(L, Q) /\ Below(L, B) /\ Below(L, R) /\ Below(L, S)
  /\ Below(Q, B) /\ Below(Q, R) /\ Below(Q, S)
  /\ Below(B, R)
  /\ L \subseteq 1..n /\ Q \subseteq 1..n /\ B \subseteq 1..n
  /\ R \subseteq 1..n /\ S \subseteq 1..n

EachSorted(t) ==
  /\ LogSorted(t) /\ Sorted(pkt_queue[t]) /\ Sorted(sock[t])
  /\ \A b \in Blocks : Sorted(ring[t][b])
  /\ RingSorted(t)

StagesInOrder(t) ==
  InOrder(LogIds(t), Elems(pkt_queue[t]), BlockIds(t), RingIds(t),
          Elems(sock[t]), arrived)

LEMMA StageOrderIs ==
  ASSUME NEW t \in Threads
  PROVE  StageOrder(t) <=> EachSorted(t) /\ StagesInOrder(t)
<1>1. /\ Below(LogIds(t), Waiting(t)) <=>
           /\ Below(LogIds(t), BlockIds(t))
           /\ Below(LogIds(t), RingIds(t))
           /\ Below(LogIds(t), Elems(sock[t]))
      /\ Below(Elems(pkt_queue[t]), Waiting(t)) <=>
           /\ Below(Elems(pkt_queue[t]), BlockIds(t))
           /\ Below(Elems(pkt_queue[t]), RingIds(t))
           /\ Below(Elems(pkt_queue[t]), Elems(sock[t]))
  BY DEF Below, Waiting
<1>2. Ids(t) \subseteq 1..arrived <=>
        /\ LogIds(t) \subseteq 1..arrived
        /\ Elems(pkt_queue[t]) \subseteq 1..arrived
        /\ BlockIds(t) \subseteq 1..arrived
        /\ RingIds(t) \subseteq 1..arrived
        /\ Elems(sock[t]) \subseteq 1..arrived
  BY DEF Ids, Waiting
<1> QED
  BY <1>1, <1>2 DEF StageOrder, EachSorted, StagesInOrder, InOrder

\* A packet is added to the history.
LEMMA LogStep ==
  ASSUME TypeOK, NEW e \in LogEntry, log' = Append(log, e), NEW t \in Threads
  PROVE  /\ LogIds(t)' = IF e.thread = t THEN LogIds(t) \cup {e.id}
                         ELSE LogIds(t)
         /\ LogSorted(t) /\ (e.thread = t => Below(LogIds(t), {e.id}))
              => LogSorted(t)'
<1>1. /\ Len(log) \in Nat
      /\ DOMAIN log = 1..Len(log) /\ DOMAIN log' = 1..(Len(log) + 1)
      /\ \A n \in 1..Len(log) : log'[n] = log[n]
      /\ log'[Len(log) + 1] = e
  BY DEF TypeOK, ThreadType
<1>2. ASSUME NEW x \in LogIds(t)'
      PROVE  x \in LogIds(t) \/ (e.thread = t /\ x = e.id)
  <2>1. PICK n \in DOMAIN log' : log'[n].thread = t /\ x = log'[n].id
    BY DEF LogIds
  <2>2. CASE n = Len(log) + 1
    BY <1>1, <2>1, <2>2
  <2>3. CASE n # Len(log) + 1
    <3>1. n \in DOMAIN log /\ log'[n] = log[n]
      BY <1>1, <2>3
    <3> QED
      BY <2>1, <3>1 DEF LogIds
  <2> QED
    BY <2>2, <2>3
<1>3. ASSUME NEW x \in LogIds(t) PROVE x \in LogIds(t)'
  <2>1. PICK n \in DOMAIN log : log[n].thread = t /\ x = log[n].id
    BY DEF LogIds
  <2>2. n \in DOMAIN log' /\ log'[n] = log[n]
    BY <1>1
  <2> QED
    BY <2>1, <2>2 DEF LogIds
<1>4. e.thread = t => e.id \in LogIds(t)'
  <2>1. Len(log) + 1 \in DOMAIN log'
    BY <1>1
  <2> QED
    BY <1>1, <2>1 DEF LogIds
<1>5. ASSUME LogSorted(t), e.thread = t => Below(LogIds(t), {e.id}),
             NEW m \in DOMAIN log', NEW n \in DOMAIN log',
             log'[m].thread = t, log'[n].thread = t, m < n
      PROVE  log'[m].id < log'[n].id
  <2>1. m \in DOMAIN log /\ log'[m] = log[m]
    BY <1>1, <1>5
  <2>2. CASE n = Len(log) + 1
    <3>1. log[m].id \in LogIds(t)
      BY <1>5, <2>1 DEF LogIds
    <3> QED
      BY <1>1, <1>5, <2>1, <2>2, <3>1 DEF Below
  <2>3. CASE n # Len(log) + 1
    <3>1. n \in DOMAIN log /\ log'[n] = log[n]
      BY <1>1, <2>3
    <3> QED
      BY <1>5, <2>1, <3>1 DEF LogSorted
  <2> QED
    BY <2>2, <2>3
<1>6. LogIds(t)' = IF e.thread = t THEN LogIds(t) \cup {e.id} ELSE LogIds(t)
  BY <1>2, <1>3, <1>4
<1>7. LogSorted(t) /\ (e.thread = t => Below(LogIds(t), {e.id}))
        => LogSorted(t)'
  BY <1>5 DEF LogSorted
<1> QED
  BY <1>6, <1>7

\* A ring that is not touched
LEMMA RingFrame ==
  ASSUME NEW t \in Threads, UNCHANGED <<ring[t], it_block[t], block[t]>>,
         Copying(t)' <=> Copying(t)
  PROVE  /\ RingIds(t)' = RingIds(t)
         /\ RingSorted(t)' <=> RingSorted(t)
         /\ copied'[t] = copied[t] => BlockIds(t)' = BlockIds(t)
<1>1. Others(t)' = Others(t)
  BY DEF Others
<1>2. \A b \in Blocks : Ahead(t, b)' = Ahead(t, b)
  BY DEF Ahead
<1>3. \A b \in Others(t) : b \in Blocks
  BY DEF Others
<1>4. RingIds(t)' = RingIds(t)
  BY <1>1 DEF RingIds, Elems
<1>5. RingSorted(t)' <=> RingSorted(t)
  BY <1>1, <1>2, <1>3 DEF RingSorted, Elems
<1>6. copied'[t] = copied[t] => BlockIds(t)' = BlockIds(t)
  BY DEF BlockIds
<1> QED
  BY <1>4, <1>5, <1>6

\* A step that leaves the packets where they are keeps their order.
LEMMA StageStill ==
  ASSUME TypeOK, NEW t \in Threads, StageOrder(t),
         UNCHANGED <<ring[t], sock[t], it_block[t], block[t], copied[t],
                     pkt_queue[t]>>,
         Copying(t)' <=> Copying(t),
         arrived' \in Nat, arrived <= arrived',
         \/ log' = log
         \/ \E e \in LogEntry : e.thread # t /\ log' = Append(log, e)
  PROVE  StageOrder(t)' /\ Ids(t)' = Ids(t)
<1>1. EachSorted(t) /\ StagesInOrder(t)
  BY StageOrderIs
<1>2. LogIds(t)' = LogIds(t) /\ LogSorted(t)'
  <2>1. CASE log' = log
    BY <1>1, <2>1 DEF EachSorted, LogSorted, LogIds
  <2>2. CASE \E e \in LogEntry : e.thread # t /\ log' = Append(log, e)
    BY <1>1, <2>2, LogStep DEF EachSorted
  <2> QED
    BY <2>1, <2>2
<1>3. /\ RingIds(t)' = RingIds(t) /\ RingSorted(t)'
      /\ BlockIds(t)' = BlockIds(t)
  BY <1>1, RingFrame DEF EachSorted
<1>4. /\ Elems(pkt_queue[t])' = Elems(pkt_queue[t])
      /\ Elems(sock[t])' = Elems(sock[t])
      /\ Sorted(pkt_queue[t])' /\ Sorted(sock[t])'
      /\ \A b \in Blocks : Sorted(ring[t][b])'
  BY <1>1 DEF EachSorted, Elems, Sorted
<1>5. EachSorted(t)'
  BY <1>2, <1>3, <1>4 DEF EachSorted
<1>6. arrived \in Nat
  BY DEF TypeOK, KernelType
<1>7. \A x \in 1..arrived : x \in 1..arrived'
  BY <1>6
<1>8. StagesInOrder(t)'
  BY <1>1, <1>2, <1>3, <1>4, <1>7 DEF StagesInOrder, InOrder
<1>9. Ids(t)' = Ids(t)
  BY <1>2, <1>3, <1>4 DEF Ids, Waiting
<1>10. (EachSorted(t) /\ StagesInOrder(t) => StageOrder(t))'
  BY StageOrderIs, PTL
<1> QED
  BY <1>5, <1>8, <1>9, <1>10

\* From the stages back to their order after a step
LEMMA StageOrderNext ==
  ASSUME NEW t \in Threads, EachSorted(t)', StagesInOrder(t)'
  PROVE  StageOrder(t)'
<1>1. (EachSorted(t) /\ StagesInOrder(t) => StageOrder(t))'
  BY StageOrderIs, PTL
<1> QED
  BY <1>1

\* A packet arrives at the ring: it goes to the kernel's block, and the
\* blocks that are further ahead are empty.
LEMMA StageArriveRing ==
  ASSUME TypeOK, NEW t \in Threads, StageOrder(t), RingShape(t),
         status[t][kblock[t]] = "kernel",
         ring' = [ring EXCEPT ![t][kblock[t]] =
                    Append(ring[t][kblock[t]], arrived + 1)],
         arrived' = arrived + 1,
         UNCHANGED <<pc, copyVars, sock, log>>
  PROVE  StageOrder(t)' /\ Ids(t)' = Ids(t) \cup {arrived + 1}
<1> DEFINE i == arrived + 1
           k == kblock[t]
           s == ring[t][k]
<1>1. EachSorted(t) /\ StagesInOrder(t) /\ BlockOwners(t) /\ KernelBlocks(t)
  BY StageOrderIs DEF RingShape
<1>2. arrived \in Nat /\ k \in Blocks /\ s \in Seq(Nat) /\ block[t] \in Blocks
  BY DEF TypeOK, KernelType, ThreadType
<1>3. \A x \in 1..arrived : x \in 1..i /\ x < i
  BY <1>2
<1>4. i \in Nat /\ i \in 1..i
  BY <1>2
<1>5. UNCHANGED <<it_block, block, copied, pkt_queue>>
  BY DEF copyVars
<1>6. k \in Others(t)
  <2>1. Copying(t) => block[t] # k
    BY <1>1 DEF BlockOwners, User
  <2> QED
    BY <1>2, <2>1 DEF Others
<1>7. Others(t)' = Others(t) /\ \A b \in Others(t) : b \in Blocks
  BY <1>5 DEF Others, Copying
<1>8. /\ ring'[t][k] = Append(s, i)
      /\ \A b \in Blocks : b # k => ring'[t][b] = ring[t][b]
  BY <1>2 DEF TypeOK, KernelType
<1> HIDE DEF i, k, s
<1>9. Elems(s) \subseteq RingIds(t) /\ RingIds(t) \subseteq 1..arrived
  <2>1. Elems(s) \subseteq RingIds(t)
    BY <1>6 DEF RingIds, s
  <2> QED
    BY <1>1, <2>1 DEF StagesInOrder, InOrder
<1>10. Below(Elems(s), {i})
  BY <1>3, <1>9 DEF Below
<1>11. /\ Elems(Append(s, i)) = Elems(s) \cup {i}
       /\ Sorted(Append(s, i))
  <2>1. Sorted(s)
    BY <1>1, <1>2 DEF EachSorted, s
  <2> QED
    BY <1>2, <1>4, <1>10, <2>1, AppendElems
<1>12. RingIds(t)' = RingIds(t) \cup {i}
  <2>1. ASSUME NEW x \in RingIds(t)' PROVE x \in RingIds(t) \cup {i}
    <3>1. PICK b \in Others(t) : x \in Elems(ring'[t][b])
      BY <1>7 DEF RingIds, Elems
    <3>2. CASE b = k
      BY <1>8, <1>9, <1>11, <3>1, <3>2
    <3>3. CASE b # k
      BY <1>7, <1>8, <3>1, <3>3 DEF RingIds
    <3> QED
      BY <3>2, <3>3
  <2>2. ASSUME NEW x \in RingIds(t) PROVE x \in RingIds(t)'
    <3>1. PICK b \in Others(t) : x \in Elems(ring[t][b])
      BY DEF RingIds
    <3>2. x \in Elems(ring'[t][b])
      BY <1>7, <1>8, <1>11, <3>1 DEF s
    <3> QED
      BY <1>7, <3>2 DEF RingIds, Elems
  <2>3. i \in RingIds(t)'
    <3>1. i \in Elems(ring'[t][k])
      BY <1>8, <1>11
    <3> QED
      BY <1>6, <1>7, <3>1 DEF RingIds, Elems
  <2> QED
    BY <2>1, <2>2, <2>3
<1>13. BlockIds(t)' = BlockIds(t)
  <2>1. Copying(t)' <=> Copying(t)
    BY DEF Copying
  <2>2. CASE Copying(t)
    <3>1. block[t] # k
      BY <1>6, <2>2 DEF Others
    <3>2. ring'[t][block[t]] = ring[t][block[t]]
      BY <1>2, <1>8, <3>1
    <3> QED
      BY <1>5, <2>1, <3>2 DEF BlockIds
  <2>3. CASE ~Copying(t)
    BY <2>1, <2>3 DEF BlockIds
  <2> QED
    BY <2>2, <2>3
<1>14. /\ LogIds(t)' = LogIds(t) /\ LogSorted(t)'
       /\ Elems(pkt_queue[t])' = Elems(pkt_queue[t])
       /\ Elems(sock[t])' = Elems(sock[t])
       /\ Sorted(pkt_queue[t])' /\ Sorted(sock[t])'
  BY <1>1, <1>5 DEF EachSorted, LogIds, LogSorted, Elems, Sorted
<1>15. RingSorted(t)'
  <2>1. ASSUME NEW b \in Others(t), NEW c \in Others(t),
               Gap(it_block[t], b) < Gap(it_block[t], c),
               NEW x \in Elems(ring'[t][b]), NEW y \in Elems(ring'[t][c])
        PROVE  x < y
    <3>1. b \in Blocks /\ c \in Blocks
      BY <1>7
    <3>2. Ahead(t, b) < Ahead(t, c) /\ Ahead(t, b) \in Nat /\ Ahead(t, c) \in Nat
      BY <2>1, <3>1, AheadIs
    <3>3. CASE b = k
      <4>1. c # k
        BY <3>2, <3>3
      <4>2. ~Between(t, c)
        BY <3>2, <3>3 DEF Between, k
      <4>3. ~User(t, k)
        BY DEF User, k
      <4>4. ~User(t, c)
        BY <1>1, <1>2, <3>1, <4>2, <4>3, <2>1 DEF BlockOwners, Others
      <4>5. ring[t][c] = <<>>
        BY <1>1, <3>1, <4>1, <4>4 DEF KernelBlocks, k
      <4>6. ring'[t][c] = <<>>
        BY <1>8, <3>1, <4>1, <4>5
      <4> QED
        BY <2>1, <4>6 DEF Elems
    <3>4. CASE b # k
      <4>1. x \in Elems(ring[t][b])
        BY <1>8, <2>1, <3>1, <3>4
      <4>2. x \in RingIds(t)
        BY <4>1 DEF RingIds
      <4>3. CASE c = k /\ y = i
        BY <1>3, <1>9, <4>2, <4>3
      <4>4. CASE ~(c = k /\ y = i)
        <5>1. y \in Elems(ring[t][c])
          BY <1>8, <1>11, <2>1, <3>1, <4>4 DEF s
        <5> QED
          BY <1>1, <3>2, <4>1, <5>1 DEF EachSorted, RingSorted, Below
      <4> QED
        BY <4>3, <4>4
    <3> QED
      BY <3>3, <3>4
  <2>2. ASSUME NEW b \in Blocks PROVE Ahead(t, b)' = Gap(it_block[t], b)
    BY <1>5 DEF Ahead, Gap
  <2> QED
    BY <1>7, <2>1, <2>2 DEF RingSorted, Below, Elems
<1>16. \A b \in Blocks : Sorted(ring[t][b])'
  <2>1. ASSUME NEW b \in Blocks PROVE Sorted(ring'[t][b])
    BY <1>1, <1>8, <1>11, <2>1 DEF EachSorted
  <2> QED
    BY <2>1 DEF Sorted
<1>17. EachSorted(t)'
  BY <1>14, <1>15, <1>16 DEF EachSorted
<1>18. StagesInOrder(t)'
  <2>1. arrived' = i
    BY DEF i
  <2> QED
    BY <1>1, <1>3, <1>4, <1>12, <1>13, <1>14, <2>1
    DEF StagesInOrder, InOrder, Below
<1>19. Ids(t)' = Ids(t) \cup {i}
  BY <1>12, <1>13, <1>14 DEF Ids, Waiting
<1> QED
  BY <1>17, <1>18, <1>19, StageOrderNext DEF i

\* A packet arrives at a socket.
LEMMA StageArriveSocket ==
  ASSUME TypeOK, NEW t \in Threads, StageOrder(t),
         sock' = [sock EXCEPT ![t] = Append(sock[t], arrived + 1)],
         arrived' = arrived + 1,
         UNCHANGED <<pc, copyVars, ring, log>>
  PROVE  StageOrder(t)' /\ Ids(t)' = Ids(t) \cup {arrived + 1}
<1> DEFINE i == arrived + 1
           s == sock[t]
<1>1. EachSorted(t) /\ StagesInOrder(t)
  BY StageOrderIs
<1>2. arrived \in Nat /\ s \in Seq(Nat) /\ i \in Nat /\ i \in 1..i
  BY DEF TypeOK, KernelType
<1>3. \A x \in 1..arrived : x \in 1..i /\ x < i
  BY <1>2
<1>4. UNCHANGED <<it_block, block, copied, pkt_queue>> /\ sock'[t] = Append(s, i)
  BY DEF copyVars, TypeOK, KernelType
<1> HIDE DEF i, s
<1>5. /\ RingIds(t)' = RingIds(t) /\ RingSorted(t)'
      /\ BlockIds(t)' = BlockIds(t)
  BY <1>1, <1>4, RingFrame DEF EachSorted, Copying
<1>6. Below(Elems(s), {i})
  BY <1>1, <1>3 DEF Below, StagesInOrder, InOrder, s
<1>7. Elems(Append(s, i)) = Elems(s) \cup {i} /\ Sorted(Append(s, i))
  <2>1. Sorted(s)
    BY <1>1 DEF EachSorted, s
  <2> QED
    BY <1>2, <1>6, <2>1, AppendElems
<1>8. Elems(sock[t])' = Elems(sock[t]) \cup {i} /\ Sorted(sock[t])'
  <2>1. Elems(sock'[t]) = Elems(sock[t]) \cup {i} /\ Sorted(sock'[t])
    BY <1>4, <1>7 DEF s
  <2> QED
    BY <2>1 DEF Elems, Sorted
<1>9. /\ LogIds(t)' = LogIds(t) /\ LogSorted(t)'
      /\ Elems(pkt_queue[t])' = Elems(pkt_queue[t])
      /\ Sorted(pkt_queue[t])'
      /\ \A b \in Blocks : Sorted(ring[t][b])'
  BY <1>1, <1>4 DEF EachSorted, LogIds, LogSorted, Elems, Sorted
<1>10. EachSorted(t)'
  BY <1>5, <1>8, <1>9 DEF EachSorted
<1>11. StagesInOrder(t)'
  <2>1. arrived' = i
    BY DEF i
  <2> QED
    BY <1>1, <1>2, <1>3, <1>5, <1>8, <1>9, <2>1
    DEF StagesInOrder, InOrder, Below
<1>12. Ids(t)' = Ids(t) \cup {i}
  BY <1>5, <1>8, <1>9 DEF Ids, Waiting
<1> QED
  BY <1>10, <1>11, <1>12, StageOrderNext DEF i

\* The thread takes the next block, the first of the ring.
LEMMA StageNextReady ==
  ASSUME TypeOK, NEW t \in Threads, StageOrder(t), NextReady(t)
  PROVE  StageOrder(t)' /\ Ids(t)' = Ids(t)
<1> DEFINE it == it_block[t]
           n == NextBlock(it)
<1>1. EachSorted(t) /\ StagesInOrder(t)
  BY StageOrderIs
<1>2. it \in Blocks
  BY AheadIs
<1>3. /\ it_block'[t] = n /\ block'[t] = it /\ copied'[t] = 0
      /\ UNCHANGED <<arrived, ring, sock, pkt_queue, log>>
      /\ ~Copying(t) /\ Copying(t)'
  BY DEF NextReady, Goto, TypeOK, ThreadType, kernelVars, flowVars, Copying
<1>4. Others(t) = Blocks /\ Others(t)' = Blocks \ {it}
  BY <1>3 DEF Others
<1>5. BlockIds(t) = {} /\ BlockIds(t)' = Elems(ring[t][it])
  <2>1. BlockIds(t) = {}
    BY <1>3 DEF BlockIds
  <2>2. ring[t][it] \in Seq(Nat)
    BY <1>2 DEF TypeOK, KernelType
  <2>3. \A m \in DOMAIN ring[t][it] : m > 0
    <3> HIDE DEF it
    <3> QED
      BY <2>2
  <2>4. BlockIds(t)' = Elems(ring[t][it])
    BY <1>3, <2>3 DEF BlockIds, Elems
  <2> QED
    BY <2>1, <2>4
<1>6. RingIds(t) = BlockIds(t)' \cup RingIds(t)'
  <2>1. ASSUME NEW x \in RingIds(t) PROVE x \in BlockIds(t)' \cup RingIds(t)'
    <3>1. PICK b \in Blocks : x \in Elems(ring[t][b])
      BY <1>4 DEF RingIds
    <3> QED
      BY <1>3, <1>4, <1>5, <3>1 DEF RingIds, Elems
  <2>2. ASSUME NEW x \in RingIds(t)' PROVE x \in RingIds(t)
    BY <1>3, <1>4 DEF RingIds, Elems
  <2>3. ASSUME NEW x \in BlockIds(t)' PROVE x \in RingIds(t)
    BY <1>2, <1>4, <1>5 DEF RingIds
  <2> QED
    BY <2>1, <2>2, <2>3
<1>7. \A b \in Blocks : /\ Ahead(t, b)' = Gap(n, b)
                        /\ Ahead(t, b) = Gap(it, b)
                        /\ Gap(it, b) \in Nat
                        /\ Gap(it, b) = 0 <=> b = it
                        /\ b # it => Gap(n, b) = Gap(it, b) - 1
  <2>1. \A b \in Blocks : Ahead(t, b)' = Gap(n, b)
    <3> HIDE DEF n
    <3> QED
      BY <1>3 DEF Ahead, Gap
  <2>2. \A b \in Blocks : Ahead(t, b) = Gap(it, b) /\ Gap(it, b) \in Nat
    BY AheadIs
  <2>3. \A b \in Blocks : /\ Gap(it, b) = 0 <=> b = it
                          /\ b # it => Gap(n, b) = Gap(it, b) - 1
    BY <1>2, GapIs
  <2> QED
    BY <2>1, <2>2, <2>3
<1> HIDE DEF it, n
<1>8. RingSorted(t)'
  <2>1. ASSUME NEW b \in Blocks \ {it}, NEW c \in Blocks \ {it},
               Ahead(t, b)' < Ahead(t, c)'
        PROVE  Below(Elems(ring[t][b]), Elems(ring[t][c]))
    <3>1. Ahead(t, b) < Ahead(t, c)
      BY <1>7, <2>1
    <3> QED
      BY <1>1, <1>4, <3>1 DEF EachSorted, RingSorted
  <2> QED
    BY <1>3, <1>4, <2>1 DEF RingSorted, Elems, Below
<1>9. Below(BlockIds(t)', RingIds(t)')
  <2>1. ASSUME NEW x \in BlockIds(t)', NEW y \in RingIds(t)' PROVE x < y
    <3>1. PICK c \in Blocks \ {it} : y \in Elems(ring[t][c])
      BY <1>3, <1>4 DEF RingIds, Elems
    <3>2. Ahead(t, it) < Ahead(t, c)
      BY <1>2, <1>7
    <3> QED
      BY <1>1, <1>2, <1>4, <1>5, <3>1, <3>2 DEF EachSorted, RingSorted, Below
  <2> QED
    BY <2>1 DEF Below
<1>10. /\ LogIds(t)' = LogIds(t) /\ LogSorted(t)'
       /\ Elems(pkt_queue[t])' = Elems(pkt_queue[t])
       /\ Elems(sock[t])' = Elems(sock[t])
       /\ Sorted(pkt_queue[t])' /\ Sorted(sock[t])'
       /\ \A b \in Blocks : Sorted(ring[t][b])'
  BY <1>1, <1>3 DEF EachSorted, LogIds, LogSorted, Elems, Sorted
<1>11. EachSorted(t)'
  BY <1>8, <1>10 DEF EachSorted
<1>12. StagesInOrder(t)'
  BY <1>1, <1>3, <1>6, <1>9, <1>10 DEF StagesInOrder, InOrder, Below
<1>13. Ids(t)' = Ids(t)
  BY <1>5, <1>6, <1>10 DEF Ids, Waiting
<1> QED
  BY <1>11, <1>12, <1>13, StageOrderNext

\* The next packet of the block is looked at: it is the first of those left.
LEMMA BlockStep ==
  ASSUME TypeOK, NEW t \in Threads, StageOrder(t), Copying(t), Copying(t)',
         copied[t] < Len(ring[t][block[t]]),
         copied' = [copied EXCEPT ![t] = @ + 1],
         UNCHANGED <<ring, block>>
  PROVE  LET i == ring[t][block[t]][copied[t] + 1]
         IN  /\ i \in Nat
             /\ BlockIds(t) = {i} \cup BlockIds(t)'
             /\ Below({i}, BlockIds(t)')
<1> DEFINE s == ring[t][block[t]]
           c == copied[t]
           i == s[c + 1]
<1>1. /\ s \in Seq(Nat) /\ Len(s) \in Nat /\ c \in Nat /\ c < Len(s)
      /\ DOMAIN s = 1..Len(s)
  BY UncopiedIs
<1>2. Sorted(s)
  <2>1. block[t] \in Blocks
    BY AheadIs
  <2> QED
    BY <2>1, StageOrderIs DEF EachSorted
<1>3. /\ BlockIds(t) = {s[n] : n \in {m \in DOMAIN s : m > c}}
      /\ BlockIds(t)' = {s[n] : n \in {m \in DOMAIN s : m > c + 1}}
  <2>1. copied'[t] = c + 1
    BY DEF TypeOK, ThreadType
  <2> QED
    BY <2>1 DEF BlockIds
<1> HIDE DEF s, c
<1>4. c + 1 \in DOMAIN s /\ i \in Nat
  BY <1>1
<1>5. \A m \in DOMAIN s : m > c <=> m = c + 1 \/ m > c + 1
  BY <1>1
<1>6. \A m \in DOMAIN s : m > c + 1 => i < s[m]
  BY <1>1, <1>2, <1>4 DEF Sorted
<1>7. BlockIds(t) = {i} \cup BlockIds(t)'
  <2>1. ASSUME NEW x \in BlockIds(t) PROVE x \in {i} \cup BlockIds(t)'
    BY <1>3, <1>5
  <2>2. ASSUME NEW x \in BlockIds(t)' PROVE x \in BlockIds(t)
    BY <1>3, <1>5
  <2>3. i \in BlockIds(t)
    BY <1>1, <1>3, <1>4, <1>5
  <2> QED
    BY <2>1, <2>2, <2>3
<1>8. Below({i}, BlockIds(t)')
  BY <1>3, <1>6 DEF Below
<1> QED
  BY <1>4, <1>7, <1>8 DEF s, c

\* A packet of the block is copied, or counted as filtered.
LEMMA StageCopy ==
  ASSUME TypeOK, Control, NEW t \in Threads, StageOrder(t), RingShape(t),
         CopyPacket(t) \/ CountFiltered(t)
  PROVE  /\ StageOrder(t)'
         /\ \A x \in Ids(t) : x \in Ids(t)' \/ trace[x].filtered
<1> DEFINE s == ring[t][block[t]]
           i == s[copied[t] + 1]
<1>1. EachSorted(t) /\ StagesInOrder(t)
  BY StageOrderIs
<1>2. /\ UNCHANGED <<arrived, trace, ring, sock, it_block, block, log>>
      /\ Copying(t) /\ Copying(t)'
  BY DEF CopyPacket, CountFiltered, Goto, Copying, kernelVars, flowVars,
         TypeOK, ThreadType
<1>3. copied[t] < Len(s) /\ (CopyPacket(t) => Head(Uncopied(t)) = i)
  <2>1. CASE CopyPacket(t)
    BY <2>1, UncopiedIs DEF CopyPacket
  <2>2. CASE ~CopyPacket(t)
    BY <2>2 DEF CountFiltered, Goto, RingShape, Counting
  <2> QED
    BY <2>1, <2>2
<1>4. \/ copied' = copied /\ pkt_queue' = pkt_queue
      \/ /\ copied' = [copied EXCEPT ![t] = @ + 1]
         /\ pkt_queue' = pkt_queue /\ trace[i].filtered
      \/ /\ copied' = [copied EXCEPT ![t] = @ + 1]
         /\ pkt_queue' = [pkt_queue EXCEPT ![t] = Append(pkt_queue[t], i)]
  <2>1. CASE CopyPacket(t)
    BY <1>3, <2>1 DEF CopyPacket
  <2>2. CASE CountFiltered(t)
    BY <2>2 DEF CountFiltered, Goto, RingShape, Counting
  <2> QED
    BY <2>1, <2>2
<1>5. CASE copied' = copied /\ pkt_queue' = pkt_queue
  <2>1. arrived \in Nat
    BY DEF TypeOK, KernelType
  <2>2. StageOrder(t)' /\ Ids(t)' = Ids(t)
    BY <1>2, <1>5, <2>1, StageStill
  <2> QED
    BY <2>2
<1>6. CASE copied' = [copied EXCEPT ![t] = @ + 1]
  <2>1. /\ i \in Nat
        /\ BlockIds(t) = {i} \cup BlockIds(t)' /\ Below({i}, BlockIds(t)')
    BY <1>2, <1>3, <1>6, BlockStep
  <2> HIDE DEF s, i
  <2>2. RingIds(t)' = RingIds(t) /\ RingSorted(t)'
    BY <1>1, <1>2, RingFrame DEF EachSorted
  <2>3. /\ LogIds(t)' = LogIds(t) /\ LogSorted(t)'
        /\ Elems(sock[t])' = Elems(sock[t]) /\ Sorted(sock[t])'
        /\ \A b \in Blocks : Sorted(ring[t][b])'
    BY <1>1, <1>2 DEF EachSorted, LogIds, LogSorted, Elems, Sorted
  <2>4. CASE pkt_queue' = pkt_queue /\ trace[i].filtered
    <3>1. /\ Elems(pkt_queue[t])' = Elems(pkt_queue[t])
          /\ Sorted(pkt_queue[t])'
      BY <1>1, <2>4 DEF EachSorted, Elems, Sorted
    <3>2. EachSorted(t)'
      BY <2>2, <2>3, <3>1 DEF EachSorted
    <3>3. StagesInOrder(t)'
      BY <1>1, <1>2, <2>1, <2>2, <2>3, <3>1 DEF StagesInOrder, InOrder, Below
    <3>4. \A x \in Ids(t) : x \in Ids(t)' \/ trace[x].filtered
      BY <2>1, <2>2, <2>3, <2>4, <3>1 DEF Ids, Waiting
    <3> QED
      BY <3>2, <3>3, <3>4, StageOrderNext
  <2>5. CASE pkt_queue' = [pkt_queue EXCEPT ![t] = Append(pkt_queue[t], i)]
    <3> DEFINE q == pkt_queue[t]
    <3>1. q \in Seq(Nat) /\ pkt_queue'[t] = Append(q, i)
      BY <2>5 DEF TypeOK, ThreadType
    <3>2. Sorted(q) /\ Below(Elems(q), {i})
      BY <1>1, <2>1 DEF EachSorted, StagesInOrder, InOrder, Below
    <3> HIDE DEF q
    <3>3. Elems(Append(q, i)) = Elems(q) \cup {i} /\ Sorted(Append(q, i))
      BY <2>1, <3>1, <3>2, AppendElems
    <3>4. Elems(pkt_queue'[t]) = Elems(pkt_queue[t]) \cup {i}
          /\ Sorted(pkt_queue'[t])
      BY <3>1, <3>3 DEF q
    <3>5. Elems(pkt_queue[t])' = Elems(pkt_queue[t]) \cup {i}
          /\ Sorted(pkt_queue[t])'
      BY <3>4 DEF Elems, Sorted
    <3>6. EachSorted(t)'
      BY <2>2, <2>3, <3>5 DEF EachSorted
    <3>7. StagesInOrder(t)'
      <4>1. Elems(sock[t]) = {}
        BY <1>2 DEF Control, Elems
      <4> QED
        BY <1>1, <1>2, <2>1, <2>2, <2>3, <3>5, <4>1
        DEF StagesInOrder, InOrder, Below
    <3>8. \A x \in Ids(t) : x \in Ids(t)'
      BY <2>1, <2>2, <2>3, <3>5 DEF Ids, Waiting
    <3> QED
      BY <3>6, <3>7, <3>8, StageOrderNext
  <2> QED
    BY <1>4, <1>5, <2>4, <2>5
<1> QED
  BY <1>4, <1>5, <1>6

\* The block that is given back has been copied.
LEMMA StageRelease ==
  ASSUME TypeOK, NEW t \in Threads, StageOrder(t), Release(t)
  PROVE  StageOrder(t)' /\ Ids(t)' = Ids(t)
<1> DEFINE c == block[t]
<1>1. EachSorted(t) /\ StagesInOrder(t)
  BY StageOrderIs
<1>2. c \in Blocks
  BY AheadIs
<1>3. /\ UNCHANGED <<arrived, sock, it_block, block, copied, pkt_queue, log>>
      /\ Copying(t) /\ ~Copying(t)'
  BY DEF Release, Goto, Copying, copyVars, flowVars, TypeOK, ThreadType
<1>4. /\ ring'[t][c] = <<>>
      /\ \A b \in Blocks : b # c => ring'[t][b] = ring[t][b]
  BY <1>2 DEF Release, TypeOK, KernelType
<1>5. BlockIds(t) = {} /\ BlockIds(t)' = {}
  <2>1. /\ ~(copied[t] < Len(ring[t][c])) /\ copied[t] \in Nat
        /\ ring[t][c] \in Seq(Nat) /\ Len(ring[t][c]) \in Nat
    BY UncopiedIs DEF Release, Copied
  <2>2. DOMAIN ring[t][c] = 1..Len(ring[t][c])
    BY <2>1
  <2>3. \A m \in DOMAIN ring[t][c] : ~(m > copied[t])
    BY <2>1, <2>2
  <2> QED
    BY <1>3, <2>3 DEF BlockIds
<1>6. Others(t) = Blocks \ {c} /\ Others(t)' = Blocks
  BY <1>3 DEF Others
<1>7. Elems(ring'[t][c]) = {} /\ Sorted(ring'[t][c])
  BY <1>4 DEF Elems, Sorted
<1> HIDE DEF c
<1>8. RingIds(t)' = RingIds(t)
  <2>1. ASSUME NEW x \in RingIds(t)' PROVE x \in RingIds(t)
    <3>1. PICK b \in Blocks : x \in Elems(ring'[t][b])
      BY <1>6 DEF RingIds, Elems
    <3>2. b # c
      BY <1>7, <3>1
    <3> QED
      BY <1>4, <1>6, <3>1, <3>2 DEF RingIds
  <2>2. ASSUME NEW x \in RingIds(t) PROVE x \in RingIds(t)'
    <3>1. PICK b \in Blocks \ {c} : x \in Elems(ring[t][b])
      BY <1>6 DEF RingIds
    <3>2. x \in Elems(ring'[t][b])
      BY <1>4, <3>1
    <3> QED
      BY <1>6, <3>2 DEF RingIds, Elems
  <2> QED
    BY <2>1, <2>2
<1>9. RingSorted(t)'
  <2>1. ASSUME NEW b \in Blocks, NEW d \in Blocks,
               Ahead(t, b)' < Ahead(t, d)',
               NEW x \in Elems(ring'[t][b]), NEW y \in Elems(ring'[t][d])
        PROVE  x < y
    <3>1. b # c /\ d # c
      BY <1>7, <2>1
    <3>2. Ahead(t, b) < Ahead(t, d)
      BY <1>3, <2>1 DEF Ahead
    <3>3. x \in Elems(ring[t][b]) /\ y \in Elems(ring[t][d])
      BY <1>4, <2>1, <3>1
    <3> QED
      BY <1>1, <1>6, <3>1, <3>2, <3>3 DEF EachSorted, RingSorted, Below
  <2> QED
    BY <1>6, <2>1 DEF RingSorted, Elems, Below
<1>10. /\ LogIds(t)' = LogIds(t) /\ LogSorted(t)'
       /\ Elems(pkt_queue[t])' = Elems(pkt_queue[t])
       /\ Elems(sock[t])' = Elems(sock[t])
       /\ Sorted(pkt_queue[t])' /\ Sorted(sock[t])'
  BY <1>1, <1>3 DEF EachSorted, LogIds, LogSorted, Elems, Sorted
<1>11. \A b \in Blocks : Sorted(ring[t][b])'
  <2>1. ASSUME NEW b \in Blocks PROVE Sorted(ring'[t][b])
    BY <1>1, <1>4, <1>7 DEF EachSorted
  <2> QED
    BY <2>1 DEF Sorted
<1>12. EachSorted(t)'
  BY <1>9, <1>10, <1>11 DEF EachSorted
<1>13. StagesInOrder(t)'
  BY <1>1, <1>3, <1>5, <1>8, <1>10 DEF StagesInOrder, InOrder
<1>14. Ids(t)' = Ids(t)
  BY <1>5, <1>8, <1>10 DEF Ids, Waiting
<1> QED
  BY <1>12, <1>13, <1>14, StageOrderNext

\* The first packet of the socket becomes the queue; what waits in the buffer
\* of libpcap is lost when the interface is closed.
LEMMA StageReceive ==
  ASSUME TypeOK, Control, NEW t \in Threads, StageOrder(t),
         Receive(t) \/ ReceiveFails(t) \/ PcapClose(t)
  PROVE  /\ StageOrder(t)'
         /\ type # "pcap" => Ids(t) \subseteq Ids(t)'
<1> DEFINE s == sock[t]
           h == Head(s)
<1>1. EachSorted(t) /\ StagesInOrder(t)
  BY StageOrderIs
<1>2. /\ UNCHANGED <<arrived, ring, it_block, block, copied, log>>
      /\ ~Copying(t) /\ ~Copying(t)' /\ pc[t] = "next"
  BY DEF Receive, ReceiveFails, PcapClose, Goto, Copying, copyVars, flowVars,
         TypeOK, ThreadType
<1>3. pkt_queue[t] = <<>>
  BY <1>2 DEF Control
<1>4. Elems(pkt_queue[t]) = {}
  BY <1>3 DEF Elems
<1>5. /\ RingIds(t)' = RingIds(t) /\ RingSorted(t)'
      /\ BlockIds(t)' = BlockIds(t) /\ BlockIds(t) = {}
  <2>1. /\ RingIds(t)' = RingIds(t) /\ RingSorted(t)'
        /\ BlockIds(t)' = BlockIds(t)
    BY <1>1, <1>2, RingFrame DEF EachSorted
  <2> QED
    BY <1>2, <2>1 DEF BlockIds
<1>6. /\ LogIds(t)' = LogIds(t) /\ LogSorted(t)'
      /\ \A b \in Blocks : Sorted(ring[t][b])'
  BY <1>1, <1>2 DEF EachSorted, LogIds, LogSorted, Elems, Sorted
<1>7. CASE PcapClose(t)
  <2>1. sock'[t] = <<>> /\ pkt_queue' = pkt_queue /\ type = "pcap"
    BY <1>7 DEF PcapClose, copyVars, TypeOK, KernelType
  <2>2. /\ Elems(pkt_queue[t])' = {} /\ Elems(sock[t])' = {}
        /\ Sorted(pkt_queue[t])' /\ Sorted(sock[t])'
    BY <1>3, <2>1 DEF Elems, Sorted
  <2>3. EachSorted(t)'
    BY <1>5, <1>6, <2>2 DEF EachSorted
  <2>4. StagesInOrder(t)'
    BY <1>1, <1>2, <1>5, <1>6, <2>2 DEF StagesInOrder, InOrder, Below
  <2> QED
    BY <2>1, <2>3, <2>4, StageOrderNext
<1>8. CASE Receive(t) \/ ReceiveFails(t)
  <2>1. /\ s \in Seq(Nat) /\ s # <<>>
        /\ pkt_queue'[t] = <<h>> /\ sock'[t] = Tail(s)
    BY <1>8 DEF Receive, ReceiveFails, TypeOK, KernelType, ThreadType
  <2>2. Sorted(s)
    BY <1>1 DEF EachSorted
  <2>3. RingIds(t) = {}
    <3>1. \A b \in Blocks : ring[t][b] = <<>>
      BY <2>1 DEF Control
    <3>2. \A b \in Blocks : Elems(ring[t][b]) = {}
      BY <3>1 DEF Elems
    <3> QED
      BY <3>2 DEF RingIds, Others
  <2> HIDE DEF s
  <2>4. /\ h \in Nat /\ Tail(s) \in Seq(Nat)
        /\ Elems(s) = {h} \cup Elems(Tail(s))
        /\ Sorted(Tail(s)) /\ Below({h}, Elems(Tail(s)))
    BY <2>1, <2>2, TailElems
  <2> HIDE DEF h
  <2>5. Elems(<<h>>) = {h} /\ Sorted(<<h>>)
    <3>1. DOMAIN <<h>> = {1} /\ <<h>>[1] = h
      OBVIOUS
    <3> QED
      BY <3>1 DEF Elems, Sorted
  <2>6. /\ Elems(pkt_queue'[t]) = {h} /\ Elems(sock'[t]) = Elems(Tail(s))
        /\ Sorted(pkt_queue'[t]) /\ Sorted(sock'[t])
    BY <2>1, <2>4, <2>5
  <2>7. /\ Elems(pkt_queue[t])' = {h} /\ Elems(sock[t])' = Elems(Tail(s))
        /\ Sorted(pkt_queue[t])' /\ Sorted(sock[t])'
    BY <2>6 DEF Elems, Sorted
  <2>8. EachSorted(t)'
    BY <1>5, <1>6, <2>7 DEF EachSorted
  <2>9. Elems(sock[t]) = {h} \cup Elems(Tail(s))
    BY <2>4 DEF s
  <2>10. StagesInOrder(t)'
    BY <1>1, <1>2, <1>5, <1>6, <2>3, <2>4, <2>7, <2>9
    DEF StagesInOrder, InOrder, Below
  <2>11. Ids(t)' = Ids(t)
    BY <1>4, <1>5, <1>6, <2>7, <2>9 DEF Ids, Waiting
  <2> QED
    BY <2>8, <2>10, <2>11, StageOrderNext
<1> QED
  BY <1>7, <1>8

\* The first packet of the queue is processed.
LEMMA StageProcess ==
  ASSUME TypeOK, NEW t \in Threads, StageOrder(t),
         RejectLink(t) \/ RejectNet(t) \/ DropFlow(t) \/ CountFlow(t)
  PROVE  StageOrder(t)' /\ Ids(t)' = Ids(t)
<1> DEFINE q == pkt_queue[t]
           h == Head(q)
<1>1. EachSorted(t) /\ StagesInOrder(t)
  BY StageOrderIs
<1>2. /\ q # <<>> /\ pkt_queue' = [pkt_queue EXCEPT ![t] = Tail(q)]
      /\ UNCHANGED <<arrived, ring, sock, it_block, block, copied>>
      /\ ~Copying(t) /\ pc' = [pc EXCEPT ![t] = "process"]
  BY ProcessCases DEF kernelVars, Copying
<1>3. ~Copying(t)'
  BY <1>2 DEF Copying, TypeOK, ThreadType
<1>4. PICK key \in Key \cup {NULL}, admitted \in BOOLEAN :
        log' = Append(log, [thread |-> t, id |-> h, key |-> key,
                            admitted |-> admitted])
  BY ProcessCases
<1> DEFINE e == [thread |-> t, id |-> h, key |-> key, admitted |-> admitted]
<1>5. q \in Seq(Nat) /\ pkt_queue'[t] = Tail(q)
  BY <1>2 DEF TypeOK, ThreadType
<1> HIDE DEF q
<1>6. /\ h \in Nat /\ Tail(q) \in Seq(Nat)
      /\ Elems(q) = {h} \cup Elems(Tail(q))
      /\ Sorted(q) => Sorted(Tail(q)) /\ Below({h}, Elems(Tail(q)))
  BY <1>2, <1>5, TailElems
<1> HIDE DEF h
<1>7. Sorted(q) /\ Below(LogIds(t), Elems(q))
  BY <1>1 DEF EachSorted, StagesInOrder, InOrder, q
<1>8. e \in LogEntry /\ e.thread = t /\ e.id = h
  BY <1>6 DEF LogEntry
<1>9. log' = Append(log, e)
  BY <1>4
<1> HIDE DEF e
<1>10. Below(LogIds(t), {h})
  BY <1>6, <1>7 DEF Below
<1>11. LogIds(t)' = LogIds(t) \cup {h} /\ LogSorted(t)'
  BY <1>1, <1>8, <1>9, <1>10, LogStep DEF EachSorted
<1>12. /\ RingIds(t)' = RingIds(t) /\ RingSorted(t)'
       /\ BlockIds(t)' = BlockIds(t)
  BY <1>1, <1>2, <1>3, RingFrame DEF EachSorted
<1>13. /\ Elems(sock[t])' = Elems(sock[t]) /\ Sorted(sock[t])'
       /\ \A b \in Blocks : Sorted(ring[t][b])'
  BY <1>1, <1>2 DEF EachSorted, Elems, Sorted
<1>14. Elems(pkt_queue'[t]) = Elems(Tail(q)) /\ Sorted(pkt_queue'[t])
  BY <1>5, <1>6, <1>7
<1>15. Elems(pkt_queue[t])' = Elems(Tail(q)) /\ Sorted(pkt_queue[t])'
  BY <1>14 DEF Elems, Sorted
<1>16. EachSorted(t)'
  BY <1>11, <1>12, <1>13, <1>15 DEF EachSorted
<1>17. Elems(pkt_queue[t]) = {h} \cup Elems(Tail(q)) /\ Below({h}, Elems(Tail(q)))
  BY <1>6, <1>7 DEF q
<1>18. StagesInOrder(t)'
  BY <1>1, <1>2, <1>11, <1>12, <1>13, <1>15, <1>17
  DEF StagesInOrder, InOrder, Below
<1>19. Ids(t)' = Ids(t)
  BY <1>11, <1>12, <1>13, <1>15, <1>17 DEF Ids, Waiting
<1> QED
  BY <1>16, <1>18, <1>19, StageOrderNext

\* The order is kept, and no packet leaves but filtered ones and those of a
\* buffer of libpcap.
LEMMA StageKept ==
  ASSUME TypeOK, Control, \A u \in Threads : StageOrder(u) /\ RingShape(u),
         [Next]_vars, NEW t \in Threads
  PROVE  /\ StageOrder(t)'
         /\ type # "pcap" =>
              \A x \in Ids(t) : x \in Ids(t)' \/ trace[x].filtered
<1>1. StageOrder(t) /\ RingShape(t)
  OBVIOUS
<1>2. arrived \in Nat
  BY DEF TypeOK, KernelType
<1>3. CASE Still(t)
  BY <1>1, <1>3, StageStill DEF Still
<1>4. CASE Arrive(t)
  <2> DEFINE i == arrived + 1
  <2>1. /\ i \in Nat /\ arrived' = i
        /\ UNCHANGED <<pc, copyVars, log>>
    BY <1>4, ArriveCases DEF flowVars
  <2>2. CASE UNCHANGED <<ring, sock>>
    <3>1. UNCHANGED <<it_block, block, copied, pkt_queue>>
      BY <2>1 DEF copyVars
    <3>2. (Copying(t)' <=> Copying(t)) /\ arrived' \in Nat /\ arrived <= arrived'
      BY <1>2, <2>1 DEF Copying
    <3>3. StageOrder(t)' /\ Ids(t)' = Ids(t)
      BY <1>1, <2>1, <2>2, <3>1, <3>2, StageStill
    <3> QED
      BY <3>3
  <2>3. CASE ArriveRing(t, i) /\ status[t][kblock[t]] = "kernel"
    <3>1. /\ ring' = [ring EXCEPT ![t][kblock[t]] =
                        Append(ring[t][kblock[t]], i)]
          /\ UNCHANGED sock
      BY <2>3 DEF ArriveRing
    <3>2. StageOrder(t)' /\ Ids(t)' = Ids(t) \cup {i}
      BY <1>1, <2>1, <2>3, <3>1, StageArriveRing
    <3> QED
      BY <3>2
  <2>4. CASE ArriveSocket(t, i) /\ Len(sock[t]) < SocketSize
    <3>1. /\ sock' = [sock EXCEPT ![t] = Append(sock[t], i)]
          /\ UNCHANGED ring
      BY <2>4 DEF ArriveSocket
    <3>2. StageOrder(t)' /\ Ids(t)' = Ids(t) \cup {i}
      BY <1>1, <2>1, <3>1, StageArriveSocket
    <3> QED
      BY <3>2
  <2>5. CASE ArriveRing(t, i) /\ status[t][kblock[t]] # "kernel"
    BY <2>2, <2>5 DEF ArriveRing
  <2>6. CASE ArriveSocket(t, i) /\ ~(Len(sock[t]) < SocketSize)
    BY <2>2, <2>6 DEF ArriveSocket
  <2> QED
    BY <1>4, <2>2, <2>3, <2>4, <2>5, <2>6, ArriveCases
<1>5. CASE Retire(t)
  <2>1. /\ UNCHANGED <<arrived, ring, sock, it_block, block, copied,
                       pkt_queue, log>>
        /\ Copying(t)' <=> Copying(t)
    BY <1>5 DEF Retire, copyVars, flowVars, Copying
  <2>2. StageOrder(t)' /\ Ids(t)' = Ids(t)
    BY <1>1, <1>2, <2>1, StageStill
  <2> QED
    BY <2>2
<1>6. CASE NextReady(t)
  BY <1>1, <1>6, StageNextReady
<1>7. CASE CopyPacket(t) \/ CountFiltered(t)
  BY <1>1, <1>7, StageCopy
<1>8. CASE Release(t)
  BY <1>1, <1>8, StageRelease
<1>9. CASE Receive(t) \/ ReceiveFails(t) \/ PcapClose(t)
  BY <1>1, <1>9, StageReceive
<1>10. CASE RejectLink(t) \/ RejectNet(t) \/ DropFlow(t) \/ CountFlow(t)
  BY <1>1, <1>10, StageProcess
<1> QED
  BY <1>3, <1>4, <1>5, <1>6, <1>7, <1>8, <1>9, <1>10, StillOrMoves DEF Moves

\* A packet that arrives has a place, unless it is lost or filtered.
LEMMA ArrivalKept ==
  ASSUME TypeOK, Control, \A u \in Threads : StageOrder(u) /\ RingShape(u),
         NEW t \in Threads, Arrive(t)
  PROVE  LET i == arrived + 1 IN
         i \in lost' \/ trace[i].filtered \/ i \in Ids(t)'
<1> DEFINE i == arrived + 1
<1>1. StageOrder(t) /\ RingShape(t)
  OBVIOUS
<1>2. /\ i \in Nat /\ arrived' = i /\ UNCHANGED <<pc, copyVars, log>>
  BY ArriveCases DEF flowVars
<1>3. CASE ~Reaches(trace[i])
  BY <1>3 DEF Reaches
<1>4. CASE ArriveRing(t, i)
  <2>1. CASE status[t][kblock[t]] = "kernel"
    <3>1. /\ ring' = [ring EXCEPT ![t][kblock[t]] =
                        Append(ring[t][kblock[t]], i)]
          /\ UNCHANGED sock
      BY <1>4, <2>1 DEF ArriveRing
    <3> QED
      BY <1>1, <1>2, <2>1, <3>1, StageArriveRing
  <2>2. CASE status[t][kblock[t]] # "kernel"
    BY <1>4, <2>2 DEF ArriveRing
  <2> QED
    BY <2>1, <2>2
<1>5. CASE ArriveSocket(t, i)
  <2>1. CASE Len(sock[t]) < SocketSize
    <3>1. /\ sock' = [sock EXCEPT ![t] = Append(sock[t], i)]
          /\ UNCHANGED ring
      BY <1>5, <2>1 DEF ArriveSocket
    <3> QED
      BY <1>1, <1>2, <3>1, StageArriveSocket
  <2>2. CASE ~(Len(sock[t]) < SocketSize)
    BY <1>5, <2>2 DEF ArriveSocket
  <2> QED
    BY <2>1, <2>2
<1> QED
  BY <1>3, <1>4, <1>5, ArriveCases

LEMMA NoneLeftOutKept ==
  ASSUME TypeOK, Control, \A u \in Threads : StageOrder(u) /\ RingShape(u),
         NoneLeftOut, [Next]_vars
  PROVE  NoneLeftOut'
<1>1. type' = type /\ trace' = trace /\ lost \subseteq lost'
  <2>1. CASE UNCHANGED <<type, kernelVars>>
    BY <2>1 DEF kernelVars
  <2>2. CASE GetCaptureStats
    BY <2>2 DEF GetCaptureStats, captureVars
  <2>3. ASSUME NEW t \in Threads,
               \/ Retire(t) \/ Release(t) \/ Overrun(t)
               \/ Receive(t) \/ ReceiveFails(t) \/ PcapClose(t)
        PROVE  type' = type /\ trace' = trace /\ lost \subseteq lost'
    BY <2>3 DEF Retire, Release, Overrun, Receive, ReceiveFails, PcapClose
  <2>4. ASSUME NEW t \in Threads, Arrive(t)
        PROVE  type' = type /\ trace' = trace /\ lost \subseteq lost'
    BY <2>4 DEF Arrive, ArriveRing, ArriveSocket
  <2> QED
    BY <2>1, <2>2, <2>3, <2>4, KernelFrame
<1>2. arrived' = arrived
      \/ \E t \in Threads : Arrive(t) /\ arrived' = arrived + 1
  <2>1. CASE UNCHANGED <<type, kernelVars>>
    BY <2>1 DEF kernelVars
  <2>2. CASE GetCaptureStats
    BY <2>2 DEF GetCaptureStats, captureVars
  <2>3. ASSUME NEW t \in Threads,
               \/ Retire(t) \/ Release(t) \/ Overrun(t)
               \/ Receive(t) \/ ReceiveFails(t) \/ PcapClose(t)
        PROVE  arrived' = arrived
    BY <2>3 DEF Retire, Release, Overrun, Receive, ReceiveFails, PcapClose
  <2>4. ASSUME NEW t \in Threads, Arrive(t) PROVE arrived' = arrived + 1
    BY <2>4 DEF Arrive
  <2> QED
    BY <2>1, <2>2, <2>3, <2>4, KernelFrame
<1>3. arrived \in Nat
  BY DEF TypeOK, KernelType
<1>4. ASSUME type # "pcap", NEW i \in 1..arrived'
      PROVE  i \in lost' \/ trace[i].filtered \/ \E t \in Threads : i \in Ids(t)'
  <2>1. CASE i \in 1..arrived
    <3>1. i \in lost \/ trace[i].filtered \/ \E t \in Threads : i \in Ids(t)
      BY <1>4, <2>1 DEF NoneLeftOut
    <3>2. ASSUME NEW t \in Threads, i \in Ids(t)
          PROVE  i \in Ids(t)' \/ trace[i].filtered
      BY <1>4, <3>2, StageKept
    <3> QED
      BY <1>1, <3>1, <3>2
  <2>2. CASE i \notin 1..arrived
    <3>1. PICK t \in Threads : Arrive(t) /\ arrived' = arrived + 1
      BY <1>2, <2>2
    <3>2. i = arrived + 1
      BY <1>3, <2>2, <3>1
    <3> QED
      BY <3>1, <3>2, ArrivalKept
  <2> QED
    BY <2>1, <2>2
<1> QED
  BY <1>1, <1>4 DEF NoneLeftOut

\* What is held at some place is what the stages hold.
LEMMA HeldIds ==
  ASSUME NEW t \in Threads, NEW i \in Ids(t)
  PROVE  \E p \in Held(t) : p.id = i
<1>1. CASE i \in LogIds(t)
  <2>1. PICK n \in DOMAIN log : log[n].thread = t /\ i = log[n].id
    BY <1>1 DEF LogIds
  <2>2. At(1, 0, n, log[n].id) \in Held(t)
    BY <2>1 DEF Held
  <2> QED
    BY <2>1, <2>2 DEF At
<1>2. CASE i \in Elems(pkt_queue[t])
  <2>1. PICK n \in DOMAIN pkt_queue[t] : i = pkt_queue[t][n]
    BY <1>2 DEF Elems
  <2>2. At(2, 0, n, pkt_queue[t][n]) \in Held(t)
    BY DEF Held
  <2> QED
    BY <2>1, <2>2 DEF At
<1>3. CASE i \in BlockIds(t)
  <2> DEFINE s == ring[t][block[t]]
  <2>1. PICK n \in DOMAIN s : Copying(t) /\ n > copied[t] /\ i = s[n]
    BY <1>3 DEF BlockIds
  <2>2. At(3, 0, n, s[n]) \in Held(t)
    BY <2>1 DEF Held
  <2> QED
    BY <2>1, <2>2 DEF At
<1>4. CASE i \in RingIds(t)
  <2>1. PICK b \in Others(t) : i \in Elems(ring[t][b])
    BY <1>4 DEF RingIds
  <2>2. PICK n \in DOMAIN ring[t][b] : i = ring[t][b][n]
    BY <2>1 DEF Elems
  <2>3. At(4, Ahead(t, b), n, ring[t][b][n]) \in Held(t)
    BY DEF Held, Others
  <2> QED
    BY <2>2, <2>3 DEF At
<1>5. CASE i \in Elems(sock[t])
  <2>1. PICK n \in DOMAIN sock[t] : i = sock[t][n]
    BY <1>5 DEF Elems
  <2>2. At(5, 0, n, sock[t][n]) \in Held(t)
    BY DEF Held
  <2> QED
    BY <2>1, <2>2 DEF At
<1> QED
  BY <1>1, <1>2, <1>3, <1>4, <1>5 DEF Ids, Waiting

\* A place, by its stage
PlaceOf(t, p) ==
  \/ /\ p.stage = 1 /\ p.ahead = 0 /\ p.n \in DOMAIN log
     /\ log[p.n].thread = t /\ p.id = log[p.n].id
  \/ /\ p.stage = 2 /\ p.ahead = 0 /\ p.n \in DOMAIN pkt_queue[t]
     /\ p.id = pkt_queue[t][p.n]
  \/ /\ p.stage = 3 /\ p.ahead = 0 /\ p.n \in DOMAIN ring[t][block[t]]
     /\ Copying(t) /\ p.n > copied[t] /\ p.id = ring[t][block[t]][p.n]
  \/ /\ p.stage = 4
     /\ \E b \in Others(t) : /\ p.ahead = Ahead(t, b)
                             /\ p.n \in DOMAIN ring[t][b]
                             /\ p.id = ring[t][b][p.n]
  \/ /\ p.stage = 5 /\ p.ahead = 0 /\ p.n \in DOMAIN sock[t]
     /\ p.id = sock[t][p.n]

LEMMA HeldPlaces ==
  ASSUME NEW t \in Threads, NEW p \in Held(t)
  PROVE  PlaceOf(t, p)
<1>1. \/ \E n \in DOMAIN log : /\ log[n].thread = t
                               /\ p = At(1, 0, n, log[n].id)
      \/ \E n \in DOMAIN pkt_queue[t] : p = At(2, 0, n, pkt_queue[t][n])
      \/ \E n \in DOMAIN ring[t][block[t]] :
           /\ Copying(t) /\ n > copied[t]
           /\ p = At(3, 0, n, ring[t][block[t]][n])
      \/ \E b \in Others(t) : \E n \in DOMAIN ring[t][b] :
           p = At(4, Ahead(t, b), n, ring[t][b][n])
      \/ \E n \in DOMAIN sock[t] : p = At(5, 0, n, sock[t][n])
  BY DEF Held, Others
<1> QED
  BY <1>1 DEF At, PlaceOf

\* The packets of a thread are in order from the log to the socket.
LEMMA HeldInOrder ==
  ASSUME TypeOK, Control, NEW t \in Threads, StageOrder(t),
         NEW p \in Held(t), NEW q \in Held(t), Before(p, q)
  PROVE  p.id < q.id
<1> DEFINE L == LogIds(t)
           Q == Elems(pkt_queue[t])
           B == BlockIds(t)
           R == RingIds(t)
           S == Elems(sock[t])
<1>1. EachSorted(t) /\ InOrder(L, Q, B, R, S, arrived)
  BY StageOrderIs DEF StagesInOrder
<1>2. PlaceOf(t, p) /\ PlaceOf(t, q)
  BY HeldPlaces
<1>3. ASSUME NEW x, PlaceOf(t, x)
      PROVE  /\ x.stage \in {1, 2, 3, 4, 5}
             /\ x.stage = 1 => x.id \in L
             /\ x.stage = 2 => x.id \in Q
             /\ x.stage = 3 => x.id \in B
             /\ x.stage = 4 => x.id \in R
             /\ x.stage = 5 => x.id \in S
  BY <1>3 DEF PlaceOf, LogIds, Elems, BlockIds, RingIds
<1>4. (B = {} /\ R = {}) \/ S = {}
  <2>1. CASE type = "tpv3"
    BY <2>1 DEF Control, Elems
  <2>2. CASE type # "tpv3"
    <3>1. ~Copying(t) /\ \A b \in Blocks : ring[t][b] = <<>>
      BY <2>2 DEF Control
    <3>2. \A b \in Blocks : Elems(ring[t][b]) = {}
      BY <3>1 DEF Elems
    <3>3. B = {}
      BY <3>1 DEF BlockIds
    <3>4. R = {}
      BY <3>2 DEF RingIds, Others
    <3> QED
      BY <3>3, <3>4
  <2> QED
    BY <2>1, <2>2
<1>5. CASE p.stage < q.stage
  <2>1. /\ Below(L, Q) /\ Below(L, B) /\ Below(L, R) /\ Below(L, S)
        /\ Below(Q, B) /\ Below(Q, R) /\ Below(Q, S)
        /\ Below(B, R) /\ Below(B, S) /\ Below(R, S)
    BY <1>1, <1>4 DEF InOrder, Below
  <2> HIDE DEF L, Q, B, R, S
  <2> QED
    BY <1>2, <1>3, <1>5, <2>1 DEF Below
<1>6. CASE p.stage = q.stage /\ p.stage # 4
  <2>1. p.n < q.n
    <3>1. p.ahead = 0 /\ q.ahead = 0
      BY <1>2, <1>6 DEF PlaceOf
    <3>2. ~(p.stage < q.stage)
      BY <1>2, <1>3, <1>6
    <3> QED
      BY <3>1, <3>2 DEF Before
  <2>2. CASE p.stage = 1
    BY <1>1, <1>2, <1>6, <2>1, <2>2 DEF PlaceOf, EachSorted, LogSorted
  <2>3. CASE p.stage = 2
    BY <1>1, <1>2, <1>6, <2>1, <2>3 DEF PlaceOf, EachSorted, Sorted
  <2>4. CASE p.stage = 3
    <3>1. Sorted(ring[t][block[t]])
      BY <1>1, AheadIs DEF EachSorted
    <3>2. /\ p.n \in DOMAIN ring[t][block[t]] /\ p.id = ring[t][block[t]][p.n]
          /\ q.n \in DOMAIN ring[t][block[t]] /\ q.id = ring[t][block[t]][q.n]
      BY <1>2, <1>6, <2>4 DEF PlaceOf
    <3> QED
      BY <2>1, <3>1, <3>2 DEF Sorted
  <2>5. CASE p.stage = 5
    BY <1>1, <1>2, <1>6, <2>1, <2>5 DEF PlaceOf, EachSorted, Sorted
  <2> QED
    BY <1>2, <1>3, <1>6, <2>2, <2>3, <2>4, <2>5
<1>7. CASE p.stage = 4 /\ q.stage = 4
  <2>1. PICK b \in Others(t) : /\ p.ahead = Ahead(t, b)
                               /\ p.n \in DOMAIN ring[t][b]
                               /\ p.id = ring[t][b][p.n]
    BY <1>2, <1>7 DEF PlaceOf
  <2>2. PICK c \in Others(t) : /\ q.ahead = Ahead(t, c)
                               /\ q.n \in DOMAIN ring[t][c]
                               /\ q.id = ring[t][c][q.n]
    BY <1>2, <1>7 DEF PlaceOf
  <2>3. b \in Blocks /\ c \in Blocks /\ it_block[t] \in Blocks
    BY AheadIs DEF Others
  <2>4. \/ p.ahead < q.ahead
        \/ p.ahead = q.ahead /\ p.n < q.n
    BY <1>7 DEF Before
  <2>5. CASE p.ahead < q.ahead
    BY <1>1, <2>1, <2>2, <2>5 DEF EachSorted, RingSorted, Below, Elems
  <2>6. CASE p.ahead = q.ahead /\ p.n < q.n
    <3>1. Gap(it_block[t], b) = Gap(it_block[t], c)
      <4>1. /\ Ahead(t, b) = Gap(it_block[t], b)
            /\ Ahead(t, c) = Gap(it_block[t], c)
        BY DEF Ahead, Gap
      <4> QED
        BY <2>1, <2>2, <2>6, <4>1
    <3>2. b = c
      BY <2>3, <3>1, GapIs
    <3>3. Sorted(ring[t][b])
      BY <1>1, <2>3 DEF EachSorted
    <3> QED
      BY <2>1, <2>2, <2>6, <3>2, <3>3 DEF Sorted
  <2> QED
    BY <2>4, <2>5, <2>6
<1> QED
  BY <1>5, <1>6, <1>7 DEF Before

LEMMA OrderHolds ==
  ASSUME TypeOK, Control, \A t \in Threads : StageOrder(t), NoneLeftOut
  PROVE  OnceInOrder
<1>1. \A t \in Threads : \A p, q \in Held(t) : Before(p, q) => p.id < q.id
  BY HeldInOrder
<1>2. ASSUME type # "pcap", NEW i \in 1..arrived, ~trace[i].filtered,
             i \notin lost
      PROVE  i \in {p.id : p \in UNION {Held(t) : t \in Threads}}
  <2>1. PICK t \in Threads : i \in Ids(t)
    BY <1>2 DEF NoneLeftOut
  <2>2. PICK p \in Held(t) : p.id = i
    BY <2>1, HeldIds
  <2>3. p \in UNION {Held(u) : u \in Threads}
    OBVIOUS
  <2> QED
    BY <2>2, <2>3
<1>3. type # "pcap" =>
        {i \in 1..arrived : ~trace[i].filtered} \ lost
          \subseteq {p.id : p \in UNION {Held(t) : t \in Threads}}
  BY <1>2
<1> QED
  BY <1>1, <1>3 DEF OnceInOrder

-----------------------------------------------------------------------------
\* Sums.  Total counts the elements of a set, so what a value adds to a sum is
\* what the library says of the union of disjoint finite sets.

\* An interface has finitely many capture threads.
LEMMA ThreadsFinite == IsFiniteSet(Threads)
BY CaptureAssumption

Units(f) == UNION {{x} \X (1..f[x]) : x \in DOMAIN f}

\* The units of one value
LEMMA UnitsOfOne ==
  ASSUME NEW x, NEW n \in Nat
  PROVE  IsFiniteSet({x} \X (1..n)) /\ Cardinality({x} \X (1..n)) = n
<1>1. IsFiniteSet({x}) /\ Cardinality({x}) = 1
  BY FS_Singleton
<1>2. IsFiniteSet(1..n) /\ Cardinality(1..n) = n
  <2>1. /\ IsFiniteSet(1..n)
        /\ Cardinality(1..n) = IF 1 > n THEN 0 ELSE n - 1 + 1
    BY FS_Interval
  <2> QED
    BY <2>1
<1>3. /\ IsFiniteSet({x} \X (1..n))
      /\ Cardinality({x} \X (1..n)) = Cardinality({x}) * Cardinality(1..n)
  BY <1>1, <1>2, FS_Product
<1> QED
  BY <1>1, <1>2, <1>3

LEMMA UnitsFinite ==
  ASSUME NEW S, IsFiniteSet(S), NEW f \in [S -> Nat]
  PROVE  IsFiniteSet(Units(f)) /\ Total(f) \in Nat
<1> DEFINE U(x) == {x} \X (1..f[x])
           g == [x \in S |-> U(x)]
           C == {U(x) : x \in S}
<1>1. \A T \in C : IsFiniteSet(T)
  <2>1. ASSUME NEW x \in S PROVE IsFiniteSet(U(x))
    <3>1. f[x] \in Nat
      OBVIOUS
    <3> QED
      BY <3>1, UnitsOfOne
  <2> QED
    BY <2>1
<1>2. IsFiniteSet(C)
  <2>1. g \in Surjection(S, C)
    BY Fun_IsSurj
  <2> HIDE DEF g, C
  <2> QED
    BY <2>1, FS_Surjection
<1>3. Units(f) = UNION C
  BY DEF Units
<1> HIDE DEF C
<1>4. IsFiniteSet(Units(f))
  BY <1>1, <1>2, <1>3, FS_UNION
<1>5. Total(f) = Cardinality(Units(f))
  BY DEF Total, Units
<1> QED
  BY <1>4, <1>5, FS_CardinalityType

\* One value more
LEMMA TotalAdd ==
  ASSUME NEW S, IsFiniteSet(S), NEW x, x \notin S, NEW f \in [S -> Nat],
         NEW g \in [S \cup {x} -> Nat], \A y \in S : g[y] = f[y]
  PROVE  Total(g) = Total(f) + g[x] /\ Total(f) \in Nat /\ Total(g) \in Nat
<1> DEFINE A == Units(f)
           B == {x} \X (1..g[x])
<1>1. IsFiniteSet(A) /\ Total(f) \in Nat
  BY UnitsFinite
<1>2. IsFiniteSet(B) /\ Cardinality(B) = g[x] /\ g[x] \in Nat
  <2>1. g[x] \in Nat
    OBVIOUS
  <2> QED
    BY <2>1, UnitsOfOne
<1>3. Units(g) = A \cup B
  <2>1. ASSUME NEW u \in Units(g) PROVE u \in A \cup B
    <3>1. PICK y \in S \cup {x} : u \in {y} \X (1..g[y])
      BY DEF Units
    <3> QED
      BY <3>1 DEF Units
  <2>2. ASSUME NEW u \in A PROVE u \in Units(g)
    <3>1. PICK y \in S : u \in {y} \X (1..f[y])
      BY DEF Units
    <3> QED
      BY <3>1 DEF Units
  <2>3. ASSUME NEW u \in B PROVE u \in Units(g)
    BY DEF Units
  <2> QED
    BY <2>1, <2>2, <2>3
<1>4. A \cap B = {}
  BY DEF Units
<1>5. Total(g) = Cardinality(Units(g)) /\ Total(f) = Cardinality(A)
  BY DEF Total, Units
<1> HIDE DEF A, B
<1>6. Cardinality(A \cup B) =
        Cardinality(A) + Cardinality(B) - Cardinality(A \cap B)
  BY <1>1, <1>2, FS_Union
<1>7. Cardinality(A \cap B) = 0
  BY <1>4, FS_EmptySet
<1> QED
  BY <1>1, <1>2, <1>3, <1>5, <1>6, <1>7

LEMMA TotalExtend ==
  ASSUME NEW n \in Nat, NEW f, NEW g
  PROVE  /\ f \in [1..n -> Nat] /\ g \in [1..(n + 1) -> Nat]
         /\ \A m \in 1..n : g[m] = f[m]
         => Total(g) = Total(f) + g[n + 1]
<1> DEFINE S == 1..n
           x == n + 1
<1>1. SUFFICES ASSUME f \in [S -> Nat], g \in [1..x -> Nat],
                      \A y \in S : g[y] = f[y]
               PROVE  Total(g) = Total(f) + g[x]
  OBVIOUS
<1>2. IsFiniteSet(S)
  BY FS_Interval
<1>3. x \notin S /\ 1..x = S \cup {x}
  OBVIOUS
<1> HIDE DEF S, x
<1>4. x \notin S
  BY <1>3
<1>5. f \in [S -> Nat]
  BY <1>1
<1>6. g \in [S \cup {x} -> Nat]
  BY <1>1, <1>3
<1>7. \A y \in S : g[y] = f[y]
  BY <1>1
<1>8. PICK T : T = S
  OBVIOUS
<1>9. PICK z : z = x
  OBVIOUS
<1>10. /\ IsFiniteSet(T) /\ z \notin T
       /\ f \in [T -> Nat] /\ g \in [T \cup {z} -> Nat]
       /\ \A y \in T : g[y] = f[y]
  BY <1>2, <1>4, <1>5, <1>6, <1>7, <1>8, <1>9
<1>11. Total(g) = Total(f) + g[z]
  BY <1>10, TotalAdd
<1> QED
  BY <1>9, <1>11

\* Another value at one place
LEMMA TotalChange ==
  ASSUME NEW S, IsFiniteSet(S), NEW x \in S, NEW f \in [S -> Nat],
         NEW g \in [S -> Nat], \A y \in S : y # x => g[y] = f[y]
  PROVE  /\ Total(f) \in Nat /\ Total(g) \in Nat
         /\ Total(g) + f[x] = Total(f) + g[x]
<1> DEFINE R == S \ {x}
           h == [y \in R |-> f[y]]
<1>1. IsFiniteSet(R) /\ x \notin R /\ R \cup {x} = S
  BY FS_RemoveElement
<1>2. /\ h \in [R -> Nat]
      /\ \A y \in R : f[y] = h[y] /\ g[y] = h[y]
      /\ f[x] \in Nat /\ g[x] \in Nat
  OBVIOUS
<1> HIDE DEF R, h
<1>3. f \in [R \cup {x} -> Nat] /\ g \in [R \cup {x} -> Nat]
  BY <1>1
<1>4. Total(f) = Total(h) + f[x] /\ Total(h) \in Nat /\ Total(f) \in Nat
  BY <1>1, <1>2, <1>3, TotalAdd
<1>5. Total(g) = Total(h) + g[x] /\ Total(g) \in Nat
  BY <1>1, <1>2, <1>3, TotalAdd
<1> QED
  BY <1>2, <1>4, <1>5

-----------------------------------------------------------------------------
\* The counters

\* What each thread still contributes to a counter
Shares(c) ==
  [t \in Threads |-> IF upc = "reset" /\ t = asked THEN 0 ELSE stats[t][c]]

LEMMA ReportedIs ==
  ASSUME TypeOK, NEW c \in Counters
  PROVE  /\ Shares(c) \in [Threads -> Nat] /\ Total(Shares(c)) \in Nat
         /\ pkt_stats[c] \in Nat /\ pkt_stats_global[c] \in Nat
         /\ Reported(c) = pkt_stats_global[c] + pkt_stats[c] + Total(Shares(c))
         /\ Reported(c) \in Nat
<1>1. /\ pkt_stats[c] \in Nat /\ pkt_stats_global[c] \in Nat
      /\ \A t \in Threads : stats[t][c] \in Nat
  BY DEF TypeOK, CountType, Stats
<1>2. Shares(c) \in [Threads -> Nat]
  BY <1>1 DEF Shares
<1>3. Total(Shares(c)) \in Nat
  BY <1>2, UnitsFinite, ThreadsFinite
<1>4. Reported(c) = pkt_stats_global[c] + pkt_stats[c] + Total(Shares(c))
  BY DEF Reported, Shares
<1> QED
  BY <1>1, <1>2, <1>3, <1>4

LEMMA ReportedIsNext ==
  ASSUME TypeOK', NEW c \in Counters
  PROVE  /\ Shares(c)' \in [Threads -> Nat] /\ Total(Shares(c)') \in Nat
         /\ pkt_stats'[c] \in Nat /\ pkt_stats_global'[c] \in Nat
         /\ Reported(c)' =
              pkt_stats_global'[c] + pkt_stats'[c] + Total(Shares(c)')
         /\ Reported(c)' \in Nat
<1>1. /\ pkt_stats'[c] \in Nat /\ pkt_stats_global'[c] \in Nat
      /\ \A t \in Threads : stats'[t][c] \in Nat
  BY DEF TypeOK, CountType, Stats
<1>2. Shares(c)' \in [Threads -> Nat]
  BY <1>1 DEF Shares
<1>3. Total(Shares(c)') \in Nat
  BY <1>2, UnitsFinite, ThreadsFinite
<1>4. Reported(c)' = pkt_stats_global'[c] + pkt_stats'[c] + Total(Shares(c)')
  BY DEF Reported, Shares, Total
<1> QED
  BY <1>1, <1>2, <1>3, <1>4

\* One thread counts, and no update has its counters in hand.
LEMMA ReportedCounts ==
  ASSUME TypeOK, TypeOK', NEW c \in Counters, NEW t \in Threads,
         ~(upc = "reset" /\ t = asked), ~(upc' = "reset" /\ t = asked'),
         \A u \in Threads : u # t => Shares(c)'[u] = Shares(c)[u],
         pkt_stats'[c] = pkt_stats[c],
         pkt_stats_global'[c] = pkt_stats_global[c]
  PROVE  /\ Reported(c)' + stats[t][c] = Reported(c) + stats'[t][c]
         /\ stats[t][c] \in Nat /\ stats'[t][c] \in Nat
         /\ Reported(c) \in Nat /\ Reported(c)' \in Nat
<1> DEFINE f == Shares(c)
           g == Shares(c)'
<1>1. f[t] = stats[t][c] /\ g[t] = stats'[t][c]
  BY DEF Shares
<1>2. /\ f \in [Threads -> Nat] /\ Total(f) \in Nat
      /\ pkt_stats[c] \in Nat /\ pkt_stats_global[c] \in Nat
      /\ Reported(c) = pkt_stats_global[c] + pkt_stats[c] + Total(f)
      /\ Reported(c) \in Nat
  BY ReportedIs
<1>3. /\ g \in [Threads -> Nat] /\ Total(g) \in Nat
      /\ Reported(c)' = pkt_stats_global'[c] + pkt_stats'[c] + Total(g)
      /\ Reported(c)' \in Nat
  BY ReportedIsNext
<1> HIDE DEF f, g
<1>4. \A u \in Threads : u # t => g[u] = f[u]
  BY DEF f, g
<1>5. Total(g) + f[t] = Total(f) + g[t]
  <2>1. f \in [Threads -> Nat] /\ g \in [Threads -> Nat]
    BY <1>2, <1>3
  <2> QED
    BY <1>4, <2>1, ThreadsFinite, TotalChange
<1>6. f[t] \in Nat /\ g[t] \in Nat
  BY <1>2, <1>3
<1> QED
  BY <1>1, <1>2, <1>3, <1>5, <1>6

\* Nothing is counted.
LEMMA ReportedSame ==
  ASSUME TypeOK, TypeOK', NEW c \in Counters, Shares(c)' = Shares(c),
         pkt_stats_global'[c] + pkt_stats'[c] =
           pkt_stats_global[c] + pkt_stats[c]
  PROVE  Reported(c)' = Reported(c)
<1>1. /\ Total(Shares(c)) \in Nat
      /\ Reported(c) = pkt_stats_global[c] + pkt_stats[c] + Total(Shares(c))
  BY ReportedIs
<1>2. Reported(c)' = pkt_stats_global'[c] + pkt_stats'[c] + Total(Shares(c)')
  BY ReportedIsNext
<1> QED
  BY <1>1, <1>2

\* The instance thread moves counters and loses none.
LEMMA ReportedMoved ==
  ASSUME TypeOK, TypeOK', Control, StatsClear,
         NEW c \in {"raw", "ip", "discard", "dropped"},
         \/ Update \/ LockForStats \/ AddStats \/ ResetStats \/ Updated
         \/ GetCaptureStats /\ c # "dropped"
  PROVE  Reported(c)' = Reported(c)
<1>1. c \in Counters /\ c # "flow_dropped"
  BY DEF Counters
<1>2. /\ NoStats[c] = 0 /\ pkt_stats[c] \in Nat /\ pkt_stats_global[c] \in Nat
      /\ \A t \in Threads : stats[t][c] \in Nat
      /\ stats \in [Threads -> Stats]
  BY <1>1 DEF NoStats, TypeOK, CountType, Stats
<1>3. CASE Update
  <2>1. pkt_stats = NoStats /\ pkt_stats' = NoStats
    BY <1>3 DEF Update, StatsClear
  <2>2. Shares(c)' = Shares(c) /\ pkt_stats_global' = pkt_stats_global
    BY <1>3 DEF Update, Shares
  <2> QED
    BY <1>1, <2>1, <2>2, ReportedSame
<1>4. CASE LockForStats
  <2>1. /\ Shares(c)' = Shares(c) /\ pkt_stats_global' = pkt_stats_global
        /\ pkt_stats' = pkt_stats
    BY <1>4 DEF LockForStats, Shares
  <2> QED
    BY <1>1, <2>1, ReportedSame
<1>5. CASE AddStats
  <2>1. asked \in Threads /\ asked' = asked
    BY <1>5 DEF AddStats, Control
  <2>2. pkt_stats'[c] = pkt_stats[c] + stats[asked][c]
    BY <1>1, <1>5 DEF AddStats, Plus
  <2>3. pkt_stats_global' = pkt_stats_global
    BY <1>5 DEF AddStats
  <2> DEFINE f == Shares(c)
             g == Shares(c)'
             a == asked
  <2>4. /\ f[a] = stats[a][c] /\ g[a] = 0
        /\ \A u \in Threads : u # a => g[u] = f[u]
    BY <1>5, <2>1 DEF AddStats, Shares
  <2>5. /\ f \in [Threads -> Nat] /\ Total(f) \in Nat
        /\ Reported(c) = pkt_stats_global[c] + pkt_stats[c] + Total(f)
    BY <1>1, ReportedIs
  <2>6. /\ g \in [Threads -> Nat] /\ Total(g) \in Nat
        /\ Reported(c)' = pkt_stats_global'[c] + pkt_stats'[c] + Total(g)
    BY <1>1, ReportedIsNext
  <2>7. a \in Threads /\ stats[a][c] \in Nat
    BY <1>2, <2>1
  <2> HIDE DEF f, g, a
  <2>8. Total(g) + f[a] = Total(f) + g[a]
    <3>1. f \in [Threads -> Nat] /\ g \in [Threads -> Nat]
      BY <2>5, <2>6
    <3> QED
      BY <2>4, <2>7, <3>1, ThreadsFinite, TotalChange
  <2>9. pkt_stats'[c] = pkt_stats[c] + stats[a][c]
    BY <2>2 DEF a
  <2> QED
    BY <1>2, <2>3, <2>4, <2>5, <2>6, <2>7, <2>8, <2>9
<1>6. CASE ResetStats
  <2>1. asked \in Threads
    BY <1>6 DEF ResetStats, Control
  <2>2. /\ stats' = [stats EXCEPT ![asked] = NoStats]
        /\ upc = "reset" /\ upc' = "lock"
        /\ pkt_stats' = pkt_stats /\ pkt_stats_global' = pkt_stats_global
    BY <1>6 DEF ResetStats
  <2>3. \A t \in Threads : Shares(c)'[t] = Shares(c)[t]
    BY <1>2, <2>1, <2>2 DEF Shares
  <2>4. Shares(c)' = Shares(c)
    BY <2>3 DEF Shares
  <2> QED
    BY <1>1, <2>2, <2>4, ReportedSame
<1>7. CASE Updated
  <2>1. /\ pkt_stats_global'[c] = pkt_stats_global[c] + pkt_stats[c]
        /\ pkt_stats'[c] = 0
    BY <1>1, <1>2, <1>7 DEF Updated, Plus
  <2>2. Shares(c)' = Shares(c)
    BY <1>7 DEF Updated, Shares
  <2> QED
    BY <1>1, <1>2, <2>1, <2>2, ReportedSame
<1>8. CASE GetCaptureStats /\ c # "dropped"
  <2>1. asked \in Threads /\ asked' = asked /\ upc = "get" /\ upc' = "add"
    BY <1>8 DEF GetCaptureStats, Control
  <2>2. \/ stats' = stats
        \/ stats' = [stats EXCEPT ![asked].dropped = drops[asked]]
        \/ stats' = [stats EXCEPT ![asked].dropped =
                       drops[asked] - IF pcs_last[asked] <= drops[asked]
                                      THEN pcs_last[asked] ELSE 0]
    BY <1>8 DEF GetCaptureStats
  <2>3. \A t \in Threads : stats'[t][c] = stats[t][c]
    BY <1>1, <1>2, <1>8, <2>1, <2>2 DEF Stats
  <2>4. pkt_stats'[c] = pkt_stats[c]
    <3>1. \/ pkt_stats' = pkt_stats
          \/ pkt_stats' = [pkt_stats EXCEPT !.dropped = dropped[asked]]
      BY <1>8 DEF GetCaptureStats
    <3> QED
      BY <1>1, <1>8, <3>1 DEF TypeOK, CountType, Stats
  <2>5. pkt_stats_global' = pkt_stats_global
    BY <1>8 DEF GetCaptureStats
  <2>6. Shares(c)' = Shares(c)
    BY <2>1, <2>3 DEF Shares
  <2> QED
    BY <1>1, <2>4, <2>5, <2>6, ReportedSame
<1> QED
  BY <1>3, <1>4, <1>5, <1>6, <1>7, <1>8

\* The kernel and the capture threads leave the count of drops alone.
LEMMA DroppedStill ==
  ASSUME TypeOK, \A u \in Threads : StageOrder(u), NEW t \in Threads,
         Kernel(t) \/ Capture(t) \/ Fail(t)
  PROVE  /\ UNCHANGED updateVars
         /\ \A u \in Threads : stats'[u]["dropped"] = stats[u]["dropped"]
<1>1. stats \in [Threads -> Stats] /\ "dropped" \in Counters
  BY DEF TypeOK, CountType, Counters
<1>2. CASE CountFiltered(t)
  <2> DEFINE new == [stats[t] EXCEPT !.filtered = reg[t].filtered + 1,
                                     !.discard = reg[t].discard + 1]
  <2>1. stats' = [stats EXCEPT ![t] = new] /\ UNCHANGED updateVars
    BY <1>2 DEF CountFiltered
  <2>2. new["dropped"] = stats[t]["dropped"]
    <3>1. stats[t] \in Stats
      BY <1>1
    <3> QED
      BY <1>1, <3>1 DEF Stats
  <2> HIDE DEF new
  <2>3. \A u \in Threads : stats'[u]["dropped"] = stats[u]["dropped"]
    BY <1>1, <2>1, <2>2
  <2> QED
    BY <2>1, <2>3
<1>3. CASE RejectLink(t) \/ RejectNet(t) \/ DropFlow(t) \/ CountFlow(t)
  <2> DEFINE p == trace[Head(pkt_queue[t])]
  <2>1. UNCHANGED updateVars /\ p \in Packet
    BY <1>3, ProcessCases
  <2>2. \/ stats' = [stats EXCEPT ![t] = Count(stats[t], 1, 0, 1, 0)]
        \/ stats' = [stats EXCEPT ![t] = Count(stats[t], 1, 0, 0, 0)]
        \/ stats' = [stats EXCEPT ![t] = Count(stats[t], 1, 0, p.beyond + 1, 0)]
        \/ stats' = [stats EXCEPT ![t] = Count(stats[t], 1, 0, p.beyond + 1, 1)]
        \/ stats' = [stats EXCEPT ![t] = Count(stats[t], 1, 1, p.beyond, 0)]
    BY <1>3 DEF RejectLink, RejectNet, DropFlow, CountFlow
  <2> HIDE DEF p
  <2>3. p.beyond \in Nat
    BY <2>1, PacketFields
  <2>4. p.beyond + 1 \in Nat
    BY <2>3
  <2>5. ASSUME NEW r \in Nat, NEW i \in Nat, NEW d \in Nat, NEW f \in Nat
        PROVE  Count(stats[t], r, i, d, f)["dropped"] = stats[t]["dropped"]
    <3> DEFINE s == stats[t]
    <3>1. s \in Stats
      BY <1>1
    <3> HIDE DEF s
    <3>2. Count(s, r, i, d, f)["dropped"] = s["dropped"]
      BY <3>1, CountIs
    <3> QED
      BY <3>2 DEF s
  <2>6. PICK d, i, f \in Nat :
          stats' = [stats EXCEPT ![t] = Count(stats[t], 1, i, d, f)]
    BY <2>2, <2>3, <2>4
  <2>7. \A u \in Threads : stats'[u]["dropped"] = stats[u]["dropped"]
    BY <1>1, <2>5, <2>6
  <2> QED
    BY <2>1, <2>7
<1>4. CASE Arrive(t) \/ Retire(t) \/ NextReady(t) \/ CopyPacket(t)
             \/ Release(t) \/ Receive(t) \/ ReceiveFails(t) \/ Overrun(t)
             \/ CountOverrun(t) \/ PcapClose(t) \/ OpenCapture(t) \/ End(t)
  <2>1. UNCHANGED <<stats, updateVars>>
    BY <1>4 DEF Arrive, Retire, NextReady, CopyPacket, Release, Receive,
                ReceiveFails, Overrun, CountOverrun, PcapClose, OpenCapture,
                End
  <2> QED
    BY <2>1
<1>5. CASE LockThread(t) \/ Delay(t) \/ Delayed(t) \/ UnlockThread(t)
  <2>1. UNCHANGED <<stats, updateVars>>
    BY <1>5 DEF LockThread, Delay, Delayed, UnlockThread
  <2> QED
    BY <2>1
<1> QED
  BY <1>2, <1>3, <1>4, <1>5 DEF Kernel, Capture, Fail

\* The drops of a thread are counted when it is asked, and an update starts
\* from nothing.
LEMMA StatsClearKept ==
  ASSUME TypeOK, Control, \A t \in Threads : StageOrder(t), StatsClear,
         [Next]_vars
  PROVE  StatsClear'
<1>1. /\ stats \in [Threads -> Stats]
      /\ upc = "idle" => pkt_stats = NoStats
      /\ \A t \in Threads :
           stats[t]["dropped"] # 0 => t = asked /\ upc \in {"add", "reset"}
      /\ NoStats["dropped"] = 0 /\ "dropped" \in Counters
  BY DEF TypeOK, CountType, StatsClear, NoStats, Counters
<1>2. ASSUME UNCHANGED updateVars,
             \A u \in Threads : stats'[u]["dropped"] = stats[u]["dropped"]
      PROVE  StatsClear'
  BY <1>1, <1>2 DEF StatsClear, updateVars
<1>3. CASE UNCHANGED vars
  BY <1>2, <1>3 DEF vars
<1>4. CASE Update \/ LockForStats \/ AddStats \/ Updated
  <2>1. stats' = stats
    BY <1>4 DEF Update, LockForStats, AddStats, Updated
  <2>2. upc' = "idle" => pkt_stats' = NoStats
    BY <1>4 DEF Update, LockForStats, AddStats, Updated
  <2>3. ASSUME NEW t \in Threads, stats[t]["dropped"] # 0
        PROVE  t = asked' /\ upc' \in {"add", "reset"}
    <3>1. t = asked /\ upc \in {"add", "reset"}
      BY <1>1, <2>3
    <3> QED
      BY <1>4, <3>1 DEF Update, LockForStats, AddStats, Updated
  <2> QED
    BY <2>1, <2>2, <2>3 DEF StatsClear
<1>5. CASE GetCaptureStats
  <2>1. upc = "get" /\ upc' = "add" /\ asked' = asked /\ asked \in Threads
    BY <1>5 DEF GetCaptureStats, Control
  <2>2. \/ stats' = stats
        \/ stats' = [stats EXCEPT ![asked].dropped = drops[asked]]
        \/ stats' = [stats EXCEPT ![asked].dropped =
                       drops[asked] - IF pcs_last[asked] <= drops[asked]
                                      THEN pcs_last[asked] ELSE 0]
    BY <1>5 DEF GetCaptureStats
  <2>3. \A t \in Threads : t # asked => stats'[t] = stats[t]
    BY <1>1, <2>1, <2>2
  <2> QED
    BY <1>1, <2>1, <2>3 DEF StatsClear
<1>6. CASE ResetStats
  <2>1. /\ upc' = "lock" /\ upc = "reset" /\ asked \in Threads
        /\ stats' = [stats EXCEPT ![asked] = NoStats]
    BY <1>6 DEF ResetStats, Control
  <2>2. \A t \in Threads : stats'[t]["dropped"] = 0
    BY <1>1, <2>1
  <2> QED
    BY <2>1, <2>2 DEF StatsClear
<1>7. ASSUME NEW t \in Threads, Kernel(t) \/ Capture(t) \/ Fail(t)
      PROVE  StatsClear'
  BY <1>2, <1>7, DroppedStill
<1> QED
  BY <1>3, <1>4, <1>5, <1>6, <1>7 DEF Next, Instance

\* What a processed packet is counted as
LEMMA ProcessCounts ==
  ASSUME TypeOK, Control, NEW t \in Threads, StageOrder(t),
         RejectLink(t) \/ RejectNet(t) \/ DropFlow(t) \/ CountFlow(t)
  PROVE  /\ \E e \in LogEntry, f \in Nat :
              /\ e.id \in 1..arrived /\ e.thread = t
              /\ log' = Append(log, e)
              /\ Discards(e) \in Nat
              /\ stats' = [stats EXCEPT ![t] =
                   Count(stats[t], 1, IF e.admitted THEN 1 ELSE 0,
                         Discards(e), f)]
         /\ UNCHANGED updateVars
         /\ ~(upc = "reset" /\ t = asked)
<1> DEFINE h == Head(pkt_queue[t])
           p == trace[h]
           k == Hash(Device(t), Vlan(t, p), p)
           E(key, admitted) == [thread |-> t, id |-> h, key |-> key,
                                admitted |-> admitted]
<1>1. /\ pkt_queue[t] # <<>> /\ p \in Packet /\ Vlan(t, p) \in Nat
      /\ pc[t] \in {"process", "due"} /\ UNCHANGED updateVars
  BY ProcessCases
<1>2. h \in 1..arrived /\ h \in Nat
  BY <1>1, HeadOfQueue
<1>3. ~(upc = "reset" /\ t = asked)
  BY <1>1, CaptureAssumption DEF Control
<1>4. k \in Key
  BY <1>1, HashTyped
<1>5. /\ p.beyond \in Nat /\ p.beyond + 1 \in Nat
      /\ p.reject \in {"", "silent", "link", "net"}
  <2>1. p \in Packet
    BY <1>1
  <2> HIDE DEF p
  <2>2. p.beyond \in Nat
    BY <2>1, PacketFields
  <2>3. p.reject \in {"", "silent", "link", "net"}
    BY <2>1 DEF Packet
  <2>4. \A n \in Nat : n + 1 \in Nat
    OBVIOUS
  <2>5. p.beyond + 1 \in Nat
    BY <2>2, <2>4
  <2> QED
    BY <2>2, <2>3, <2>5
<1>6. ASSUME NEW key \in Key \cup {NULL}, NEW admitted \in BOOLEAN
      PROVE  /\ E(key, admitted) \in LogEntry
             /\ E(key, admitted).id = h /\ E(key, admitted).thread = t
             /\ E(key, admitted).admitted = admitted
             /\ Discards(E(key, admitted)) =
                  CASE p.reject = "silent" -> 0
                    [] p.reject = "link" -> 1
                    [] OTHER -> p.beyond + IF admitted THEN 0 ELSE 1
  <2>1. E(key, admitted) \in LogEntry
    BY <1>2 DEF LogEntry
  <2> QED
    BY <2>1 DEF Discards
<1> HIDE DEF h, p, k
<1>7. CASE RejectLink(t)
  <2> DEFINE e == E(NULL, FALSE)
             d == IF p.reject = "link" THEN 1 ELSE 0
  <2>1. /\ log' = Append(log, e) /\ p.reject \in {"silent", "link"}
        /\ stats' = [stats EXCEPT ![t] = Count(stats[t], 1, 0, d, 0)]
    BY <1>7 DEF RejectLink, Processed, h, p
  <2>2. e \in LogEntry /\ e.id = h /\ e.thread = t /\ e.admitted = FALSE
    BY <1>6
  <2>3. Discards(e) = d
    BY <1>6, <2>1
  <2>4. d \in Nat
    OBVIOUS
  <2> HIDE DEF e, d
  <2> QED
    BY <1>1, <1>2, <1>3, <2>1, <2>2, <2>3, <2>4
<1>8. CASE RejectNet(t)
  <2> DEFINE e == E(NULL, FALSE)
  <2>1. /\ log' = Append(log, e) /\ p.reject = "net"
        /\ stats' = [stats EXCEPT ![t] = Count(stats[t], 1, 0, p.beyond + 1, 0)]
    BY <1>8 DEF RejectNet, Processed, h, p
  <2>2. e \in LogEntry /\ e.id = h /\ e.thread = t /\ e.admitted = FALSE
    BY <1>6
  <2>3. Discards(e) = p.beyond + 1
    BY <1>6, <2>1
  <2> HIDE DEF e
  <2> QED
    BY <1>1, <1>2, <1>3, <1>5, <2>1, <2>2, <2>3
<1>9. CASE DropFlow(t)
  <2> DEFINE e == E(k, FALSE)
  <2>1. /\ log' = Append(log, e) /\ p.reject = ""
        /\ stats' = [stats EXCEPT ![t] = Count(stats[t], 1, 0, p.beyond + 1, 1)]
    BY <1>9 DEF DropFlow, Processed, h, p, k
  <2>2. e \in LogEntry /\ e.id = h /\ e.thread = t /\ e.admitted = FALSE
    BY <1>4, <1>6
  <2>3. Discards(e) = p.beyond + 1
    BY <1>4, <1>6, <2>1
  <2> HIDE DEF e
  <2> QED
    BY <1>1, <1>2, <1>3, <1>5, <2>1, <2>2, <2>3
<1>10. CASE CountFlow(t)
  <2> DEFINE e == E(k, TRUE)
  <2>1. /\ log' = Append(log, e) /\ p.reject = ""
        /\ stats' = [stats EXCEPT ![t] = Count(stats[t], 1, 1, p.beyond, 0)]
    BY <1>10 DEF CountFlow, Processed, h, p, k
  <2>2. e \in LogEntry /\ e.id = h /\ e.thread = t /\ e.admitted = TRUE
    BY <1>4, <1>6
  <2>3. Discards(e) = p.beyond
    <3>1. Discards(e) = CASE p.reject = "silent" -> 0
                          [] p.reject = "link" -> 1
                          [] OTHER -> p.beyond + IF TRUE THEN 0 ELSE 1
      BY <1>4, <1>6
    <3>2. Discards(e) = p.beyond + 0
      BY <2>1, <3>1
    <3>3. \A n \in Nat : n + 0 = n
      OBVIOUS
    <3> QED
      BY <1>5, <3>2, <3>3
  <2> HIDE DEF e
  <2> QED
    BY <1>1, <1>2, <1>3, <1>5, <2>1, <2>2, <2>3
<1> QED
  BY <1>7, <1>8, <1>9, <1>10

\* The discards of each processed packet, and the packets that have a flow
LogDiscards == [n \in DOMAIN log |-> Discards(log[n])]

Admitted == {n \in DOMAIN log : log[n].admitted}

LEMMA LogTyped ==
  ASSUME TypeOK, \A t \in Threads : StageOrder(t)
  PROVE  /\ LogDiscards \in [1..Len(log) -> Nat] /\ IsFiniteSet(1..Len(log))
         /\ IsFiniteSet(Admitted) /\ Cardinality(Admitted) \in Nat
         /\ \A n \in DOMAIN log : log[n].id \in 1..arrived
                                  /\ trace[log[n].id] \in Packet
                                  /\ log[n] \in LogEntry
<1>1. /\ DOMAIN log = 1..Len(log) /\ Len(log) \in Nat
      /\ \A n \in DOMAIN log : log[n] \in LogEntry
  BY DEF TypeOK, ThreadType
<1>2. IsFiniteSet(1..Len(log))
  BY <1>1, FS_Interval
<1>3. ASSUME NEW n \in DOMAIN log
      PROVE  log[n].id \in 1..arrived /\ trace[log[n].id] \in Packet
  <2> DEFINE t == log[n].thread
             i == log[n].id
  <2>1. t \in Threads
    BY <1>1 DEF LogEntry
  <2>2. i \in LogIds(t)
    BY DEF LogIds
  <2>3. i \in 1..arrived
    BY <2>1, <2>2 DEF StageOrder, Ids
  <2>4. arrived \in 0..Len(trace) /\ trace \in Seq(Packet) /\ Len(trace) \in Nat
    BY DEF TypeOK, KernelType
  <2> HIDE DEF i, t
  <2>5. i \in 1..Len(trace)
    BY <2>3, <2>4
  <2>6. trace[i] \in Packet
    BY <2>4, <2>5
  <2> QED
    BY <2>3, <2>6 DEF i
<1>4. \A n \in DOMAIN log : Discards(log[n]) \in Nat
  <2>1. ASSUME NEW n \in DOMAIN log PROVE Discards(log[n]) \in Nat
    <3> DEFINE p == trace[log[n].id]
    <3>1. p \in Packet
      BY <1>3
    <3> HIDE DEF p
    <3>2. p.beyond \in Nat
      BY <3>1, PacketFields
    <3>3. \A b \in Nat : b + 1 \in Nat /\ b + 0 \in Nat
      OBVIOUS
    <3>4. p.beyond + 1 \in Nat /\ p.beyond + 0 \in Nat
      BY <3>2, <3>3
    <3> QED
      BY <3>4 DEF Discards, p
  <2> QED
    BY <2>1
<1>5. LogDiscards \in [1..Len(log) -> Nat]
  BY <1>1, <1>4 DEF LogDiscards
<1>6. IsFiniteSet(Admitted) /\ Cardinality(Admitted) \in Nat
  <2>1. Admitted \in SUBSET (1..Len(log))
    BY <1>1 DEF Admitted
  <2>2. IsFiniteSet(Admitted)
    BY <1>2, <2>1, FS_Subset
  <2> QED
    BY <2>2, FS_CardinalityType
<1> QED
  BY <1>1, <1>2, <1>3, <1>5, <1>6

\* A packet more is one more of each sum.
LEMMA LogCounts ==
  ASSUME TypeOK, \A t \in Threads : StageOrder(t), NEW e \in LogEntry,
         Discards(e) \in Nat, log' = Append(log, e), trace' = trace
  PROVE  /\ Len(log') = Len(log) + 1
         /\ Cardinality(Admitted') =
              Cardinality(Admitted) + IF e.admitted THEN 1 ELSE 0
         /\ Total(LogDiscards') = Total(LogDiscards) + Discards(e)
<1> DEFINE L == Len(log)
           x == L + 1
<1>1. /\ L \in Nat
      /\ DOMAIN log = 1..L /\ DOMAIN log' = 1..x
      /\ \A n \in 1..L : log'[n] = log[n]
      /\ log'[x] = e /\ Len(log') = x
  BY DEF TypeOK, ThreadType
<1>2. 1..x = (1..L) \cup {x} /\ x \notin 1..L
  BY <1>1
<1>3. /\ LogDiscards \in [1..L -> Nat] /\ IsFiniteSet(1..L)
      /\ IsFiniteSet(Admitted) /\ Cardinality(Admitted) \in Nat
  BY LogTyped
<1> HIDE DEF L, x
<1>4. Total(LogDiscards') = Total(LogDiscards) + Discards(e)
  <2>1. PICK f : f = LogDiscards
    OBVIOUS
  <2>2. PICK g : g = LogDiscards'
    OBVIOUS
  <2>3. g = [n \in 1..x |-> Discards(log'[n])]
    BY <1>1, <2>2 DEF LogDiscards, Discards
  <2>4. g[x] = Discards(e) /\ \A n \in 1..L : g[n] = f[n]
    BY <1>1, <1>2, <2>1, <2>3 DEF LogDiscards
  <2>5. f \in [1..L -> Nat]
    BY <1>3, <2>1
  <2>6. g \in [1..x -> Nat]
    <3>1. \A n \in 1..x : g[n] \in Nat
      BY <1>2, <2>4, <2>5
    <3>2. g = [n \in 1..x |-> g[n]]
      BY <2>3
    <3> QED
      BY <3>1, <3>2
  <2>7. Total(g) = Total(f) + g[x]
    BY <1>1, <2>4, <2>5, <2>6, TotalExtend DEF x
  <2> QED
    BY <2>1, <2>2, <2>4, <2>7
<1>5. Admitted' = IF e.admitted THEN Admitted \cup {x} ELSE Admitted
  <2>1. ASSUME NEW n \in Admitted' PROVE n \in Admitted \/ (e.admitted /\ n = x)
    BY <1>1, <1>2 DEF Admitted
  <2>2. ASSUME NEW n \in Admitted PROVE n \in Admitted'
    BY <1>1, <1>2 DEF Admitted
  <2>3. e.admitted => x \in Admitted'
    BY <1>1, <1>2 DEF Admitted
  <2>4. e.admitted \in BOOLEAN
    BY DEF LogEntry
  <2>5. CASE e.admitted
    BY <2>1, <2>2, <2>3, <2>5
  <2>6. CASE ~e.admitted
    BY <2>1, <2>2, <2>6
  <2> QED
    BY <2>5, <2>6
<1>6. Cardinality(Admitted') =
        Cardinality(Admitted) + IF e.admitted THEN 1 ELSE 0
  <2>1. x \notin Admitted
    BY <1>1, <1>2 DEF Admitted
  <2>2. Cardinality(Admitted \cup {x}) = Cardinality(Admitted) + 1
    BY <1>3, <2>1, FS_AddElement
  <2>3. CASE e.admitted
    <3>1. Admitted' = Admitted \cup {x}
      BY <1>5, <2>3
    <3>2. Cardinality(Admitted') = Cardinality(Admitted) + 1
      BY <2>2, <3>1
    <3> QED
      BY <2>3, <3>2
  <2>4. CASE ~e.admitted
    <3>1. Admitted' = Admitted
      BY <1>5, <2>4
    <3>2. Cardinality(Admitted') = Cardinality(Admitted) + 0
      BY <1>3, <3>1
    <3> QED
      BY <2>4, <3>2
  <2> QED
    BY <2>3, <2>4
<1> QED
  BY <1>1, <1>4, <1>6 DEF L, x

\* The counters
LEMMA CountInvIs ==
  CountInv <=> /\ Reported("raw") = Len(log)
               /\ Reported("ip") = Cardinality(Admitted)
               /\ type # "tpv3" => Reported("discard") = Total(LogDiscards)
BY DEF CountInv, Admitted, LogDiscards

LEMMA CountKept ==
  ASSUME TypeOK, TypeOK', Control, \A t \in Threads : StageOrder(t),
         StatsClear, CountInv, [Next]_vars
  PROVE  CountInv'
<1>1. /\ Reported("raw") = Len(log)
      /\ Reported("ip") = Cardinality(Admitted)
      /\ type # "tpv3" => Reported("discard") = Total(LogDiscards)
  BY CountInvIs
<1>2. (/\ Reported("raw") = Len(log)
       /\ Reported("ip") = Cardinality(Admitted)
       /\ type # "tpv3" => Reported("discard") = Total(LogDiscards)
       => CountInv)'
  BY CountInvIs, PTL
<1>3. "raw" \in Counters /\ "ip" \in Counters /\ "discard" \in Counters
  BY DEF Counters
<1>4. ASSUME UNCHANGED <<type, trace, log>>,
             \A c \in {"raw", "ip", "discard"} : Reported(c)' = Reported(c)
      PROVE  CountInv'
  <2>1. /\ Reported("raw")' = Reported("raw")
        /\ Reported("ip")' = Reported("ip")
        /\ Reported("discard")' = Reported("discard")
    BY <1>4
  <2>2. Admitted' = Admitted /\ LogDiscards' = LogDiscards
    BY <1>4 DEF Admitted, LogDiscards, Discards
  <2> QED
    BY <1>1, <1>2, <1>4, <2>1, <2>2
<1>5. CASE UNCHANGED <<type, trace, log, stats, updateVars>>
  <2>1. ASSUME NEW c \in {"raw", "ip", "discard"}
        PROVE  Reported(c)' = Reported(c)
    <3>1. /\ Shares(c)' = Shares(c) /\ pkt_stats' = pkt_stats
          /\ pkt_stats_global' = pkt_stats_global
      BY <1>5 DEF Shares, updateVars
    <3> QED
      BY <1>3, <3>1, ReportedSame
  <2> QED
    BY <1>4, <1>5, <2>1
<1>6. CASE Instance
  <2>1. UNCHANGED <<type, trace, log>>
    BY <1>6 DEF Instance, Update, LockForStats, GetCaptureStats, AddStats,
                ResetStats, Updated, captureVars, flowVars
  <2>2. \A c \in {"raw", "ip", "discard"} : Reported(c)' = Reported(c)
    BY <1>6, ReportedMoved DEF Instance
  <2> QED
    BY <1>4, <2>1, <2>2
<1>7. ASSUME NEW t \in Threads, CountFiltered(t) PROVE CountInv'
  <2> DEFINE new == [stats[t] EXCEPT !.filtered = reg[t].filtered + 1,
                                     !.discard = reg[t].discard + 1]
  <2>1. /\ stats' = [stats EXCEPT ![t] = new]
        /\ UNCHANGED <<type, trace, log, updateVars>> /\ pc[t] = "count"
    BY <1>7 DEF CountFiltered, Goto, kernelVars, flowVars
  <2>2. type = "tpv3"
    BY <2>1 DEF Control, Copying
  <2>3. stats[t] \in Stats /\ stats \in [Threads -> Stats]
    BY DEF TypeOK, CountType
  <2>4. new["raw"] = stats[t]["raw"] /\ new["ip"] = stats[t]["ip"]
    BY <1>3, <2>3 DEF Stats
  <2> HIDE DEF new
  <2>5. ASSUME NEW c \in {"raw", "ip"} PROVE Reported(c)' = Reported(c)
    <3>1. \A u \in Threads : stats'[u][c] = stats[u][c]
      BY <2>1, <2>3, <2>4
    <3>2. /\ Shares(c)' = Shares(c) /\ pkt_stats' = pkt_stats
          /\ pkt_stats_global' = pkt_stats_global
      BY <2>1, <3>1 DEF Shares, updateVars
    <3> QED
      BY <1>3, <3>2, ReportedSame
  <2>6. Reported("raw")' = Reported("raw") /\ Reported("ip")' = Reported("ip")
    BY <2>5
  <2>7. Admitted' = Admitted
    BY <2>1 DEF Admitted
  <2> QED
    BY <1>1, <1>2, <2>1, <2>2, <2>6, <2>7
<1>8. ASSUME NEW t \in Threads,
             RejectLink(t) \/ RejectNet(t) \/ DropFlow(t) \/ CountFlow(t)
      PROVE  CountInv'
  <2>1. UNCHANGED updateVars /\ ~(upc = "reset" /\ t = asked)
    BY <1>8, ProcessCounts
  <2>2. PICK e \in LogEntry, f \in Nat :
          /\ log' = Append(log, e) /\ Discards(e) \in Nat
          /\ stats' = [stats EXCEPT ![t] =
               Count(stats[t], 1, IF e.admitted THEN 1 ELSE 0, Discards(e), f)]
    BY <1>8, ProcessCounts
  <2>3. UNCHANGED <<type, trace>>
    BY <1>8, ProcessCases DEF kernelVars
  <2> DEFINE s == stats[t]
             a == IF e.admitted THEN 1 ELSE 0
             d == Discards(e)
             n == Count(s, 1, a, d, f)
  <2>4. s \in Stats /\ stats \in [Threads -> Stats] /\ a \in Nat /\ d \in Nat
    BY <2>2 DEF TypeOK, CountType
  <2>5. stats' = [stats EXCEPT ![t] = n]
    BY <2>2
  <2>6. /\ Len(log') = Len(log) + 1
        /\ Cardinality(Admitted') = Cardinality(Admitted) + a
        /\ Total(LogDiscards') = Total(LogDiscards) + d
    BY <2>2, <2>3, LogCounts
  <2> HIDE DEF s, a, d
  <2>7. /\ n["raw"] = s["raw"] + 1 /\ n["ip"] = s["ip"] + a
        /\ n["discard"] = s["discard"] + d
    BY <2>4, CountIs
  <2> HIDE DEF n
  <2>8. stats[t] = s /\ stats'[t] = n
        /\ \A u \in Threads : u # t => stats'[u] = stats[u]
    BY <2>4, <2>5 DEF s
  <2>9. ASSUME NEW c \in Counters
        PROVE  /\ Reported(c)' + s[c] = Reported(c) + n[c] /\ s[c] \in Nat
               /\ Reported(c) \in Nat /\ Reported(c)' \in Nat
    <3>1. /\ ~(upc' = "reset" /\ t = asked')
          /\ pkt_stats' = pkt_stats /\ pkt_stats_global' = pkt_stats_global
          /\ \A u \in Threads : u # t => Shares(c)'[u] = Shares(c)[u]
      BY <2>1, <2>8 DEF updateVars, Shares
    <3>2. /\ Reported(c)' + stats[t][c] = Reported(c) + stats'[t][c]
          /\ stats[t][c] \in Nat
          /\ Reported(c) \in Nat /\ Reported(c)' \in Nat
      BY <2>1, <3>1, ReportedCounts
    <3> QED
      BY <2>8, <3>2
  <2>10. Reported("raw")' = Reported("raw") + 1
    <3>1. /\ Reported("raw")' + s["raw"] = Reported("raw") + n["raw"]
          /\ s["raw"] \in Nat /\ Reported("raw") \in Nat
          /\ Reported("raw")' \in Nat
      BY <1>3, <2>9
    <3> QED
      BY <2>7, <3>1
  <2>11. Reported("ip")' = Reported("ip") + a
    <3>1. /\ Reported("ip")' + s["ip"] = Reported("ip") + n["ip"]
          /\ s["ip"] \in Nat /\ Reported("ip") \in Nat
          /\ Reported("ip")' \in Nat
      BY <1>3, <2>9
    <3> QED
      BY <2>4, <2>7, <3>1
  <2>12. Reported("discard")' = Reported("discard") + d
    <3>1. /\ Reported("discard")' + s["discard"] = Reported("discard") + n["discard"]
          /\ s["discard"] \in Nat /\ Reported("discard") \in Nat
          /\ Reported("discard")' \in Nat
      BY <1>3, <2>9
    <3> QED
      BY <2>4, <2>7, <3>1
  <2> QED
    BY <1>1, <1>2, <2>3, <2>6, <2>10, <2>11, <2>12
<1>9. ASSUME NEW t \in Threads,
             Arrive(t) \/ Retire(t) \/ NextReady(t) \/ CopyPacket(t)
             \/ Release(t) \/ Receive(t) \/ ReceiveFails(t) \/ Overrun(t)
             \/ CountOverrun(t) \/ PcapClose(t) \/ OpenCapture(t) \/ End(t)
      PROVE  UNCHANGED <<type, trace, log, stats, updateVars>>
  BY <1>9 DEF Arrive, Retire, NextReady, CopyPacket, Release, Receive,
              ReceiveFails, Overrun, CountOverrun, PcapClose, OpenCapture,
              End, kernelVars, flowVars
<1>10. ASSUME NEW t \in Threads,
              LockThread(t) \/ Delay(t) \/ Delayed(t) \/ UnlockThread(t)
       PROVE  UNCHANGED <<type, trace, log, stats, updateVars>>
  BY <1>10 DEF LockThread, Delay, Delayed, UnlockThread, kernelVars, flowVars
<1>11. CASE UNCHANGED vars
  BY <1>5, <1>11 DEF vars, kernelVars, flowVars
<1> QED
  BY <1>5, <1>6, <1>7, <1>8, <1>9, <1>10, <1>11
  DEF Next, Kernel, Capture, Fail

-----------------------------------------------------------------------------
\* Drops

\* A packet that finds no room is one more.
LEMMA LostOneMore ==
  ASSUME TypeOK
  PROVE  /\ Cardinality(lost) \in Nat
         /\ Cardinality(lost \cup {arrived + 1}) = Cardinality(lost) + 1
<1>1. arrived \in Nat /\ lost \in SUBSET (1..arrived)
  BY DEF TypeOK, KernelType
<1>2. IsFiniteSet(1..arrived)
  BY <1>1, FS_Interval
<1>3. IsFiniteSet(lost)
  BY <1>1, <1>2, FS_Subset
<1>4. arrived + 1 \notin lost
  BY <1>1
<1>5. PICK i : i = arrived + 1
  OBVIOUS
<1>6. Cardinality(lost \cup {i}) = Cardinality(lost) + 1
  BY <1>3, <1>4, <1>5, FS_AddElement
<1> QED
  BY <1>3, <1>5, <1>6, FS_CardinalityType

LEMMA UnreportedIs ==
  TypeOK => Unreported \in [Threads -> Nat] /\ drops \in [Threads -> Nat]
<1> SUFFICES ASSUME TypeOK
             PROVE  Unreported \in [Threads -> Nat] /\ drops \in [Threads -> Nat]
  OBVIOUS
<1>1. drops \in [Threads -> Nat] /\ pcs_last \in [Threads -> Nat]
  BY DEF TypeOK, KernelType, CountType
<1>2. \A d, l \in Nat : d - (IF l <= d THEN l ELSE 0) \in Nat
  OBVIOUS
<1> QED
  BY <1>1, <1>2 DEF Unreported

\* Who counts a drop, and who takes drops away
LEMMA DropCases ==
  ASSUME TypeOK, [Next]_vars
  PROVE  \/ UNCHANGED <<type, lost, drops, pcs_last>> /\ ~GetCaptureStats
         \/ GetCaptureStats
         \/ /\ type \notin {"tpv3", "pcap"} /\ type' = type
            /\ ~GetCaptureStats
         \/ \E t \in Threads :
              \/ PcapClose(t)
              \/ /\ Arrive(t) /\ lost' = lost \cup {arrived + 1}
                 /\ drops' = [drops EXCEPT ![t] = drops[t] + 1]
                 /\ UNCHANGED <<type, pcs_last>>
<1>1. CASE GetCaptureStats
  BY <1>1
<1>2. SUFFICES ASSUME ~GetCaptureStats
               PROVE  \/ UNCHANGED <<type, lost, drops, pcs_last>>
                      \/ type \notin {"tpv3", "pcap"} /\ type' = type
                      \/ \E t \in Threads :
                           \/ PcapClose(t)
                           \/ /\ Arrive(t) /\ lost' = lost \cup {arrived + 1}
                              /\ drops' = [drops EXCEPT ![t] = drops[t] + 1]
                              /\ UNCHANGED <<type, pcs_last>>
  BY <1>1
<1>3. CASE UNCHANGED vars
  BY <1>3 DEF vars, kernelVars
<1>4. CASE Instance
  BY <1>2, <1>4 DEF Instance, Update, LockForStats, AddStats, ResetStats,
                    Updated, captureVars
<1>5. ASSUME NEW t \in Threads,
             \/ Retire(t) \/ NextReady(t) \/ CopyPacket(t) \/ CountFiltered(t)
             \/ Release(t) \/ Receive(t) \/ Overrun(t) \/ CountOverrun(t)
             \/ OpenCapture(t) \/ LockThread(t) \/ Delay(t) \/ Delayed(t)
             \/ UnlockThread(t) \/ ReceiveFails(t) \/ End(t)
      PROVE  UNCHANGED <<type, lost, drops, pcs_last>>
  BY <1>5 DEF Retire, NextReady, CopyPacket, CountFiltered, Release, Receive,
              Overrun, CountOverrun, OpenCapture, LockThread, Delay, Delayed,
              UnlockThread, ReceiveFails, End, kernelVars
<1>6. ASSUME NEW t \in Threads,
             RejectLink(t) \/ RejectNet(t) \/ DropFlow(t) \/ CountFlow(t)
      PROVE  UNCHANGED <<type, lost, drops, pcs_last>>
  BY <1>6 DEF RejectLink, RejectNet, DropFlow, CountFlow, Processed, kernelVars
<1>7. ASSUME NEW t \in Threads, Arrive(t)
      PROVE  \/ UNCHANGED <<type, lost, drops, pcs_last>>
             \/ type \notin {"tpv3", "pcap"} /\ type' = type
             \/ /\ Arrive(t) /\ lost' = lost \cup {arrived + 1}
                /\ drops' = [drops EXCEPT ![t] = drops[t] + 1]
                /\ UNCHANGED <<type, pcs_last>>
  <2> DEFINE i == arrived + 1
  <2>1. UNCHANGED <<type, pcs_last>> /\ i \in Nat
    BY <1>7, ArriveCases
  <2>2. CASE UNCHANGED <<lost, drops>>
    BY <2>1, <2>2
  <2>3. CASE ArriveRing(t, i)
    BY <1>7, <2>1, <2>3, RingCases
  <2>4. CASE ArriveSocket(t, i)
    BY <1>7, <2>1, <2>4 DEF ArriveSocket
  <2> QED
    BY <1>7, <2>2, <2>3, <2>4, ArriveCases
<1> QED
  BY <1>3, <1>4, <1>5, <1>6, <1>7 DEF Next, Kernel, Capture, Fail

\* The drops that an update reads are those that it has not read yet.
LEMMA DroppedRead ==
  ASSUME TypeOK, TypeOK', Control, StatsClear, GetCaptureStats,
         NEW n \in Nat, stats' = [stats EXCEPT ![asked].dropped = n],
         pkt_stats' = pkt_stats
  PROVE  /\ Reported("dropped")' = Reported("dropped") + n
         /\ Reported("dropped") \in Nat
<1>1. PICK a : a = asked
  OBVIOUS
<1>2. /\ a \in Threads /\ asked = a /\ asked' = a
      /\ upc = "get" /\ upc' = "add"
      /\ pkt_stats_global' = pkt_stats_global
  BY <1>1 DEF GetCaptureStats, Control
<1>3. stats \in [Threads -> Stats] /\ stats[a] \in Stats /\ "dropped" \in Counters
  BY <1>2 DEF TypeOK, CountType, Counters
<1>4. stats[a]["dropped"] = 0
  BY <1>2 DEF StatsClear
<1>5. /\ stats'[a]["dropped"] = n
      /\ \A u \in Threads : u # a => stats'[u] = stats[u]
  BY <1>2, <1>3 DEF Stats
<1>6. \A u \in Threads : u # a => Shares("dropped")'[u] = Shares("dropped")[u]
  BY <1>2, <1>5 DEF Shares
<1>7. ~(upc = "reset" /\ a = asked) /\ ~(upc' = "reset" /\ a = asked')
  BY <1>2
<1>8. /\ Reported("dropped")' + stats[a]["dropped"] =
           Reported("dropped") + stats'[a]["dropped"]
      /\ Reported("dropped") \in Nat /\ Reported("dropped")' \in Nat
  BY <1>2, <1>3, <1>6, <1>7, ReportedCounts
<1> QED
  BY <1>4, <1>5, <1>8

\* Nothing but the reading of the kernel's counter changes the count of drops.
LEMMA DroppedSame ==
  ASSUME TypeOK, TypeOK', Control, \A t \in Threads : StageOrder(t),
         StatsClear, [Next]_vars, ~GetCaptureStats
  PROVE  Reported("dropped")' = Reported("dropped")
<1>1. "dropped" \in Counters
  BY DEF Counters
<1>2. ASSUME UNCHANGED updateVars,
             \A u \in Threads : stats'[u]["dropped"] = stats[u]["dropped"]
      PROVE  Reported("dropped")' = Reported("dropped")
  <2>1. /\ Shares("dropped")' = Shares("dropped") /\ pkt_stats' = pkt_stats
        /\ pkt_stats_global' = pkt_stats_global
    BY <1>2 DEF Shares, updateVars
  <2> QED
    BY <1>1, <2>1, ReportedSame
<1>3. CASE UNCHANGED vars
  BY <1>2, <1>3 DEF vars
<1>4. CASE Instance
  BY <1>4, ReportedMoved DEF Instance
<1>5. ASSUME NEW t \in Threads, Kernel(t) \/ Capture(t) \/ Fail(t)
      PROVE  Reported("dropped")' = Reported("dropped")
  BY <1>2, <1>5, DroppedStill
<1> QED
  BY <1>3, <1>4, <1>5 DEF Next

LEMMA DropKept ==
  ASSUME TypeOK, TypeOK', Control, \A t \in Threads : StageOrder(t),
         StatsClear, DropInv, [Next]_vars
  PROVE  DropInv'
<1>1. PICK d, u : d = drops /\ u = Unreported
  OBVIOUS
<1>2. PICK e, v : e = drops' /\ v = Unreported'
  OBVIOUS
<1>3. PICK r, s : r = Reported("dropped") /\ s = Reported("dropped")'
  OBVIOUS
<1>4. PICK m, n : m = Cardinality(lost) /\ n = Cardinality(lost')
  OBVIOUS
<1>5. /\ type = "tpv3" => r + Total(d) = m
      /\ type = "pcap" => r + Total(u) <= m
  BY <1>1, <1>3, <1>4 DEF DropInv
<1>6. type' = type
  <2>1. \A t \in Threads : PcapClose(t) => type' = type
    BY DEF PcapClose
  <2> QED
    BY <2>1, DropCases DEF GetCaptureStats, captureVars
<1>7. SUFFICES /\ type = "tpv3" => s + Total(e) = n
               /\ type = "pcap" => s + Total(v) <= n
  <2>1. /\ Total(drops)' = Total(e) /\ Total(Unreported)' = Total(v)
    BY <1>2 DEF Total
  <2>2. Cardinality(lost)' = n
    BY <1>4
  <2> QED
    BY <1>3, <1>6, <1>7, <2>1, <2>2 DEF DropInv
<1>8. /\ d \in [Threads -> Nat] /\ u \in [Threads -> Nat]
      /\ Total(d) \in Nat /\ Total(u) \in Nat
  <2>1. d \in [Threads -> Nat] /\ u \in [Threads -> Nat]
    BY <1>1, UnreportedIs
  <2> QED
    BY <2>1, UnitsFinite, ThreadsFinite
<1>9. /\ e \in [Threads -> Nat] /\ v \in [Threads -> Nat]
      /\ Total(e) \in Nat /\ Total(v) \in Nat
  <2>1. (TypeOK => Unreported \in [Threads -> Nat] /\ drops \in [Threads -> Nat])'
    BY UnreportedIs, PTL
  <2>2. e \in [Threads -> Nat] /\ v \in [Threads -> Nat]
    BY <1>2, <2>1
  <2> QED
    BY <2>2, UnitsFinite, ThreadsFinite
<1>10. m \in Nat /\ r \in Nat
  <2>1. "dropped" \in Counters
    BY DEF Counters
  <2> QED
    BY <1>3, <1>4, <2>1, LostOneMore, ReportedIs
<1>11. ASSUME NEW t \in Threads, \A x \in Threads : x # t => e[x] = d[x]
       PROVE  Total(e) + d[t] = Total(d) + e[t]
  <2>1. d \in [Threads -> Nat] /\ e \in [Threads -> Nat]
    BY <1>8, <1>9
  <2> QED
    BY <1>11, <2>1, ThreadsFinite, TotalChange
<1>12. ASSUME NEW t \in Threads, \A x \in Threads : x # t => v[x] = u[x]
       PROVE  Total(v) + u[t] = Total(u) + v[t]
  <2>1. u \in [Threads -> Nat] /\ v \in [Threads -> Nat]
    BY <1>8, <1>9
  <2> QED
    BY <1>12, <2>1, ThreadsFinite, TotalChange
<1>13. pcs_last \in [Threads -> Nat] /\ pcs_last' \in [Threads -> Nat]
  BY DEF TypeOK, CountType
<1>14. \A x \in Threads :
         /\ u[x] = d[x] - IF pcs_last[x] <= d[x] THEN pcs_last[x] ELSE 0
         /\ v[x] = e[x] - IF pcs_last'[x] <= e[x] THEN pcs_last'[x] ELSE 0
  BY <1>1, <1>2 DEF Unreported
<1>15. CASE UNCHANGED <<type, lost, drops, pcs_last>> /\ ~GetCaptureStats
  <2>1. s = r
    BY <1>3, <1>15, DroppedSame
  <2>2. e = d /\ v = u /\ n = m
    BY <1>1, <1>2, <1>4, <1>15 DEF Unreported
  <2> QED
    BY <1>5, <2>1, <2>2
<1>16. CASE type \notin {"tpv3", "pcap"}
  BY <1>16
<1>17. CASE GetCaptureStats
  <2>1. PICK a : a = asked /\ a \in Threads
    BY <1>17 DEF GetCaptureStats, Control
  <2>2. n = m
    BY <1>4, <1>17 DEF GetCaptureStats, captureVars
  <2>3. CASE type = "tpv3"
    <3>1. /\ stats' = [stats EXCEPT ![asked].dropped = d[a]]
          /\ e = [d EXCEPT ![a] = 0] /\ pkt_stats' = pkt_stats
      BY <1>1, <1>2, <1>17, <2>1, <2>3 DEF GetCaptureStats
    <3>2. d[a] \in Nat
      BY <1>8, <2>1
    <3>3. s = r + d[a]
      BY <1>3, <1>17, <3>1, <3>2, DroppedRead
    <3>4. e[a] = 0 /\ \A x \in Threads : x # a => e[x] = d[x]
      BY <1>8, <2>1, <3>1
    <3>5. Total(e) + d[a] = Total(d) + e[a]
      BY <1>11, <2>1, <3>4
    <3> QED
      BY <1>5, <1>8, <1>9, <1>10, <2>2, <2>3, <3>2, <3>3, <3>4, <3>5
  <2>4. CASE type = "pcap" /\ pc[asked] # "closed"
    <3>1. /\ stats' = [stats EXCEPT ![asked].dropped = u[a]]
          /\ e = d /\ pcs_last' = [pcs_last EXCEPT ![a] = d[a]]
          /\ pkt_stats' = pkt_stats
      BY <1>1, <1>2, <1>14, <1>17, <2>1, <2>4 DEF GetCaptureStats
    <3>2. u[a] \in Nat /\ d[a] \in Nat
      BY <1>8, <2>1
    <3>3. s = r + u[a]
      BY <1>3, <1>17, <3>1, <3>2, DroppedRead
    <3>4. v[a] = 0 /\ \A x \in Threads : x # a => v[x] = u[x]
      BY <1>8, <1>13, <1>14, <2>1, <3>1, <3>2
    <3>5. Total(v) + u[a] = Total(u) + v[a]
      BY <1>12, <2>1, <3>4
    <3> QED
      BY <1>5, <1>8, <1>9, <1>10, <2>2, <2>4, <3>2, <3>3, <3>4, <3>5
  <2>5. CASE type = "pcap" /\ pc[asked] = "closed"
    <3>1. /\ stats' = stats /\ drops' = drops /\ pcs_last' = pcs_last
          /\ pkt_stats' = pkt_stats
      BY <1>17, <2>5 DEF GetCaptureStats
    <3>2. Shares("dropped")' = Shares("dropped")
      BY <1>17, <3>1 DEF GetCaptureStats, Shares
    <3>3. pkt_stats_global' = pkt_stats_global /\ "dropped" \in Counters
      BY <1>17 DEF GetCaptureStats, Counters
    <3>4. s = r
      BY <1>3, <3>1, <3>2, <3>3, ReportedSame
    <3>5. v = u
      BY <1>1, <1>2, <3>1 DEF Unreported
    <3> QED
      BY <1>5, <2>2, <2>5, <3>4, <3>5
  <2> QED
    BY <1>16, <2>3, <2>4, <2>5
<1>18. ASSUME NEW t \in Threads, PcapClose(t)
       PROVE  type = "pcap" /\ s + Total(v) <= n
  <2>1. /\ type = "pcap" /\ e = [d EXCEPT ![t] = 0] /\ pcs_last' = pcs_last
        /\ lost' = lost /\ pc' # pc
    <3>1. /\ type = "pcap" /\ drops' = [drops EXCEPT ![t] = 0]
          /\ pc[t] = "next" /\ pc' = [pc EXCEPT ![t] = "closed"]
          /\ pcs_last' = pcs_last /\ lost' = lost
      BY <1>18 DEF PcapClose, Goto
    <3>2. pc' # pc
      BY <3>1 DEF TypeOK, ThreadType
    <3> QED
      BY <1>1, <1>2, <3>1, <3>2
  <2>2. ~GetCaptureStats
    BY <2>1 DEF GetCaptureStats, captureVars
  <2>3. s = r /\ n = m
    BY <1>3, <1>4, <2>1, <2>2, DroppedSame
  <2>4. e[t] = 0 /\ \A x \in Threads : x # t => e[x] = d[x]
    BY <1>8, <2>1
  <2>5. v[t] = 0 /\ \A x \in Threads : x # t => v[x] = u[x]
    BY <1>13, <1>14, <2>1, <2>4
  <2>6. Total(v) + u[t] = Total(u) + v[t] /\ u[t] \in Nat
    BY <1>8, <1>12, <2>5
  <2> QED
    BY <1>5, <1>8, <1>9, <1>10, <2>1, <2>3, <2>5, <2>6
<1>19. ASSUME NEW t \in Threads, Arrive(t), lost' = lost \cup {arrived + 1},
              e = [d EXCEPT ![t] = d[t] + 1], UNCHANGED <<type, pcs_last>>
       PROVE  /\ type = "tpv3" => s + Total(e) = n
              /\ type = "pcap" => s + Total(v) <= n
  <2>1. ~GetCaptureStats
    <3>1. arrived' = arrived + 1 /\ arrived \in Nat
      BY <1>19 DEF Arrive, TypeOK, KernelType
    <3>2. arrived' # arrived
      BY <3>1
    <3> QED
      BY <3>2 DEF GetCaptureStats, captureVars
  <2>2. s = r /\ n = m + 1
    BY <1>3, <1>4, <1>19, <2>1, DroppedSame, LostOneMore
  <2>3. d[t] \in Nat /\ u[t] \in Nat /\ pcs_last[t] \in Nat
    BY <1>8, <1>13
  <2>4. e[t] = d[t] + 1 /\ \A x \in Threads : x # t => e[x] = d[x]
    BY <1>8, <1>19
  <2>5. Total(e) + d[t] = Total(d) + e[t]
    BY <1>11, <2>4
  <2>6. \A x \in Threads : x # t => v[x] = u[x]
    BY <1>14, <1>19, <2>4
  <2>7. Total(v) + u[t] = Total(u) + v[t]
    BY <1>12, <2>6
  <2>8. v[t] <= u[t] + 1 /\ v[t] \in Nat
    <3>1. v[t] \in Nat
      BY <1>9
    <3>2. \A x, l \in Nat :
            (x + 1) - (IF l <= x + 1 THEN l ELSE 0)
              <= (x - (IF l <= x THEN l ELSE 0)) + 1
      OBVIOUS
    <3>3. /\ u[t] = d[t] - IF pcs_last[t] <= d[t] THEN pcs_last[t] ELSE 0
          /\ v[t] = (d[t] + 1) - IF pcs_last[t] <= d[t] + 1
                                 THEN pcs_last[t] ELSE 0
      BY <1>14, <1>19, <2>4
    <3> QED
      BY <2>3, <3>1, <3>2, <3>3
  <2>9. s + Total(e) = r + Total(d) + 1
    BY <1>8, <1>9, <1>10, <2>2, <2>3, <2>4, <2>5
  <2>10. s + Total(v) <= r + Total(u) + 1
    BY <1>8, <1>9, <1>10, <2>2, <2>3, <2>7, <2>8
  <2> QED
    BY <1>5, <1>8, <1>9, <1>10, <2>2, <2>9, <2>10
<1> QED
  BY <1>1, <1>2, <1>15, <1>16, <1>17, <1>18, <1>19, DropCases

\* The reports are exact.
LEMMA StatsHold ==
  ASSUME TypeOK, CountInv, DropInv
  PROVE  StatsExact
<1>1. "dropped" \in Counters
  BY DEF Counters
<1>2. Unreported \in [Threads -> Nat]
  BY UnreportedIs
<1>3. PICK u : u = Unreported
  OBVIOUS
<1>4. Total(u) \in Nat
  BY <1>2, <1>3, UnitsFinite, ThreadsFinite
<1>5. Reported("dropped") \in Nat /\ Cardinality(lost) \in Nat
  BY <1>1, ReportedIs, LostOneMore
<1>6. type = "pcap" => Reported("dropped") <= Cardinality(lost)
  <2>1. type = "pcap" => Reported("dropped") + Total(u) <= Cardinality(lost)
    BY <1>3 DEF DropInv
  <2> QED
    BY <1>4, <1>5, <2>1
<1> QED
  BY <1>6 DEF StatsExact, CountInv, DropInv

-----------------------------------------------------------------------------
\* Digests and flows

\* The actions that process a packet
Process(t) == RejectLink(t) \/ RejectNet(t) \/ DropFlow(t) \/ CountFlow(t)

LEMMA FlowFrame ==
  ASSUME [Next]_vars
  PROVE  /\ UNCHANGED <<type, trace>>
         /\ UNCHANGED flowVars \/ \E t \in Threads : Process(t)
<1>1. CASE UNCHANGED vars
  BY <1>1 DEF vars, kernelVars
<1>2. CASE Instance
  BY <1>2 DEF Instance, Update, LockForStats, GetCaptureStats, AddStats,
              ResetStats, Updated, captureVars
<1>3. ASSUME NEW t \in Threads,
             \/ Retire(t) \/ NextReady(t) \/ CopyPacket(t) \/ CountFiltered(t)
             \/ Release(t) \/ Receive(t) \/ Overrun(t) \/ CountOverrun(t)
             \/ OpenCapture(t) \/ LockThread(t) \/ Delay(t) \/ Delayed(t)
             \/ UnlockThread(t) \/ ReceiveFails(t) \/ End(t) \/ PcapClose(t)
      PROVE  UNCHANGED <<type, trace, flowVars>>
  BY <1>3 DEF Retire, NextReady, CopyPacket, CountFiltered, Release, Receive,
              Overrun, CountOverrun, OpenCapture, LockThread, Delay, Delayed,
              UnlockThread, ReceiveFails, End, PcapClose, kernelVars
<1>4. ASSUME NEW t \in Threads, Arrive(t)
      PROVE  UNCHANGED <<type, trace, flowVars>>
  BY <1>4 DEF Arrive
<1>5. ASSUME NEW t \in Threads, Process(t)
      PROVE  UNCHANGED <<type, trace>>
  BY <1>5 DEF Process, RejectLink, RejectNet, DropFlow, CountFlow, Processed,
              kernelVars
<1> QED
  BY <1>1, <1>2, <1>3, <1>4, <1>5 DEF Next, Kernel, Capture, Fail, Process

\* What becomes of a packet that is processed
LEMMA ProcessKeys ==
  ASSUME TypeOK, NEW t \in Threads, StageOrder(t), Process(t)
  PROVE  \E e \in LogEntry :
           LET p == trace[e.id]
               v == Vlan(t, p)
           IN  /\ e.thread = t /\ p \in Packet /\ v \in Nat
               /\ log' = Append(log, e)
               /\ \/ /\ e.key = NULL /\ ~e.admitted /\ flows' = flows
                     /\ \/ vlan_id' = vlan_id
                        \/ vlan_id' = [vlan_id EXCEPT ![t] = v]
                  \/ /\ e.key = Hash(Device(t), v, p) /\ e.key \in Key
                     /\ vlan_id' = [vlan_id EXCEPT ![t] = v]
                     /\ \/ ~e.admitted /\ flows' = flows
                        \/ /\ e.admitted
                           /\ flows' = [f \in DOMAIN flows \cup {e.key} |->
                                          IF f \in DOMAIN flows THEN flows[f]
                                          ELSE Origin(p, e.key)]
<1> DEFINE h == Head(pkt_queue[t])
           p == trace[h]
           v == Vlan(t, p)
           k == Hash(Device(t), v, p)
           E(key, admitted) == [thread |-> t, id |-> h, key |-> key,
                                admitted |-> admitted]
<1>1. pkt_queue[t] # <<>> /\ p \in Packet /\ v \in Nat
  BY ProcessCases DEF Process
<1>2. h \in Nat
  BY <1>1, HeadOfQueue
<1>3. k \in Key
  <2> HIDE DEF p, v
  <2> QED
    BY <1>1, HashTyped
<1>4. ASSUME NEW key \in Key \cup {NULL}, NEW admitted \in BOOLEAN
      PROVE  /\ E(key, admitted) \in LogEntry
             /\ E(key, admitted).id = h /\ E(key, admitted).thread = t
             /\ E(key, admitted).key = key
             /\ E(key, admitted).admitted = admitted
  BY <1>2, <1>4 DEF LogEntry
<1>5. CASE RejectLink(t) \/ RejectNet(t)
  <2> DEFINE e == E(NULL, FALSE)
  <2>1. /\ log' = Append(log, e) /\ flows' = flows
        /\ vlan_id' = vlan_id \/ vlan_id' = [vlan_id EXCEPT ![t] = v]
    BY <1>5 DEF RejectLink, RejectNet, Processed
  <2>2. /\ e \in LogEntry /\ e.id = h /\ e.thread = t /\ e.key = NULL
        /\ e.admitted = FALSE
    BY <1>4
  <2> HIDE DEF h, e
  <2> QED
    BY <1>1, <2>1, <2>2
<1>6. CASE DropFlow(t)
  <2> DEFINE e == E(k, FALSE)
  <2>1. /\ log' = Append(log, e) /\ flows' = flows
        /\ vlan_id' = [vlan_id EXCEPT ![t] = v]
    BY <1>6 DEF DropFlow, Processed
  <2>2. /\ e \in LogEntry /\ e.id = h /\ e.thread = t /\ e.key = k
        /\ e.admitted = FALSE
    BY <1>3, <1>4
  <2> HIDE DEF h, e
  <2> QED
    BY <1>1, <1>3, <2>1, <2>2
<1>7. CASE CountFlow(t)
  <2> DEFINE e == E(k, TRUE)
  <2>1. /\ log' = Append(log, e)
        /\ flows' = [f \in DOMAIN flows \cup {k} |->
                       IF f \in DOMAIN flows THEN flows[f] ELSE Origin(p, k)]
        /\ vlan_id' = [vlan_id EXCEPT ![t] = v]
    BY <1>7 DEF CountFlow, Processed
  <2>2. /\ e \in LogEntry /\ e.id = h /\ e.thread = t /\ e.key = k
        /\ e.admitted = TRUE
    BY <1>3, <1>4
  <2> HIDE DEF h, e
  <2> QED
    BY <1>1, <1>3, <2>1, <2>2
<1> QED
  BY <1>5, <1>6, <1>7 DEF Process

\* The log grows by one entry.
LEMMA LogGrows ==
  ASSUME TypeOK, NEW e \in LogEntry, log' = Append(log, e)
  PROVE  /\ Len(log) \in Nat /\ DOMAIN log = 1..Len(log)
         /\ DOMAIN log' = 1..(Len(log) + 1)
         /\ \A n \in DOMAIN log : n \in DOMAIN log' /\ log'[n] = log[n]
         /\ Len(log) + 1 \in DOMAIN log' /\ log'[Len(log) + 1] = e
         /\ \A n \in DOMAIN log' : n \in DOMAIN log \/ n = Len(log) + 1
BY DEF TypeOK, ThreadType

LEMMA KeyKept ==
  ASSUME TypeOK, \A t \in Threads : StageOrder(t), KeyInv, [Next]_vars
  PROVE  KeyInv'
<1>1. UNCHANGED <<type, trace>>
  BY FlowFrame
<1>2. \A u : Device(u)' = Device(u)
  BY <1>1 DEF Device
<1>3. CASE UNCHANGED flowVars
  <2>1. UNCHANGED <<log, vlan_id>>
    BY <1>3 DEF flowVars
  <2>2. \A u : Tagged(u)' <=> Tagged(u)
    BY <1>1, <2>1 DEF Tagged
  <2>3. \A e : KeyOf(e)' <=> KeyOf(e)
    BY <1>1, <1>2, <2>2 DEF KeyOf
  <2> QED
    BY <2>1, <2>2, <2>3 DEF KeyInv
<1>4. ASSUME NEW t \in Threads, Process(t) PROVE KeyInv'
  <2>1. PICK e \in LogEntry :
          LET p == trace[e.id]
              v == Vlan(t, p)
          IN  /\ e.thread = t /\ p \in Packet /\ v \in Nat
              /\ log' = Append(log, e)
              /\ \/ /\ e.key = NULL /\ ~e.admitted
                    /\ \/ vlan_id' = vlan_id
                       \/ vlan_id' = [vlan_id EXCEPT ![t] = v]
                 \/ /\ e.key = Hash(Device(t), v, p) /\ e.key \in Key
                    /\ vlan_id' = [vlan_id EXCEPT ![t] = v]
    BY <1>4, ProcessKeys
  <2> DEFINE p == trace[e.id]
             v == Vlan(t, p)
             x == Len(log) + 1
  <2>2. /\ \A n \in DOMAIN log : n \in DOMAIN log' /\ log'[n] = log[n]
        /\ x \in DOMAIN log' /\ log'[x] = e
        /\ \A n \in DOMAIN log' : n \in DOMAIN log \/ n = x
    BY <2>1, LogGrows
  <2> HIDE DEF x
  <2>3. \A u : Tagged(u) => Tagged(u)'
    BY <1>1, <2>2 DEF Tagged
  <2>4. p.vlan # 0 => Tagged(t)'
    BY <1>1, <2>1, <2>2 DEF Tagged
  <2>5. v # 0 => Tagged(t)'
    <3>1. v = IF p.vlan # 0 THEN p.vlan ELSE vlan_id[t]
      BY DEF Vlan
    <3>2. vlan_id[t] # 0 => Tagged(t)
      BY DEF KeyInv
    <3> QED
      BY <2>3, <2>4, <3>1, <3>2
  <2>6. ASSUME NEW u \in Threads, vlan_id'[u] # 0 PROVE Tagged(u)'
    <3>1. vlan_id \in [Threads -> Nat]
      BY DEF TypeOK, ThreadType
    <3>2. vlan_id[u] # 0 => Tagged(u)
      BY DEF KeyInv
    <3>3. vlan_id' = vlan_id \/ vlan_id' = [vlan_id EXCEPT ![t] = v]
      BY <2>1
    <3>4. vlan_id'[u] = vlan_id[u] \/ (u = t /\ vlan_id'[u] = v)
      BY <3>1, <3>3
    <3> QED
      BY <2>3, <2>5, <2>6, <3>2, <3>4
  <2>7. ASSUME NEW n \in DOMAIN log PROVE KeyOf(log[n])'
    <3>1. PICK a : a = log[n]
      OBVIOUS
    <3>2. KeyOf(a)
      BY <3>1 DEF KeyInv
    <3>3. log'[n] = a
      BY <2>2, <3>1
    <3>4. CASE a.key = NULL
      BY <3>2, <3>3, <3>4 DEF KeyOf
    <3>5. CASE a.key # NULL
      <4>1. /\ a.key = Hash(Device(a.thread), a.key.vlan, trace[a.id])
            /\ trace[a.id].vlan # 0 => a.key.vlan = trace[a.id].vlan
            /\ a.key.vlan # 0 => Tagged(a.thread)
        BY <3>2, <3>5 DEF KeyOf
      <4>2. Device(a.thread)' = Device(a.thread)
        BY <1>2
      <4>3. a.key.vlan # 0 => Tagged(a.thread)'
        BY <2>3, <4>1
      <4>4. KeyOf(a)'
        BY <1>1, <3>5, <4>1, <4>2, <4>3 DEF KeyOf
      <4> QED
        BY <3>3, <4>4 DEF KeyOf
    <3> QED
      BY <3>4, <3>5
  <2>8. KeyOf(e)'
    <3>1. CASE e.key = NULL /\ ~e.admitted
      BY <3>1 DEF KeyOf
    <3>2. CASE e.key = Hash(Device(t), v, p) /\ e.key \in Key
      <4>1. e.key # NULL
        BY <3>2, CaptureAssumption
      <4>2. e.key.vlan = v
        BY <3>2 DEF Hash
      <4>3. p.vlan # 0 => v = p.vlan
        BY DEF Vlan
      <4>4. e.key = Hash(Device(t)', e.key.vlan, p)
        BY <1>2, <3>2, <4>2
      <4> QED
        BY <1>1, <2>1, <2>5, <4>1, <4>2, <4>3, <4>4 DEF KeyOf
    <3> QED
      BY <2>1, <3>1, <3>2
  <2> QED
    BY <2>2, <2>6, <2>7, <2>8 DEF KeyInv, KeyOf
<1> QED
  BY <1>3, <1>4, FlowFrame

LEMMA FlowKept ==
  ASSUME TypeOK, \A t \in Threads : StageOrder(t), FlowInv, [Next]_vars
  PROVE  FlowInv'
<1>1. trace' = trace
  BY FlowFrame
<1>2. CASE UNCHANGED flowVars
  <2>1. UNCHANGED <<log, flows>>
    BY <1>2 DEF flowVars
  <2>2. \A n : MadeFlow(n)' <=> MadeFlow(n)
    BY <2>1 DEF MadeFlow
  <2> QED
    BY <1>1, <2>1, <2>2 DEF FlowInv
<1>3. ASSUME NEW t \in Threads, Process(t) PROVE FlowInv'
  <2>1. PICK e \in LogEntry :
          /\ log' = Append(log, e)
          /\ \/ ~e.admitted /\ flows' = flows
             \/ /\ e.admitted
                /\ flows' = [f \in DOMAIN flows \cup {e.key} |->
                               IF f \in DOMAIN flows THEN flows[f]
                               ELSE Origin(trace[e.id], e.key)]
    BY <1>3, ProcessKeys
  <2>2. PICK x : x = Len(log) + 1
    OBVIOUS
  <2>3. /\ Len(log) \in Nat /\ DOMAIN log = 1..Len(log)
        /\ \A n \in DOMAIN log : n \in DOMAIN log' /\ log'[n] = log[n]
        /\ x \in DOMAIN log' /\ log'[x] = e
        /\ \A n \in DOMAIN log' : n \in DOMAIN log \/ n = x
    BY <2>1, <2>2, LogGrows
  <2>4. \A k \in DOMAIN flows : k \in DOMAIN flows' /\ flows'[k] = flows[k]
    BY <2>1
  <2>5. e.admitted => e.key \in DOMAIN flows'
    BY <2>1
  <2>6. ASSUME NEW k \in DOMAIN flows'
        PROVE  \E n \in DOMAIN log' : log'[n].admitted /\ log'[n].key = k
    <3>1. CASE k \in DOMAIN flows
      <4>1. PICK n \in DOMAIN log : log[n].admitted /\ log[n].key = k
        BY <3>1 DEF FlowInv
      <4> QED
        BY <2>3, <4>1
    <3>2. CASE k \notin DOMAIN flows
      <4>1. e.admitted /\ k = e.key
        BY <2>1, <3>2
      <4> QED
        BY <2>3, <4>1
    <3> QED
      BY <3>1, <3>2
  <2>7. ASSUME NEW n \in DOMAIN log'
        PROVE  log'[n].admitted => log'[n].key \in DOMAIN flows'
    <3>1. CASE n \in DOMAIN log
      BY <2>3, <2>4, <3>1 DEF FlowInv
    <3>2. CASE n = x
      BY <2>3, <2>5, <3>2
    <3> QED
      BY <2>3, <3>1, <3>2
  <2>8. ASSUME NEW n \in DOMAIN log', MadeFlow(n)'
        PROVE  flows'[log'[n].key] = Origin(trace[log'[n].id], log'[n].key)
    <3>1. CASE n \in DOMAIN log
      <4>1. \A m \in 1..n - 1 : m \in DOMAIN log
        BY <2>3, <3>1
      <4>2. /\ log'[n] = log[n]
            /\ \A m \in 1..n - 1 : log'[m] = log[m]
        BY <2>3, <3>1, <4>1
      <4>3. MadeFlow(n)
        BY <2>8, <4>2 DEF MadeFlow
      <4>4. /\ log[n].key \in DOMAIN flows
            /\ flows[log[n].key] = Origin(trace[log[n].id], log[n].key)
        BY <3>1, <4>3 DEF FlowInv, MadeFlow
      <4> QED
        BY <2>4, <4>2, <4>4
    <3>2. CASE n = x
      <4>1. e.admitted
        BY <2>3, <2>8, <3>2 DEF MadeFlow
      <4>2. \A m \in DOMAIN log : ~(log[m].admitted /\ log[m].key = e.key)
        <5>1. \A m \in DOMAIN log : m \in 1..n - 1
          BY <2>2, <2>3, <3>2
        <5>2. \A m \in 1..n - 1 : ~(log'[m].admitted /\ log'[m].key = e.key)
          BY <2>3, <2>8, <3>2 DEF MadeFlow
        <5> QED
          BY <2>3, <5>1, <5>2
      <4>3. e.key \notin DOMAIN flows
        BY <4>2 DEF FlowInv
      <4>4. flows'[e.key] = Origin(trace[e.id], e.key)
        BY <2>1, <4>1, <4>3
      <4> QED
        BY <2>3, <3>2, <4>4
    <3> QED
      BY <2>3, <3>1, <3>2
  <2> QED
    BY <1>1, <2>6, <2>7, <2>8 DEF FlowInv
<1> QED
  BY <1>2, <1>3, FlowFrame

\* Swapping its bytes maps no two ports to one number.
LEMMA WireOrder ==
  ASSUME NEW a \in Port, NEW b \in Port
  PROVE  /\ Wire(a) \in Nat /\ Wire(b) \in Nat
         /\ Wire(a) = Wire(b) => a = b
<1>1. /\ a \in Int /\ 0 <= a /\ a <= 65535
      /\ b \in Int /\ 0 <= b /\ b <= 65535
  BY PortRange
<1>2. /\ a % 256 \in Nat /\ a \div 256 \in Nat
      /\ b % 256 \in Nat /\ b \div 256 \in Nat
  BY <1>1
<1>3. ASSUME (a % 256) * 256 + a \div 256 = (b % 256) * 256 + b \div 256
      PROVE  a = b
  BY <1>1, <1>3
<1>4. /\ Wire(a) = (a % 256) * 256 + a \div 256
      /\ Wire(b) = (b % 256) * 256 + b \div 256
  BY DEF Wire
<1>5. Wire(a) \in Nat /\ Wire(b) \in Nat
  BY <1>2, <1>4
<1> QED
  BY <1>3, <1>4, <1>5

\* The ends of a digest are those of the packet, in an order that does not
\* depend on its direction.
LEMMA HashSame ==
  ASSUME NEW p \in Packet, NEW q \in Packet, NEW d
  PROVE  Hash(d, p.vlan, p) = Hash(d, q.vlan, q) <=> SameConnection(p, q)
<1> DEFINE a == Hash(d, p.vlan, p)
           b == Hash(d, q.vlan, q)
<1>1. /\ p.src \in Nat /\ p.dst \in Nat /\ p.sport \in Port /\ p.dport \in Port
      /\ q.src \in Nat /\ q.dst \in Nat /\ q.sport \in Port /\ q.dport \in Port
  BY PacketFields
<1>2. /\ a.vlan = p.vlan /\ a.proto = p.proto
      /\ a.lower = IF SenderLower(p) THEN <<p.src, p.sport>>
                                     ELSE <<p.dst, p.dport>>
      /\ a.upper = IF SenderLower(p) THEN <<p.dst, p.dport>>
                                     ELSE <<p.src, p.sport>>
  BY DEF Hash
<1>3. /\ b.vlan = q.vlan /\ b.proto = q.proto
      /\ b.lower = IF SenderLower(q) THEN <<q.src, q.sport>>
                                     ELSE <<q.dst, q.dport>>
      /\ b.upper = IF SenderLower(q) THEN <<q.dst, q.dport>>
                                     ELSE <<q.src, q.sport>>
  BY DEF Hash
<1>4. a = b <=> /\ a.vlan = b.vlan /\ a.proto = b.proto
                /\ a.lower = b.lower /\ a.upper = b.upper
  BY DEF Hash
<1> HIDE DEF a, b
<1>5. ASSUME a = b PROVE SameConnection(p, q)
  <2>1. /\ {<<p.src, p.sport>>, <<p.dst, p.dport>>} = {a.lower, a.upper}
        /\ {<<q.src, q.sport>>, <<q.dst, q.dport>>} = {b.lower, b.upper}
    BY <1>2, <1>3
  <2> QED
    BY <1>2, <1>3, <1>5, <2>1 DEF SameConnection
<1>6. ASSUME SameConnection(p, q) PROVE a = b
  <2>1. p.vlan = q.vlan /\ p.proto = q.proto
    BY <1>6 DEF SameConnection
  <2>2. \/ /\ <<p.src, p.sport>> = <<q.src, q.sport>>
           /\ <<p.dst, p.dport>> = <<q.dst, q.dport>>
        \/ /\ <<p.src, p.sport>> = <<q.dst, q.dport>>
           /\ <<p.dst, p.dport>> = <<q.src, q.sport>>
    <3>1. \A w, x, y, z : {w, x} = {y, z} => (w = y /\ x = z) \/ (w = z /\ x = y)
      OBVIOUS
    <3>2. PICK w, x, y, z : /\ w = <<p.src, p.sport>> /\ x = <<p.dst, p.dport>>
                            /\ y = <<q.src, q.sport>> /\ z = <<q.dst, q.dport>>
      OBVIOUS
    <3>3. {w, x} = {y, z}
      BY <1>6, <3>2 DEF SameConnection
    <3>4. (w = y /\ x = z) \/ (w = z /\ x = y)
      BY <3>1, <3>3
    <3> QED
      BY <3>2, <3>4
  <2>3. CASE /\ <<p.src, p.sport>> = <<q.src, q.sport>>
             /\ <<p.dst, p.dport>> = <<q.dst, q.dport>>
    <3>1. p.src = q.src /\ p.sport = q.sport /\ p.dst = q.dst /\ p.dport = q.dport
      BY <2>3
    <3>2. SenderLower(p) <=> SenderLower(q)
      BY <3>1 DEF SenderLower
    <3> QED
      BY <1>2, <1>3, <1>4, <2>1, <3>1, <3>2
  <2>4. CASE /\ <<p.src, p.sport>> = <<q.dst, q.dport>>
             /\ <<p.dst, p.dport>> = <<q.src, q.sport>>
    <3>1. p.src = q.dst /\ p.sport = q.dport /\ p.dst = q.src /\ p.dport = q.sport
      BY <2>4
    <3>2. CASE p.src = p.dst /\ p.sport = p.dport
      BY <1>2, <1>3, <1>4, <2>1, <3>1, <3>2
    <3>3. CASE ~(p.src = p.dst /\ p.sport = p.dport)
      <4>1. SenderLower(p) <=> ~SenderLower(q)
        BY <1>1, <3>1, <3>3, WireOrder DEF SenderLower
      <4> QED
        BY <1>2, <1>3, <1>4, <2>1, <3>1, <4>1
    <3> QED
      BY <3>2, <3>3
  <2> QED
    BY <2>2, <2>3, <2>4
<1> QED
  BY <1>5, <1>6 DEF a, b

LEMMA Unordered ==
  ASSUME NEW x, x \in Nat, NEW y, x < y
  PROVE  x # y
<1>1. ASSUME x = y PROVE FALSE
  <2>1. x < x
    BY <1>1
  <2> QED
    BY <2>1
<1> QED
  BY <1>1

\* A packet of a handshake tells the client, or else the server.
LEMMA OriginIs ==
  ASSUME NEW p \in Packet, p.flags # "", NEW d, NEW v
  PROVE  LET k == Hash(d, v, p)
             client == IF p.flags = "syn" THEN <<p.src, p.sport>>
                                          ELSE <<p.dst, p.dport>>
             mistaken == p.src = p.dst /\ Wire(p.sport) < Wire(p.dport)
         IN  k[Origin(p, k)] = client <=> ~mistaken
<1> DEFINE k == Hash(d, v, p)
           client == IF p.flags = "syn" THEN <<p.src, p.sport>>
                                        ELSE <<p.dst, p.dport>>
           mistaken == p.src = p.dst /\ Wire(p.sport) < Wire(p.dport)
<1>1. /\ p.src \in Nat
      /\ p.flags = "syn" \/ p.flags = "synack"
  BY PacketFields
<1>0. p.src < p.dst => p.src # p.dst
  BY <1>1, Unordered
<1>2. CASE p.src < p.dst
  <2>1. k["lower"] = <<p.src, p.sport>> /\ k["upper"] = <<p.dst, p.dport>>
    BY <1>2 DEF Hash, SenderLower
  <2>2. Origin(p, k) = IF p.flags = "syn" THEN "lower" ELSE "upper"
    BY <1>1, <1>2 DEF Origin
  <2>3. ~mistaken
    BY <1>0, <1>2
  <2>4. k[Origin(p, k)] = client
    BY <1>1, <2>1, <2>2
  <2> QED
    BY <2>3, <2>4, Zenon
<1>3. CASE ~(p.src < p.dst) /\ ~mistaken
  <2>0. ~SenderLower(p)
    BY <1>3, Zenon DEF SenderLower
  <2>1. k["lower"] = <<p.dst, p.dport>> /\ k["upper"] = <<p.src, p.sport>>
    BY <2>0 DEF Hash
  <2>2. Origin(p, k) = IF p.flags = "syn" THEN "upper" ELSE "lower"
    BY <1>1, <1>3 DEF Origin
  <2>3. k[Origin(p, k)] = client
    BY <1>1, <2>1, <2>2
  <2> QED
    BY <1>3, <2>3, Zenon
<1>4. CASE mistaken
  <2>1. p.src = p.dst /\ ~(p.src < p.dst) /\ SenderLower(p)
    BY <1>0, <1>4 DEF SenderLower
  <2>2. k["lower"] = <<p.src, p.sport>> /\ k["upper"] = <<p.dst, p.dport>>
    BY <2>1 DEF Hash
  <2>3. Origin(p, k) = IF p.flags = "syn" THEN "upper" ELSE "lower"
    BY <1>1, <2>1 DEF Origin
  <2>4. p.sport # p.dport
    <3>1. p.sport \in Port /\ p.dport \in Port
      BY PacketFields
    <3>2. Wire(p.sport) \in Nat
      BY <3>1, WireOrder
    <3>3. Wire(p.sport) # Wire(p.dport)
      BY <1>4, <3>2, Unordered
    <3> QED
      BY <3>3
  <2>5. k[Origin(p, k)] # client
    <3>1. <<p.src, p.sport>> # <<p.dst, p.dport>>
      BY <2>4
    <3>2. CASE p.flags = "syn"
      BY <2>2, <2>3, <3>1, <3>2
    <3>3. CASE p.flags # "syn"
      BY <2>2, <2>3, <3>1, <3>3
    <3> QED
      BY <3>2, <3>3
  <2> QED
    BY <1>4, <2>5, Zenon
<1> HIDE DEF mistaken
<1> QED
  BY <1>2, <1>3, <1>4

LEMMA FlowsHold ==
  ASSUME TypeOK, \A t \in Threads : StageOrder(t), KeyInv, FlowInv
  PROVE  FlowPerConnection
<1>1. \A n \in DOMAIN log : trace[log[n].id] \in Packet /\ log[n] \in LogEntry
  BY LogTyped
<1>2. ASSUME NEW n \in DOMAIN log, MadeFlow(n), trace[log[n].id].flags # ""
      PROVE  LET k == log[n].key
                 p == trace[log[n].id]
                 client == IF p.flags = "syn" THEN <<p.src, p.sport>>
                                              ELSE <<p.dst, p.dport>>
                 mistaken == p.src = p.dst /\ Wire(p.sport) < Wire(p.dport)
             IN  /\ k \in DOMAIN flows
                 /\ k[flows[k]] = client <=> ~mistaken
  <2>1. PICK k, p, t : k = log[n].key /\ p = trace[log[n].id]
                       /\ t = log[n].thread
    OBVIOUS
  <2>2. k \in DOMAIN flows /\ flows[k] = Origin(p, k)
    BY <1>2, <2>1 DEF FlowInv, MadeFlow
  <2>3. k = Hash(Device(t), k.vlan, p)
    <3>1. log[n].admitted /\ KeyOf(log[n])
      BY <1>2 DEF MadeFlow, KeyInv
    <3> QED
      BY <2>1, <3>1 DEF KeyOf
  <2>4. p \in Packet /\ p.flags # ""
    BY <1>1, <1>2, <2>1
  <2>5. LET client == IF p.flags = "syn" THEN <<p.src, p.sport>>
                                         ELSE <<p.dst, p.dport>>
            mistaken == p.src = p.dst /\ Wire(p.sport) < Wire(p.dport)
        IN  k[Origin(p, k)] = client <=> ~mistaken
    BY <2>3, <2>4, OriginIs
  <2> QED
    BY <2>1, <2>2, <2>5
<1>3. HandshakeOrigin
  BY <1>2 DEF HandshakeOrigin
<1>4. ASSUME \A t \in Threads : Uniform(t), NEW n \in DOMAIN log,
             log[n].key # NULL
      PROVE  log[n].key = Hash(Device(log[n].thread), trace[log[n].id].vlan,
                               trace[log[n].id])
  <2>1. PICK k, p, t : k = log[n].key /\ p = trace[log[n].id]
                       /\ t = log[n].thread
    OBVIOUS
  <2>2. KeyOf(log[n])
    BY DEF KeyInv
  <2>3. /\ k = Hash(Device(t), k.vlan, p)
        /\ p.vlan # 0 => k.vlan = p.vlan
        /\ k.vlan # 0 => Tagged(t)
    BY <1>4, <2>1, <2>2 DEF KeyOf
  <2>4. t \in Threads /\ p \in Packet
    BY <1>1, <2>1 DEF LogEntry
  <2>5. Tagged(t) => p.vlan # 0
    <3>1. Uniform(t)
      BY <1>4, <2>4
    <3> QED
      BY <2>1, <3>1 DEF Uniform, Tagged
  <2>6. k.vlan = p.vlan
    BY <2>3, <2>5
  <2> QED
    BY <2>1, <2>3, <2>6
<1>5. ASSUME \A t \in Threads : Uniform(t), NEW m \in DOMAIN log,
             NEW n \in DOMAIN log, log[m].key # NULL, log[n].key # NULL,
             Device(log[m].thread) = Device(log[n].thread)
      PROVE  log[m].key = log[n].key <=>
               SameConnection(trace[log[m].id], trace[log[n].id])
  <2>1. PICK p, q, d : /\ p = trace[log[m].id] /\ q = trace[log[n].id]
                       /\ d = Device(log[m].thread)
    OBVIOUS
  <2>2. log[m].key = Hash(d, p.vlan, p) /\ log[n].key = Hash(d, q.vlan, q)
    BY <1>4, <1>5, <2>1
  <2>3. p \in Packet /\ q \in Packet
    BY <1>1, <2>1
  <2>4. Hash(d, p.vlan, p) = Hash(d, q.vlan, q) <=> SameConnection(p, q)
    BY <2>3, HashSame
  <2> QED
    BY <2>1, <2>2, <2>4
<1> QED
  BY <1>3, <1>5 DEF FlowPerConnection

-----------------------------------------------------------------------------
\* The invariant

LEMMA TotalZero ==
  ASSUME NEW f, \A x \in DOMAIN f : f[x] = 0
  PROVE  Total(f) = 0
<1>1. Units(f) = {}
  <2>1. ASSUME NEW u \in Units(f) PROVE FALSE
    <3>1. PICK x \in DOMAIN f : u \in {x} \X (1..f[x])
      BY DEF Units
    <3>2. 1..f[x] = {}
      BY <3>1
    <3> QED
      BY <3>1, <3>2
  <2> QED
    BY <2>1
<1>2. Total(f) = Cardinality(Units(f))
  BY DEF Total, Units
<1> QED
  BY <1>1, <1>2, FS_EmptySet

LEMMA InitTyped == Init => TypeOK
<1> SUFFICES ASSUME Init PROVE TypeOK
  OBVIOUS
<1>1. 0 \in Blocks
  BY CaptureAssumption DEF Blocks
<1>2. NoStats \in Stats
  BY DEF NoStats, Stats
<1>3. trace \in Seq(Packet) /\ type \in CaptureTypes
  BY CaptureAssumption DEF Init
<1>4. KernelType
  <2>1. Len(trace) \in Nat
    BY <1>3
  <2>2. arrived \in 0..Len(trace) /\ lost \in SUBSET (1..arrived)
    BY <2>1 DEF Init
  <2>3. /\ ring \in [Threads -> [Blocks -> Seq(Nat)]]
        /\ sock \in [Threads -> Seq(Nat)]
    <3>1. <<>> \in Seq(Nat)
      OBVIOUS
    <3> QED
      BY <3>1 DEF Init
  <2>4. /\ status \in [Threads -> [Blocks -> {"kernel", "user"}]]
        /\ kblock \in [Threads -> Blocks] /\ drops \in [Threads -> Nat]
        /\ overrun \in [Threads -> BOOLEAN]
    BY <1>1 DEF Init
  <2> QED
    BY <1>3, <2>2, <2>3, <2>4 DEF KernelType
<1>5. ThreadType
  <2>1. pc \in [Threads -> Places]
    <3>1. pc = [t \in Threads |->
                  CASE type \in {"tpv3", "nfq"} -> "next"
                    [] t = FirstOf(Threads) -> "closed"
                    [] OTHER -> "none"]
      BY DEF Init
    <3>2. \A t \in Threads : pc[t] \in Places
      BY <3>1 DEF Places
    <3> QED
      BY <3>1, <3>2
  <2>2. lock \in [Threads -> Threads \cup {NULL, "update"}]
    BY DEF Init
  <2>3. /\ it_block \in [Threads -> Blocks] /\ block \in [Threads -> Blocks]
        /\ copied \in [Threads -> Nat] /\ vlan_id \in [Threads -> Nat]
    BY <1>1 DEF Init
  <2>4. pkt_queue \in [Threads -> Seq(Nat)] /\ log \in Seq(LogEntry)
    BY DEF Init
  <2> QED
    BY <2>1, <2>2, <2>3, <2>4 DEF ThreadType
<1>6. CountType
  <2>1. \A t \in Threads : pc[t] # "count" /\ pc[t] # "overrun"
    BY DEF Init
  <2>2. reg = [t \in Threads |-> reg[t]]
    BY DEF Init
  <2>3. stats \in [Threads -> Stats]
    BY <1>2 DEF Init
  <2>4. /\ dropped \in [Threads -> Nat] /\ pcs_last \in [Threads -> Nat]
        /\ pkt_stats \in Stats /\ pkt_stats_global \in Stats
        /\ upc = "idle" /\ todo = {} /\ asked = NULL
    BY <1>2 DEF Init
  <2> QED
    BY <2>1, <2>2, <2>3, <2>4 DEF CountType
<1> QED
  BY <1>4, <1>5, <1>6 DEF TypeOK

LEMMA InitCaptureInv == Init => CaptureInv
<1> SUFFICES ASSUME Init PROVE CaptureInv
  OBVIOUS
<1>1. TypeOK
  BY InitTyped
<1>2. /\ log = <<>> /\ DOMAIN log = {} /\ arrived = 0 /\ lost = {}
      /\ flows = <<>> /\ DOMAIN flows = {} /\ upc = "idle"
  BY DEF Init
<1>3. \A t \in Threads :
        /\ pc[t] \in {"none", "closed", "next"} /\ pkt_queue[t] = <<>>
        /\ sock[t] = <<>> /\ ~overrun[t] /\ kblock[t] = 0 /\ it_block[t] = 0
        /\ vlan_id[t] = 0 /\ drops[t] = 0 /\ pcs_last[t] = 0
        /\ stats[t] = NoStats
        /\ \A b \in Blocks : ring[t][b] = <<>> /\ status[t][b] = "kernel"
  BY DEF Init
<1>4. Control
  BY <1>2, <1>3 DEF Control, Copying
<1>5. ASSUME NEW t \in Threads PROVE RingShape(t) /\ StageOrder(t)
  <2>1. ~Copying(t) /\ block[t] \in Blocks
    BY <1>1, <1>3 DEF Copying, TypeOK, ThreadType
  <2>2. RingShape(t)
    <3>1. \A b \in Blocks : ~User(t, b) /\ ~Between(t, b)
      <4>1. \A b \in Blocks : b \in Nat /\ b >= 0
        BY CaptureAssumption DEF Blocks
      <4>2. Ahead(t, kblock[t]) = 0 /\ \A b \in Blocks : Ahead(t, b) = b
        BY <1>3, <4>1 DEF Ahead
      <4> QED
        BY <1>3, <4>1, <4>2 DEF User, Between
    <3> QED
      BY <1>3, <2>1, <3>1 DEF RingShape, BlockOwners, KernelBlocks, Counting
  <2>3. /\ LogIds(t) = {} /\ Elems(pkt_queue[t]) = {} /\ BlockIds(t) = {}
        /\ RingIds(t) = {} /\ Elems(sock[t]) = {}
    <3>1. Elems(<<>>) = {}
      BY DEF Elems
    <3> QED
      BY <1>2, <1>3, <2>1, <3>1 DEF LogIds, BlockIds, RingIds, Others
  <2>4. Waiting(t) = {} /\ Ids(t) = {}
    BY <2>3 DEF Waiting, Ids
  <2>5. /\ LogSorted(t) /\ Sorted(pkt_queue[t]) /\ Sorted(sock[t])
        /\ \A b \in Blocks : Sorted(ring[t][b])
    BY <1>2, <1>3 DEF LogSorted, Sorted
  <2>6. RingSorted(t)
    BY <1>3 DEF RingSorted, Below, Elems, Others
  <2> QED
    BY <2>2, <2>3, <2>4, <2>5, <2>6 DEF StageOrder, Below
<1>6. NoneLeftOut
  BY <1>2 DEF NoneLeftOut
<1>7. StatsClear
  BY <1>3 DEF StatsClear, NoStats, Init, Counters
<1>8. ASSUME NEW c \in Counters PROVE Reported(c) = 0
  <2>1. NoStats[c] = 0
    BY DEF NoStats
  <2>2. pkt_stats[c] = 0 /\ pkt_stats_global[c] = 0
    BY <2>1 DEF Init
  <2>3. PICK f : f = Shares(c)
    OBVIOUS
  <2>4. \A x \in DOMAIN f : f[x] = 0
    BY <1>2, <1>3, <2>1, <2>3 DEF Shares
  <2>5. Total(f) = 0
    BY <2>4, TotalZero
  <2> QED
    BY <1>1, <2>2, <2>3, <2>5, ReportedIs
<1>9. /\ Reported("raw") = 0 /\ Reported("ip") = 0 /\ Reported("discard") = 0
      /\ Reported("dropped") = 0
  BY <1>8 DEF Counters
<1>10. CountInv
  <2>1. Len(log) = 0
    BY <1>2
  <2>2. Admitted = {} /\ Cardinality(Admitted) = 0
    BY <1>2, FS_EmptySet DEF Admitted
  <2>3. PICK f : f = LogDiscards
    OBVIOUS
  <2>4. \A x \in DOMAIN f : f[x] = 0
    BY <1>2, <2>3 DEF LogDiscards
  <2>5. Total(f) = 0
    BY <2>4, TotalZero
  <2> QED
    BY <1>9, <2>1, <2>2, <2>3, <2>5, CountInvIs
<1>11. DropInv
  <2>1. PICK f, g : f = drops /\ g = Unreported
    OBVIOUS
  <2>2. \A x \in DOMAIN f : f[x] = 0
    BY <2>1 DEF Init
  <2>3. \A x \in DOMAIN g : g[x] = 0
    BY <1>3, <2>1 DEF Unreported
  <2>4. Total(f) = 0 /\ Total(g) = 0
    BY <2>2, <2>3, TotalZero
  <2>5. Cardinality(lost) = 0
    BY <1>2, FS_EmptySet
  <2> QED
    BY <1>9, <2>1, <2>4, <2>5 DEF DropInv
<1>12. KeyInv /\ FlowInv
  BY <1>2, <1>3 DEF KeyInv, FlowInv
<1> QED
  BY <1>1, <1>4, <1>5, <1>6, <1>7, <1>10, <1>11, <1>12 DEF CaptureInv

LEMMA CaptureInvStep == CaptureInv /\ [Next]_vars => CaptureInv'
<1> SUFFICES ASSUME CaptureInv, [Next]_vars PROVE CaptureInv'
  OBVIOUS
<1>1. /\ TypeOK /\ Control
      /\ \A t \in Threads : StageOrder(t)
      /\ \A t \in Threads : RingShape(t)
      /\ \A t \in Threads : StageOrder(t) /\ RingShape(t)
  BY DEF CaptureInv
<1>2. NoneLeftOut /\ CountInv /\ StatsClear /\ DropInv /\ KeyInv /\ FlowInv
  BY DEF CaptureInv
<1>3. TypeOK'
  BY <1>1, KernelTyped, ThreadTyped, CountTyped DEF TypeOK
<1>4. Control'
  BY <1>1, ControlKept
<1>5. \A t \in Threads : RingShape(t)'
  BY <1>1, RingKept
<1>6. \A t \in Threads : StageOrder(t)'
  BY <1>1, StageKept
<1>7. NoneLeftOut'
  BY <1>1, <1>2, NoneLeftOutKept
<1>8. StatsClear'
  BY <1>1, <1>2, StatsClearKept
<1>9. CountInv'
  BY <1>1, <1>2, <1>3, CountKept
<1>10. DropInv'
  BY <1>1, <1>2, <1>3, DropKept
<1>11. KeyInv'
  BY <1>1, <1>2, KeyKept
<1>12. FlowInv'
  BY <1>1, <1>2, FlowKept
<1> QED
  BY <1>3, <1>4, <1>5, <1>6, <1>7, <1>8, <1>9, <1>10, <1>11, <1>12
  DEF CaptureInv

\* The invariant of the capture threads, the kernel and the instance thread:
\* types, who holds the mutex of a thread, which blocks of the ring are whose,
\* the order of the packets at every stage of their way, and what the
\* counters, the digests and the flows have to do with the packets processed.
THEOREM CaptureInvariant == Spec => []CaptureInv
BY InitCaptureInv, CaptureInvStep, PTL DEF Spec

\* The kernel, ndPacketRing::Next, CopyPacket, Release and the queues together
\* give ProcessPacket every packet that had room once and in the order of
\* arrival, for every number and size of blocks and every number of threads.
THEOREM PacketsOnceInOrder == Spec => []OnceInOrder
<1>1. CaptureInv => OnceInOrder
  BY OrderHolds DEF CaptureInv
<1> QED
  BY <1>1, CaptureInvariant, PTL

\* What ProcessUpdate has reported, is about to report and will report is what
\* the capture threads counted, wherever an update interrupts them.
THEOREM ReportsExact == Spec => []StatsExact
<1>1. CaptureInv => StatsExact
  BY StatsHold DEF CaptureInv
<1> QED
  BY <1>1, CaptureInvariant, PTL

\* ndFlow::Hash and the template of ProcessPacket give the packets of a
\* connection one flow whatever their direction, and its origin is the client.
THEOREM ConnectionsAreFlows == Spec => []FlowPerConnection
<1>1. CaptureInv => FlowPerConnection
  BY FlowsHold DEF CaptureInv
<1> QED
  BY <1>1, CaptureInvariant, PTL

\* The state stays typed: a packet's place is in the trace, the iterator and
\* the kernel's block are blocks of the ring, and no counter falls below zero.
THEOREM CaptureTypeCorrect == Spec => []TypeOK
<1>1. CaptureInv => TypeOK
  BY DEF CaptureInv
<1> QED
  BY <1>1, CaptureInvariant, PTL
=============================================================================
