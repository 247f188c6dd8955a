------------------------- MODULE FlowLifecycleProofs -------------------------
(***************************************************************************)
(* Proofs of the safety properties of FlowLifecycle, for every number of   *)
(* threads, buckets, digests and flows.                                    *)
(*                                                                         *)
(* LifecycleInv is inductive.  It is proved in the form IInv, in which     *)
(* ReferencedIsMapped is spelled out for the three places that hold a      *)
(* reference to a flow: capture threads, detection threads and their       *)
(* queues.  One lemma per kind of thread shows that its steps preserve     *)
(* IInv; what a step leaves alone is preserved by the lemma Frame.  The    *)
(* counting properties follow from IInv and the cardinality of the sets    *)
(* of mapped digests and of capture threads about to count a flow.         *)
(*                                                                         *)
(* On top of IInv: ExpiryPending is inductive by itself; that a flow has   *)
(* one detection thread takes OwnerInv, which ties the entries of a flow   *)
(* to its dpi_thread_id; and the refinement of FlowTable takes             *)
(* ExpiredHomed, and one lemma per way a step can show in the abstract     *)
(* table.                                                                  *)
(***************************************************************************)
EXTENDS FlowLifecycle, FiniteSetTheorems, SequenceTheorems, TLAPS

\* The flow map holds f under its digest
Homed(f) == digest[f] # NULL /\ map[digest[f]] = f

CapRefs == \A c \in CaptureThreads : cflow[c] # NULL => Homed(cflow[c])
DpiRefs == \A t \in DpiThreads : dflow[t] # NULL => Homed(dflow[t])
QueueRefs ==
  \A t \in DpiThreads : \A i \in 1..Len(queue[t]) : Homed(queue[t][i].flow)

IInv ==
  /\ MapType /\ FlowType /\ CapType /\ DpiType /\ InstType
  /\ Locking /\ CaptureState /\ DetectionState /\ WalkState /\ FlowsKeyed
  /\ CapRefs /\ DpiRefs /\ QueueRefs

\* The elements of a packet queue are entries (ndDetectionQueueEntry).
LEMMA QueuedFlow ==
  ASSUME DpiType, NEW t \in DpiThreads, NEW i \in 1..Len(queue[t])
  PROVE  queue[t][i] \in Entry
<1>1. queue[t] \in Seq(Entry)
  BY DEF DpiType
<1> QED
  BY <1>1, ElementOfSeq

\* ReferencedIsMapped, by who holds the reference.
LEMMA ReferencesHomed ==
  ASSUME TypeOK
  PROVE  ReferencedIsMapped <=> CapRefs /\ DpiRefs /\ QueueRefs
<1>1. ASSUME NEW t \in DpiThreads, NEW i \in 1..Len(queue[t])
      PROVE  queue[t][i].flow \in Flows
  BY <1>1, QueuedFlow DEF TypeOK, Entry
<1>2. ASSUME ReferencedIsMapped
      PROVE  CapRefs /\ DpiRefs /\ QueueRefs
  BY <1>1, <1>2
  DEF TypeOK, CapType, DpiType, ReferencedIsMapped, CapRefs, DpiRefs, QueueRefs,
      Homed, InUse, CapHolds, DpiHolds, Queued
<1>3. ASSUME CapRefs, DpiRefs, QueueRefs, NEW f \in Flows, InUse(f)
      PROVE  Homed(f)
  <2>1. CASE CapHolds(f)
    BY <1>3, <2>1, ConstantsAssumption DEF CapHolds, CapRefs
  <2>2. ASSUME NEW t \in DpiThreads, DpiHolds(t, f)
        PROVE  Homed(f)
    BY <1>3, <2>2, ConstantsAssumption DEF DpiHolds, Queued, DpiRefs,
       QueueRefs
  <2> QED
    BY <1>3, <2>1, <2>2 DEF InUse
<1> QED
  BY <1>2, <1>3 DEF ReferencedIsMapped, Homed

\* use_count() = 1: neither a thread nor a queue refers to the flow.
LEMMA UnusedFlow ==
  ASSUME NEW f \in Flows, ~InUse(f)
  PROVE  /\ \A c \in CaptureThreads : cflow[c] # f
         /\ \A t \in DpiThreads : dflow[t] # f
         /\ \A t \in DpiThreads :
              \A i \in 1..Len(queue[t]) : queue[t][i].flow # f
  BY DEF InUse, CapHolds, DpiHolds, Queued

\* QueuePacket appends one entry of the flow and keeps the others.
LEMMA PushedEntry ==
  ASSUME DpiType, NEW t \in DpiThreads, NEW f \in Flows, NEW p \in BOOLEAN,
         Push(t, f, p)
  PROVE  /\ queue' \in [DpiThreads -> Seq(Entry)]
         /\ \A u \in DpiThreads : \A i \in 1..Len(queue'[u]) :
              \/ queue'[u][i].flow = f
              \/ i \in 1..Len(queue[u]) /\ queue'[u][i] = queue[u][i]
<1> DEFINE e == [flow |-> f, packet |-> p]
<1>1. e \in Entry /\ e.flow = f
  BY DEF Entry
<1>2. queue[t] \in Seq(Entry) /\ queue \in [DpiThreads -> Seq(Entry)]
  BY DEF DpiType
<1> HIDE DEF e
<1>3. queue' = [queue EXCEPT ![t] = Append(queue[t], e)]
  BY <1>2 DEF Push, e
<1>4. Append(queue[t], e) \in Seq(Entry)
  BY <1>1, <1>2
<1>5. queue' \in [DpiThreads -> Seq(Entry)]
  BY <1>2, <1>3, <1>4
<1>6. ASSUME NEW u \in DpiThreads, NEW i \in 1..Len(queue'[u])
      PROVE  \/ queue'[u][i].flow = f
             \/ i \in 1..Len(queue[u]) /\ queue'[u][i] = queue[u][i]
  <2>1. CASE u = t
    <3>1. queue'[u] = Append(queue[t], e)
      BY <1>2, <1>3, <2>1
    <3> QED
      BY <1>1, <1>2, <2>1, <3>1, <1>6
  <2>2. CASE u # t
    BY <1>2, <1>3, <1>6, <2>2
  <2> QED
    BY <2>1, <2>2
<1> QED
  BY <1>5, <1>6

\* Whatever the instance thread is given to do is a sequence of jobs.
LEMMA JobLists ==
  \A S \in {<<>>, <<"update">>, <<"join", "destroy">>, <<"join", "update">>,
            <<"join", "destroy", "update">>, <<"join", "update", "exit">>} :
    S \in Seq(Jobs)
<1>1. <<>> \in Seq(Jobs) /\ <<"update">> \in Seq(Jobs)
  BY DEF Jobs
<1>2. <<"join", "destroy">> \in Seq(Jobs) /\ <<"join", "update">> \in Seq(Jobs)
  BY DEF Jobs
<1>3. <<"join", "destroy", "update">> \in Seq(Jobs)
  BY DEF Jobs
<1>4. <<"join", "update", "exit">> \in Seq(Jobs)
  BY DEF Jobs
<1> QED
  BY <1>1, <1>2, <1>3, <1>4

\* Each part of the invariant survives a step that leaves its variables alone.
LEMMA Frame ==
  /\ MapType /\ UNCHANGED <<map, bucket_lock, nflows>> => MapType'
  /\ /\ FlowType
     /\ UNCHANGED <<digest, complete, init, expiring, expired, idle, known,
             ndpi, pkts, dpi>>
     => FlowType'
  /\ CapType /\ UNCHANGED <<cpc, ckey, cflow, crr, stop>> => CapType'
  /\ DpiType /\ UNCHANGED <<dpc, dflow, dpkt, queue>> => DpiType'
  /\ /\ InstType
     /\ UNCHANGED <<ipc, ijobs, ib, ivisit, icur, purged, terminate, force,
             crashed>>
     => InstType'
  /\ Locking /\ UNCHANGED <<bucket_lock, cpc, ckey, ipc, ib>> => Locking'
  /\ CaptureState /\ UNCHANGED <<dpi, map, cpc, ckey, cflow>> => CaptureState'
  /\ DetectionState /\ UNCHANGED <<dpc, dflow>> => DetectionState'
  /\ /\ WalkState
     /\ UNCHANGED <<map, ipc, ijobs, ib, ivisit, icur>>
     => WalkState'
  /\ FlowsKeyed /\ UNCHANGED <<digest, map>> => FlowsKeyed'
  /\ CapRefs /\ UNCHANGED <<digest, map, cflow>> => CapRefs'
  /\ DpiRefs /\ UNCHANGED <<digest, map, dflow>> => DpiRefs'
  /\ QueueRefs /\ UNCHANGED <<digest, map, queue>> => QueueRefs'
<1>1. MapType /\ UNCHANGED <<map, bucket_lock, nflows>> => MapType'
  BY DEF MapType
<1>2. /\ FlowType
      /\ UNCHANGED <<digest, complete, init, expiring, expired, idle, known,
              ndpi, pkts, dpi>>
      => FlowType'
  BY DEF FlowType
<1>3. CapType /\ UNCHANGED <<cpc, ckey, cflow, crr, stop>> => CapType'
  BY DEF CapType
<1>4. DpiType /\ UNCHANGED <<dpc, dflow, dpkt, queue>> => DpiType'
  BY DEF DpiType
<1>5. /\ InstType
      /\ UNCHANGED <<ipc, ijobs, ib, ivisit, icur, purged, terminate, force,
              crashed>>
      => InstType'
  BY DEF InstType
<1>6. Locking /\ UNCHANGED <<bucket_lock, cpc, ckey, ipc, ib>> => Locking'
  BY DEF Locking
<1>7. /\ CaptureState
      /\ UNCHANGED <<dpi, map, cpc, ckey, cflow>>
      => CaptureState'
  BY DEF CaptureState
<1>8. DetectionState /\ UNCHANGED <<dpc, dflow>> => DetectionState'
  BY DEF DetectionState
<1>9. /\ WalkState
      /\ UNCHANGED <<map, ipc, ijobs, ib, ivisit, icur>>
      => WalkState'
  BY DEF WalkState, InBucket, AtFlow, Walking
<1>10. FlowsKeyed /\ UNCHANGED <<digest, map>> => FlowsKeyed'
  BY DEF FlowsKeyed
<1>11. CapRefs /\ UNCHANGED <<digest, map, cflow>> => CapRefs'
  BY DEF CapRefs, Homed
<1>12. DpiRefs /\ UNCHANGED <<digest, map, dflow>> => DpiRefs'
  BY DEF DpiRefs, Homed
<1>13. QueueRefs /\ UNCHANGED <<digest, map, queue>> => QueueRefs'
  BY DEF QueueRefs, Homed
<1> QED
  BY <1>1, <1>2, <1>3, <1>4, <1>5, <1>6, <1>7, <1>8, <1>9, <1>10, <1>11,
     <1>12, <1>13

\* Every step of ndCaptureThread::ProcessPacket preserves the invariant.
LEMMA CaptureStep ==
  ASSUME IInv, NEW c \in CaptureThreads,
         (\E d \in Digests : CapLookup(c, d)) \/ CapStep(c) \/ CapEnd(c)
  PROVE  IInv'
<1> USE DEF DpiThreads, Buckets, flowVars, mapVars, capVars, dpiVars, instVars
<1>1. ASSUME NEW d \in Digests, CapLookup(c, d)
      PROVE  IInv'
  <2>1. FlowType' /\ DpiType' /\ InstType' /\ DetectionState' /\ WalkState'
        /\ FlowsKeyed' /\ DpiRefs' /\ QueueRefs'
    BY <1>1, Frame DEF IInv, CapLookup, Transition
  <2>2. MapType'
    BY <1>1, ConstantsAssumption DEF IInv, MapType, FlowType, CapLookup,
       Transition
  <2>3. CapType'
    BY <1>1, ConstantsAssumption DEF IInv, CapType, MapType, CapLookup,
       Transition, CapPc
  <2>4. Locking'
    BY <1>1, ConstantsAssumption DEF IInv, Locking, CapType, MapType,
       InstType, WalkState, CapLookup, Transition
  <2>5. CaptureState'
    BY <1>1, ConstantsAssumption DEF IInv, CaptureState, CapType, MapType,
       FlowType, Locking, CapLookup, Transition
  <2>6. CapRefs'
    BY <1>1, ConstantsAssumption DEF IInv, CapRefs, Homed, CapType, MapType,
       FlowType, FlowsKeyed, CapLookup, Transition
  <2> QED BY <2>1, <2>2, <2>3, <2>4, <2>5, <2>6 DEF IInv
<1>2. ASSUME CapFound(c)
      PROVE  IInv'
  <2>1. FlowType' /\ DpiType' /\ InstType' /\ DetectionState' /\ WalkState'
        /\ FlowsKeyed' /\ CapRefs' /\ DpiRefs' /\ QueueRefs'
    BY <1>2, Frame DEF IInv, CapFound, Transition, Unlock
  <2>2. MapType'
    BY <1>2, ConstantsAssumption DEF IInv, MapType, FlowType, CapFound,
       Transition, Unlock
  <2>3. CapType'
    BY <1>2, ConstantsAssumption DEF IInv, CapType, MapType, CapFound,
       Transition, Unlock, CapPc
  <2>4. Locking'
    BY <1>2, ConstantsAssumption DEF IInv, Locking, CapType, MapType,
       InstType, WalkState, CapFound, Transition, Unlock
  <2>5. CaptureState'
    BY <1>2, ConstantsAssumption DEF IInv, CaptureState, CapType, MapType,
       FlowType, Locking, CapFound, Transition, Unlock
  <2> QED BY <2>1, <2>2, <2>3, <2>4, <2>5 DEF IInv
<1>3. ASSUME CapDrop(c)
      PROVE  IInv'
  <2>1. FlowType' /\ DpiType' /\ InstType' /\ DetectionState' /\ WalkState'
        /\ FlowsKeyed' /\ DpiRefs' /\ QueueRefs'
    BY <1>3, Frame DEF IInv, CapDrop, Transition, Unlock, CapReturn
  <2>2. MapType'
    BY <1>3, ConstantsAssumption DEF IInv, MapType, FlowType, CapDrop,
       Transition, Unlock, CapReturn
  <2>3. CapType'
    BY <1>3, ConstantsAssumption DEF IInv, CapType, MapType, CapDrop,
       Transition, Unlock, CapReturn, CapPc
  <2>4. Locking'
    BY <1>3, ConstantsAssumption DEF IInv, Locking, CapType, MapType,
       InstType, WalkState, CapDrop, Transition, Unlock, CapReturn
  <2>5. CaptureState'
    BY <1>3, ConstantsAssumption DEF IInv, CaptureState, CapType, MapType,
       FlowType, Locking, CapDrop, Transition, Unlock, CapReturn
  <2>6. CapRefs'
    BY <1>3, ConstantsAssumption DEF IInv, CapRefs, Homed, CapType, MapType,
       FlowType, FlowsKeyed, CapDrop, Transition, Unlock, CapReturn
  <2> QED BY <2>1, <2>2, <2>3, <2>4, <2>5, <2>6 DEF IInv
<1>4. ASSUME CapAdmit(c)
      PROVE  IInv'
  <2>1. MapType' /\ FlowType' /\ DpiType' /\ InstType' /\ DetectionState'
        /\ WalkState' /\ FlowsKeyed' /\ CapRefs' /\ DpiRefs' /\ QueueRefs'
    BY <1>4, Frame DEF IInv, CapAdmit, Transition
  <2>2. CapType'
    BY <1>4, ConstantsAssumption DEF IInv, CapType, MapType, CapAdmit,
       Transition, CapPc
  <2>3. Locking'
    BY <1>4, ConstantsAssumption DEF IInv, Locking, CapType, MapType,
       InstType, WalkState, CapAdmit, Transition
  <2>4. CaptureState'
    BY <1>4, ConstantsAssumption DEF IInv, CaptureState, CapType, MapType,
       FlowType, Locking, CapAdmit, Transition
  <2> QED BY <2>1, <2>2, <2>3, <2>4 DEF IInv
<1>5. ASSUME CapInsert(c)
      PROVE  IInv'
  <2>1. /\ ckey[c] \in Digests /\ map[ckey[c]] = NULL /\ cflow[c] = NULL
        /\ cpc[c] = "insert" /\ cpc' = [cpc EXCEPT ![c] = "count"]
        /\ UNCHANGED <<bucket_lock, nflows, complete, init, expiring, expired,
             known, ndpi, pkts, dpi, ckey, crr, stop, queue, dpiVars, instVars,
             crashed>>
    BY <1>5 DEF IInv, CapType, CaptureState, Locking, CapInsert, Transition
  <2>2. PICK f \in Flows :
          /\ ~Mapped(f) /\ ~InUse(f)
          /\ map' = [map EXCEPT ![ckey[c]] = f]
          /\ cflow' = [cflow EXCEPT ![c] = f]
          /\ digest' = [digest EXCEPT ![f] = ckey[c]]
          /\ idle' = idle \cup {f}
    BY <1>5, <2>1 DEF CapInsert
  <2>3. \A d \in Digests : map[d] # f
    BY <2>2 DEF Mapped
  <2>4. DpiType' /\ InstType' /\ DetectionState'
    BY <2>1, Frame DEF IInv
  <2>5. MapType'
    BY <2>1, <2>2 DEF IInv, MapType
  <2>6. FlowType'
    BY <2>1, <2>2 DEF IInv, FlowType
  <2>7. CapType'
    BY <2>1, <2>2 DEF IInv, CapType, CapPc
  <2>8. Locking'
    BY <2>1 DEF IInv, CapType, Locking
  <2>9. CaptureState'
    <3>1. ASSUME NEW b \in CaptureThreads, b # c,
                 cpc[b] \in {"locked", "insert"}
          PROVE  ckey[b] # ckey[c]
      BY <2>1, <3>1 DEF IInv, Locking
    <3> QED
      BY <2>1, <2>2, <3>1, ConstantsAssumption
      DEF IInv, CapType, MapType, Locking, CaptureState
  <2>10. WalkState'
    BY <2>1, <2>2, ConstantsAssumption
    DEF IInv, MapType, InstType, WalkState, Walking, InBucket, AtFlow
  <2>11. FlowsKeyed'
    BY <2>1, <2>2, <2>3, ConstantsAssumption
    DEF IInv, MapType, FlowType, FlowsKeyed
  <2>12. ASSUME NEW g \in Flows, g # f, Homed(g)
         PROVE  Homed(g)'
    BY <2>1, <2>2, <2>12, ConstantsAssumption DEF IInv, MapType, FlowType,
       Homed
  <2>13. Homed(f)'
    BY <2>1, <2>2, ConstantsAssumption DEF IInv, MapType, FlowType, Homed
  <2>14. CapRefs'
    BY <2>2, <2>12, <2>13 DEF IInv, CapType, CapRefs
  <2>15. DpiRefs'
    BY <2>1, <2>2, <2>12, UnusedFlow DEF IInv, DpiType, DpiRefs
  <2>16. QueueRefs'
    <3>1. ASSUME NEW t \in DpiThreads, NEW i \in 1..Len(queue[t])
          PROVE  Homed(queue[t][i].flow)'
      <4>1. queue[t][i].flow \in Flows /\ queue[t][i].flow # f
        BY <2>2, QueuedFlow, UnusedFlow DEF IInv, Entry
      <4>2. Homed(queue[t][i].flow)
        BY DEF IInv, QueueRefs
      <4>3. QED
        BY <2>1, <2>12, <4>1, <4>2 DEF Homed
    <3> QED
      BY <2>1, <3>1 DEF QueueRefs
  <2> QED
    BY <2>4, <2>5, <2>6, <2>7, <2>8, <2>9, <2>10, <2>11, <2>14, <2>15, <2>16
    DEF IInv
<1>6. ASSUME CapCount(c)
      PROVE  IInv'
  <2>1. FlowType' /\ DpiType' /\ InstType' /\ DetectionState' /\ WalkState'
        /\ FlowsKeyed' /\ CapRefs' /\ DpiRefs' /\ QueueRefs'
    BY <1>6, Frame DEF IInv, CapCount, Transition, Unlock
  <2>2. MapType'
    <3>1. nflows' \in Int
      BY <1>6 DEF IInv, MapType, CapCount
    <3> QED
      BY <1>6, <3>1 DEF IInv, MapType, CapCount, Unlock
  <2>3. CapType'
    BY <1>6, ConstantsAssumption DEF IInv, CapType, MapType, CapCount,
       Transition, Unlock, CapPc
  <2>4. Locking'
    BY <1>6, ConstantsAssumption DEF IInv, Locking, CapType, MapType,
       InstType, WalkState, CapCount, Transition, Unlock
  <2>5. CaptureState'
    BY <1>6, ConstantsAssumption DEF IInv, CaptureState, CapType, MapType,
       FlowType, Locking, CapCount, Transition, Unlock
  <2> QED BY <2>1, <2>2, <2>3, <2>4, <2>5 DEF IInv
<1>7. ASSUME CapUpdate(c)
      PROVE  IInv'
  <2>1. MapType' /\ DpiType' /\ InstType' /\ DetectionState' /\ WalkState'
        /\ FlowsKeyed' /\ CapRefs' /\ DpiRefs' /\ QueueRefs'
    BY <1>7, Frame DEF IInv, CapUpdate, Transition
  <2>2. FlowType'
    BY <1>7, ConstantsAssumption DEF IInv, FlowType, MapType, CapType,
       DpiType, DetectionState, WalkState, CaptureState, AtFlow, InBucket,
       CapUpdate, Transition
  <2>3. CapType'
    BY <1>7, ConstantsAssumption DEF IInv, CapType, MapType, CapUpdate,
       Transition, CapPc
  <2>4. Locking'
    BY <1>7, ConstantsAssumption DEF IInv, Locking, CapType, MapType,
       InstType, WalkState, CapUpdate, Transition
  <2>5. CaptureState'
    BY <1>7 DEF IInv, CaptureState, CapType, CapUpdate, Transition
  <2> QED BY <2>1, <2>2, <2>3, <2>4, <2>5 DEF IInv
<1>8. ASSUME CapResetStats(c)
      PROVE  IInv'
  <2>1. MapType' /\ DpiType' /\ InstType' /\ DetectionState' /\ WalkState'
        /\ FlowsKeyed' /\ CapRefs' /\ DpiRefs' /\ QueueRefs'
    BY <1>8, Frame DEF IInv, CapResetStats, Transition
  <2>2. FlowType'
    <3>1. 0 \in 0..(PktCounterSize - 1)
      BY ConstantsAssumption
    <3> QED
      BY <1>8, <3>1 DEF IInv, FlowType, CapResetStats
  <2>3. CapType'
    BY <1>8, ConstantsAssumption DEF IInv, CapType, MapType, CapResetStats,
       Transition, CapPc
  <2>4. Locking'
    BY <1>8, ConstantsAssumption DEF IInv, Locking, CapType, MapType,
       InstType, WalkState, CapResetStats, Transition
  <2>5. CaptureState'
    BY <1>8, ConstantsAssumption DEF IInv, CaptureState, CapType, MapType,
       FlowType, Locking, CapResetStats, Transition
  <2> QED BY <2>1, <2>2, <2>3, <2>4, <2>5 DEF IInv
<1>9. ASSUME CapResetDetection(c)
      PROVE  IInv'
  <2>1. MapType' /\ DpiType' /\ InstType' /\ DetectionState' /\ WalkState'
        /\ FlowsKeyed' /\ CapRefs' /\ DpiRefs' /\ QueueRefs'
    BY <1>9, Frame DEF IInv, CapResetDetection, Transition
  <2>2. FlowType'
    BY <1>9, ConstantsAssumption DEF IInv, FlowType, MapType, CapType,
       DpiType, DetectionState, WalkState, CaptureState, AtFlow, InBucket,
       CapResetDetection, Transition
  <2>3. CapType'
    BY <1>9, ConstantsAssumption DEF IInv, CapType, MapType,
       CapResetDetection, Transition, CapPc
  <2>4. Locking'
    BY <1>9, ConstantsAssumption DEF IInv, Locking, CapType, MapType,
       InstType, WalkState, CapResetDetection, Transition
  <2>5. CaptureState'
    BY <1>9, ConstantsAssumption DEF IInv, CaptureState, CapType, MapType,
       FlowType, Locking, CapResetDetection, Transition
  <2> QED BY <2>1, <2>2, <2>3, <2>4, <2>5 DEF IInv
<1>10. ASSUME CapResetExpired(c)
      PROVE  IInv'
  <2>1. MapType' /\ DpiType' /\ InstType' /\ DetectionState' /\ WalkState'
        /\ FlowsKeyed' /\ CapRefs' /\ DpiRefs' /\ QueueRefs'
    BY <1>10, Frame DEF IInv, CapResetExpired, Transition
  <2>2. FlowType'
    BY <1>10, ConstantsAssumption DEF IInv, FlowType, MapType, CapType,
       DpiType, DetectionState, WalkState, CaptureState, AtFlow, InBucket,
       CapResetExpired, Transition
  <2>3. CapType'
    BY <1>10, ConstantsAssumption DEF IInv, CapType, MapType, CapResetExpired,
       Transition, CapPc
  <2>4. Locking'
    BY <1>10, ConstantsAssumption DEF IInv, Locking, CapType, MapType,
       InstType, WalkState, CapResetExpired, Transition
  <2>5. CaptureState'
    BY <1>10, ConstantsAssumption DEF IInv, CaptureState, CapType, MapType,
       FlowType, Locking, CapResetExpired, Transition
  <2> QED BY <2>1, <2>2, <2>3, <2>4, <2>5 DEF IInv
<1>11. ASSUME CapResetExpiring(c)
      PROVE  IInv'
  <2>1. MapType' /\ DpiType' /\ InstType' /\ DetectionState' /\ WalkState'
        /\ FlowsKeyed' /\ CapRefs' /\ DpiRefs' /\ QueueRefs'
    BY <1>11, Frame DEF IInv, CapResetExpiring, Transition
  <2>2. FlowType'
    <3>1. 0 \in 0..(PktCounterSize - 1)
      BY ConstantsAssumption
    <3> QED
      BY <1>11, <3>1 DEF IInv, FlowType, CapResetExpiring
  <2>3. CapType'
    BY <1>11, ConstantsAssumption DEF IInv, CapType, MapType,
       CapResetExpiring, Transition, CapPc
  <2>4. Locking'
    BY <1>11, ConstantsAssumption DEF IInv, Locking, CapType, MapType,
       InstType, WalkState, CapResetExpiring, Transition
  <2>5. CaptureState'
    BY <1>11, ConstantsAssumption DEF IInv, CaptureState, CapType, MapType,
       FlowType, Locking, CapResetExpiring, Transition
  <2> QED BY <2>1, <2>2, <2>3, <2>4, <2>5 DEF IInv
<1>12. ASSUME CapCheck(c)
      PROVE  IInv'
  <2>1. MapType' /\ FlowType' /\ DpiType' /\ InstType' /\ DetectionState'
        /\ WalkState' /\ FlowsKeyed' /\ CapRefs' /\ DpiRefs' /\ QueueRefs'
    BY <1>12, Frame DEF IInv, CapCheck, Transition
  <2>2. CapType'
    BY <1>12, ConstantsAssumption DEF IInv, CapType, MapType, CapCheck,
       Transition, CapPc
  <2>3. Locking'
    BY <1>12, ConstantsAssumption DEF IInv, Locking, CapType, MapType,
       InstType, WalkState, CapCheck, Transition
  <2>4. CaptureState'
    <3>1. /\ cpc[c] = "check"
          /\ cpc' = [cpc EXCEPT ![c] = IF dpi[cflow[c]] = NULL THEN "assign"
                                                               ELSE "enqueue"]
          /\ UNCHANGED <<map, ckey, cflow, dpi>>
      BY <1>12 DEF CapCheck, Transition
    <3> QED
      BY <3>1 DEF IInv, CaptureState, CapType
  <2> QED BY <2>1, <2>2, <2>3, <2>4 DEF IInv
<1>13. ASSUME CapDone(c)
      PROVE  IInv'
  <2>1. MapType' /\ FlowType' /\ DpiType' /\ InstType' /\ DetectionState'
        /\ WalkState' /\ FlowsKeyed' /\ DpiRefs' /\ QueueRefs'
    BY <1>13, Frame DEF IInv, CapDone, Transition, CapReturn
  <2>2. CapType'
    BY <1>13, ConstantsAssumption DEF IInv, CapType, MapType, CapDone,
       Transition, CapReturn, CapPc
  <2>3. Locking'
    BY <1>13, ConstantsAssumption DEF IInv, Locking, CapType, MapType,
       InstType, WalkState, CapDone, Transition, CapReturn
  <2>4. CaptureState'
    BY <1>13, ConstantsAssumption DEF IInv, CaptureState, CapType, MapType,
       FlowType, Locking, CapDone, Transition, CapReturn
  <2>5. CapRefs'
    BY <1>13, ConstantsAssumption DEF IInv, CapRefs, Homed, CapType, MapType,
       FlowType, FlowsKeyed, CapDone, Transition, CapReturn
  <2> QED BY <2>1, <2>2, <2>3, <2>4, <2>5 DEF IInv
<1>14. ASSUME CapAssign(c)
      PROVE  IInv'
  <2>1. MapType' /\ DpiType' /\ InstType' /\ DetectionState' /\ WalkState'
        /\ FlowsKeyed' /\ CapRefs' /\ DpiRefs' /\ QueueRefs'
    BY <1>14, Frame DEF IInv, CapAssign, Transition
  <2>2. FlowType'
    BY <1>14, ConstantsAssumption DEF IInv, FlowType, MapType, CapType,
       DpiType, DetectionState, WalkState, CaptureState, AtFlow, InBucket,
       CapAssign, Transition
  <2>3. CapType'
    BY <1>14, ConstantsAssumption DEF IInv, CapType, MapType, CapAssign, NextDpi,
       Transition, CapPc
  <2>4. Locking'
    BY <1>14, ConstantsAssumption DEF IInv, Locking, CapType, MapType,
       InstType, WalkState, CapAssign, Transition
  <2>5. CaptureState'
    BY <1>14, ConstantsAssumption DEF IInv, CaptureState, CapType, MapType,
       FlowType, Locking, CapAssign, Transition
  <2> QED BY <2>1, <2>2, <2>3, <2>4, <2>5 DEF IInv
<1>15. ASSUME CapEnqueue(c)
      PROVE  IInv'
  <2>1. MapType' /\ FlowType' /\ InstType' /\ DetectionState' /\ WalkState'
        /\ FlowsKeyed' /\ DpiRefs'
    BY <1>15, Frame DEF IInv, CapEnqueue, Transition, CapReturn, Push
  <2>2. CapType'
    BY <1>15, ConstantsAssumption DEF IInv, CapType, MapType, CapEnqueue,
       Transition, CapReturn, Push, CapPc
  <2>3. DpiType'
    <3>1. cflow[c] \in Flows /\ dpi[cflow[c]] \in DpiThreads
      BY <1>15 DEF IInv, CapType, FlowType, CaptureState, CapEnqueue,
         CapReturn,
               Transition
    <3>2. queue' \in [DpiThreads -> Seq(Entry)]
      BY <1>15, <3>1, PushedEntry DEF IInv, CapEnqueue
    <3> QED
      BY <1>15, <3>2 DEF IInv, DpiType, CapEnqueue
  <2>4. Locking'
    BY <1>15, ConstantsAssumption DEF IInv, Locking, CapType, MapType,
       InstType, WalkState, CapEnqueue, Transition, CapReturn, Push
  <2>5. CaptureState'
    BY <1>15, ConstantsAssumption DEF IInv, CaptureState, CapType, MapType,
       FlowType, Locking, CapEnqueue, Transition, CapReturn, Push
  <2>6. CapRefs'
    BY <1>15, ConstantsAssumption DEF IInv, CapRefs, Homed, CapType, MapType,
       FlowType, FlowsKeyed, CapEnqueue, Transition, CapReturn, Push
  <2>7. QueueRefs'
    <3>1. cflow[c] \in Flows /\ dpi[cflow[c]] \in DpiThreads
      BY <1>15 DEF IInv, CapType, FlowType, CaptureState, CapEnqueue,
         CapReturn,
               Transition
    <3>2. Homed(cflow[c])
      BY <3>1, ConstantsAssumption DEF IInv, CapRefs
    <3>3. \A u \in DpiThreads : \A i \in 1..Len(queue'[u]) :
             \/ queue'[u][i].flow = cflow[c]
             \/ i \in 1..Len(queue[u]) /\ queue'[u][i] = queue[u][i]
      BY <1>15, <3>1, PushedEntry DEF IInv, CapEnqueue
    <3> QED
      BY <1>15, <3>2, <3>3 DEF IInv, QueueRefs, Homed, CapEnqueue
  <2> QED BY <2>1, <2>2, <2>3, <2>4, <2>5, <2>6, <2>7 DEF IInv
<1>16. ASSUME CapEnd(c)
      PROVE  IInv'
  <2>1. MapType' /\ FlowType' /\ DpiType' /\ InstType' /\ DetectionState'
        /\ WalkState' /\ FlowsKeyed' /\ CapRefs' /\ DpiRefs' /\ QueueRefs'
    BY <1>16, Frame DEF IInv, CapEnd, Transition
  <2>2. CapType'
    BY <1>16, ConstantsAssumption DEF IInv, CapType, MapType, CapEnd,
       Transition, CapPc
  <2>3. Locking'
    BY <1>16, ConstantsAssumption DEF IInv, Locking, CapType, MapType,
       InstType, WalkState, CapEnd, Transition
  <2>4. CaptureState'
    BY <1>16, ConstantsAssumption DEF IInv, CaptureState, CapType, MapType,
       FlowType, Locking, CapEnd, Transition
  <2> QED BY <2>1, <2>2, <2>3, <2>4 DEF IInv
<1> QED
  BY <1>1, <1>2, <1>3, <1>4, <1>5, <1>6, <1>7, <1>8, <1>9, <1>10, <1>11,
     <1>12, <1>13, <1>14, <1>15, <1>16 DEF CapStep

\* Every step of ndDetectionThread::ProcessPacketQueue preserves the invariant.
LEMMA DetectionStep ==
  ASSUME IInv, NEW t \in DpiThreads, DpiStep(t)
  PROVE  IInv'
<1> USE DEF DpiThreads, Buckets, flowVars, mapVars, capVars, dpiVars, instVars
<1>1. ASSUME DpiPop(t)
      PROVE  IInv'
  <2>1. /\ queue[t] \in Seq(Entry) /\ queue[t] # <<>>
        /\ dpc[t] = "idle" /\ dpc' = [dpc EXCEPT ![t] = "examine"]
        /\ dflow' = [dflow EXCEPT ![t] = Head(queue[t]).flow]
        /\ dpkt' = [dpkt EXCEPT ![t] = Head(queue[t]).packet]
        /\ queue' = [queue EXCEPT ![t] = Tail(queue[t])]
        /\ UNCHANGED <<mapVars, flowVars, capVars, instVars, crashed>>
    BY <1>1 DEF IInv, DpiType, DpiPop, DpiTransition
  <2>2. /\ Tail(queue[t]) \in Seq(Entry)
        /\ Head(queue[t]) = queue[t][1] /\ 1 \in 1..Len(queue[t])
        /\ Len(Tail(queue[t])) = Len(queue[t]) - 1
        /\ \A i \in 1..(Len(queue[t]) - 1) : Tail(queue[t])[i] = queue[t][i + 1]
    BY <2>1
  <2>3. Head(queue[t]).flow \in Flows /\ Head(queue[t]).packet \in BOOLEAN
    BY <2>2, QueuedFlow DEF IInv, Entry
  <2>4. Homed(Head(queue[t]).flow)
    BY <2>2 DEF IInv, QueueRefs
  <2>5. MapType' /\ FlowType' /\ CapType' /\ InstType' /\ Locking'
        /\ CaptureState' /\ WalkState' /\ FlowsKeyed' /\ CapRefs'
    BY <2>1, Frame DEF IInv
  <2>6. DpiType'
    BY <2>1, <2>2, <2>3 DEF IInv, DpiType, DpiPc
  <2>7. DetectionState'
    BY <2>1, <2>3, ConstantsAssumption DEF IInv, DpiType, DetectionState
  <2>8. DpiRefs'
    BY <2>1, <2>4 DEF IInv, DpiType, DpiRefs, Homed
  <2>9. QueueRefs'
    <3>1. ASSUME NEW u \in DpiThreads, NEW i \in 1..Len(queue'[u])
          PROVE  \E j \in 1..Len(queue[u]) : queue'[u][i] = queue[u][j]
      <4>1. CASE u = t
        <5>1. queue'[u] = Tail(queue[t])
          BY <2>1, <4>1 DEF IInv, DpiType
        <5>2. Len(queue[t]) \in Nat
          BY <2>1
        <5>3. i + 1 \in 1..Len(queue[t]) /\ i \in 1..(Len(queue[t]) - 1)
          BY <2>2, <3>1, <5>1, <5>2
        <5> QED
          BY <2>2, <4>1, <5>1, <5>3
      <4>2. CASE u # t
        BY <2>1, <3>1, <4>2 DEF IInv, DpiType
      <4> QED
        BY <4>1, <4>2
    <3>2. ASSUME NEW u \in DpiThreads, NEW i \in 1..Len(queue'[u])
          PROVE  Homed(queue'[u][i].flow)
      <4>1. PICK j \in 1..Len(queue[u]) : queue'[u][i] = queue[u][j]
        BY <3>1
      <4> QED
        BY <4>1 DEF IInv, QueueRefs
    <3> QED
      BY <2>1, <3>2 DEF QueueRefs, Homed
  <2> QED
    BY <2>5, <2>6, <2>7, <2>8, <2>9 DEF IInv
<1>2. ASSUME DpiExamine(t)
      PROVE  IInv'
  <2>1. MapType' /\ FlowType' /\ CapType' /\ InstType' /\ Locking'
        /\ CaptureState' /\ WalkState' /\ FlowsKeyed' /\ CapRefs' /\ DpiRefs'
        /\ QueueRefs'
    BY <1>2, Frame DEF IInv, DpiExamine, DpiTransition
  <2>2. DpiType'
    BY <1>2, ConstantsAssumption DEF IInv, DpiType, FlowType, DpiExamine,
       DpiTransition, DpiPc, Entry
  <2>3. DetectionState'
    BY <1>2, ConstantsAssumption DEF IInv, DetectionState, DpiType,
       DpiExamine, DpiTransition
  <2> QED BY <2>1, <2>2, <2>3 DEF IInv
<1>3. ASSUME DpiProcess(t)
      PROVE  IInv'
  <2>1. MapType' /\ CapType' /\ InstType' /\ Locking' /\ CaptureState'
        /\ WalkState' /\ FlowsKeyed' /\ CapRefs' /\ DpiRefs' /\ QueueRefs'
    BY <1>3, Frame DEF IInv, DpiProcess, DpiTransition, ProcessPacket
  <2>2. FlowType'
    <3>1. dflow[t] \in Flows
      BY <1>3 DEF IInv, DpiType, DetectionState, DpiProcess, DpiTransition
    <3>2. \A n \in Nat : (n + 1) % PktCounterSize \in 0..(PktCounterSize - 1)
      BY ConstantsAssumption
    <3>3. pkts' \in [Flows -> 0..(PktCounterSize - 1)]
      <4>1. pkts[dflow[t]] \in Nat
        BY <3>1 DEF IInv, FlowType
      <4>2. (pkts[dflow[t]] + 1) % PktCounterSize \in 0..(PktCounterSize - 1)
        BY <3>2, <4>1
      <4> QED
        BY <1>3, <4>2 DEF IInv, FlowType, DpiProcess
    <3> QED
      BY <1>3, <3>1, <3>3 DEF IInv, FlowType, DpiProcess, ProcessPacket
  <2>3. DpiType'
    BY <1>3, ConstantsAssumption DEF IInv, DpiType, FlowType, DpiProcess,
       DpiTransition, ProcessPacket, DpiPc, Entry
  <2>4. DetectionState'
    BY <1>3, ConstantsAssumption DEF IInv, DetectionState, DpiType,
       DpiProcess, DpiTransition, ProcessPacket
  <2> QED BY <2>1, <2>2, <2>3, <2>4 DEF IInv
<1>4. ASSUME DpiConclude(t)
      PROVE  IInv'
  <2>1. MapType' /\ FlowType' /\ CapType' /\ InstType' /\ Locking'
        /\ CaptureState' /\ WalkState' /\ FlowsKeyed' /\ CapRefs' /\ DpiRefs'
        /\ QueueRefs'
    BY <1>4, Frame DEF IInv, DpiConclude, DpiTransition
  <2>2. DpiType'
    BY <1>4, ConstantsAssumption DEF IInv, DpiType, FlowType, DpiConclude,
       DpiTransition, DpiPc, Entry
  <2>3. DetectionState'
    BY <1>4, ConstantsAssumption DEF IInv, DetectionState, DpiType,
       DpiConclude, DpiTransition
  <2> QED BY <2>1, <2>2, <2>3 DEF IInv
<1>5. ASSUME DpiFinish(t)
      PROVE  IInv'
  <2>1. MapType' /\ CapType' /\ InstType' /\ Locking' /\ CaptureState'
        /\ WalkState' /\ FlowsKeyed' /\ CapRefs' /\ DpiRefs' /\ QueueRefs'
    BY <1>5, Frame DEF IInv, DpiFinish, DpiTransition
  <2>2. FlowType'
    <3>1. dflow[t] \in Flows
      BY <1>5 DEF IInv, DpiType, DetectionState, DpiFinish, DpiTransition
    <3> QED
      BY <1>5, <3>1 DEF IInv, FlowType, DpiFinish
  <2>3. DpiType'
    BY <1>5, ConstantsAssumption DEF IInv, DpiType, FlowType, DpiFinish,
       DpiTransition, DpiPc, Entry
  <2>4. DetectionState'
    BY <1>5, ConstantsAssumption DEF IInv, DetectionState, DpiType, DpiFinish,
       DpiTransition
  <2> QED BY <2>1, <2>2, <2>3, <2>4 DEF IInv
<1>6. ASSUME DpiNullDereference(t)
      PROVE  IInv'
  <2>1. MapType' /\ FlowType' /\ CapType' /\ DpiType' /\ Locking'
        /\ CaptureState' /\ DetectionState' /\ WalkState' /\ FlowsKeyed'
        /\ CapRefs' /\ DpiRefs' /\ QueueRefs'
    BY <1>6, Frame DEF IInv, DpiNullDereference
  <2>2. InstType'
    BY <1>6, ConstantsAssumption DEF IInv, InstType, MapType,
       DpiNullDereference, InstPc, Jobs
  <2> QED BY <2>1, <2>2 DEF IInv
<1>7. ASSUME DpiExpire(t)
      PROVE  IInv'
  <2>1. MapType' /\ CapType' /\ InstType' /\ Locking' /\ CaptureState'
        /\ WalkState' /\ FlowsKeyed' /\ CapRefs' /\ DpiRefs' /\ QueueRefs'
    BY <1>7, Frame DEF IInv, DpiExpire, DpiTransition
  <2>2. FlowType'
    BY <1>7, ConstantsAssumption DEF IInv, FlowType, MapType, CapType,
       DpiType, DetectionState, WalkState, CaptureState, AtFlow, InBucket,
       DpiExpire, DpiTransition
  <2>3. DpiType'
    BY <1>7, ConstantsAssumption DEF IInv, DpiType, FlowType, DpiExpire,
       DpiTransition, DpiPc, Entry
  <2>4. DetectionState'
    BY <1>7, ConstantsAssumption DEF IInv, DetectionState, DpiType, DpiExpire,
       DpiTransition
  <2> QED BY <2>1, <2>2, <2>3, <2>4 DEF IInv
<1>8. ASSUME DpiRelease(t)
      PROVE  IInv'
  <2>1. MapType' /\ CapType' /\ InstType' /\ Locking' /\ CaptureState'
        /\ WalkState' /\ FlowsKeyed' /\ CapRefs' /\ QueueRefs'
    BY <1>8, Frame DEF IInv, DpiRelease, DpiTransition
  <2>2. FlowType'
    BY <1>8, ConstantsAssumption DEF IInv, FlowType, MapType, CapType,
       DpiType, DetectionState, WalkState, CaptureState, AtFlow, InBucket,
       DpiRelease, DpiTransition
  <2>3. DpiType'
    BY <1>8, ConstantsAssumption DEF IInv, DpiType, FlowType, DpiRelease,
       DpiTransition, DpiPc, Entry
  <2>4. DetectionState'
    BY <1>8, ConstantsAssumption DEF IInv, DetectionState, DpiType,
       DpiRelease, DpiTransition
  <2>5. DpiRefs'
    BY <1>8, ConstantsAssumption DEF IInv, DpiRefs, Homed, DpiType, MapType,
       FlowType, DpiRelease, DpiTransition
  <2> QED BY <2>1, <2>2, <2>3, <2>4, <2>5 DEF IInv
<1> QED BY <1>1, <1>2, <1>3, <1>4, <1>5, <1>6, <1>7, <1>8 DEF DpiStep

\* Every step of the instance thread (ndInstance::Entry) preserves the
\* invariant.  PurgeFlow is the case the use_count() test is for.
LEMMA InstanceStep ==
  ASSUME IInv, IpcUpdate \/ IpcTerminate \/ InstStep
  PROVE  IInv'
<1> USE DEF DpiThreads, Buckets, flowVars, mapVars, capVars, dpiVars, instVars
<1>1. ASSUME IpcUpdate
      PROVE  IInv'
  <2>1. MapType' /\ FlowType' /\ DpiType' /\ CaptureState' /\ DetectionState'
        /\ FlowsKeyed' /\ CapRefs' /\ DpiRefs' /\ QueueRefs'
    BY <1>1, Frame DEF IInv, IpcUpdate, InstGoto
  <2>2. CapType'
    BY <1>1, ConstantsAssumption DEF IInv, CapType, MapType, IpcUpdate,
       InstGoto, CapPc
  <2>3. InstType'
    <3>1. ijobs' \in Seq(Jobs)
      BY <1>1, JobLists DEF IpcUpdate
    <3> QED
      BY <1>1, <3>1 DEF IInv, InstType, InstPc, IpcUpdate, InstGoto
  <2>4. Locking'
    BY <1>1, ConstantsAssumption DEF IInv, Locking, CapType, MapType,
       InstType, WalkState, IpcUpdate, InstGoto
  <2>5. WalkState'
    BY <1>1, ConstantsAssumption DEF IInv, WalkState, InBucket, AtFlow,
       Walking, InstType, MapType, Locking, IpcUpdate, InstGoto
  <2> QED BY <2>1, <2>2, <2>3, <2>4, <2>5 DEF IInv
<1>2. ASSUME IpcTerminate
      PROVE  IInv'
  <2>1. MapType' /\ FlowType' /\ DpiType' /\ CaptureState' /\ DetectionState'
        /\ FlowsKeyed' /\ CapRefs' /\ DpiRefs' /\ QueueRefs'
    BY <1>2, Frame DEF IInv, IpcTerminate, InstGoto
  <2>2. CapType'
    BY <1>2, ConstantsAssumption DEF IInv, CapType, MapType, IpcTerminate,
       InstGoto, CapPc
  <2>3. InstType'
    <3>1. ijobs' \in Seq(Jobs)
      BY <1>2, JobLists DEF IpcTerminate
    <3> QED
      BY <1>2, <3>1 DEF IInv, InstType, InstPc, IpcTerminate, InstGoto
  <2>4. Locking'
    BY <1>2, ConstantsAssumption DEF IInv, Locking, CapType, MapType,
       InstType, WalkState, IpcTerminate, InstGoto
  <2>5. WalkState'
    BY <1>2, ConstantsAssumption DEF IInv, WalkState, InBucket, AtFlow,
       Walking, InstType, MapType, Locking, IpcTerminate, InstGoto
  <2> QED BY <2>1, <2>2, <2>3, <2>4, <2>5 DEF IInv
<1>3. ASSUME JoinCaptureThreads
      PROVE  IInv'
  <2>1. MapType' /\ FlowType' /\ CapType' /\ DpiType' /\ CaptureState'
        /\ DetectionState' /\ FlowsKeyed' /\ CapRefs' /\ DpiRefs'
        /\ QueueRefs'
    BY <1>3, Frame DEF IInv, JoinCaptureThreads, InstGoto
  <2>2. InstType'
    <3>1. ijobs # <<>>
      BY <1>3 DEF IInv, WalkState, Walking, JoinCaptureThreads
    <3>2. ijobs' \in Seq(Jobs)
      BY <1>3, <3>1 DEF IInv, InstType, JoinCaptureThreads
    <3> QED
      BY <1>3, <3>2 DEF IInv, InstType, InstPc, JoinCaptureThreads, InstGoto
  <2>3. Locking'
    BY <1>3, ConstantsAssumption DEF IInv, Locking, CapType, MapType,
       InstType, WalkState, JoinCaptureThreads, InstGoto
  <2>4. WalkState'
    BY <1>3, ConstantsAssumption DEF IInv, WalkState, InBucket, AtFlow,
       Walking, InstType, MapType, Locking, JoinCaptureThreads, InstGoto
  <2> QED BY <2>1, <2>2, <2>3, <2>4 DEF IInv
<1>4. ASSUME StartWalk
      PROVE  IInv'
  <2>1. MapType' /\ CapType' /\ DpiType' /\ CaptureState' /\ DetectionState'
        /\ FlowsKeyed' /\ CapRefs' /\ DpiRefs' /\ QueueRefs'
    BY <1>4, Frame DEF IInv, StartWalk, InstGoto
  <2>2. FlowType'
    BY <1>4, ConstantsAssumption DEF IInv, FlowType, MapType, CapType,
       DpiType, DetectionState, WalkState, CaptureState, AtFlow, InBucket,
       StartWalk, InstGoto
  <2>3. InstType'
    BY <1>4, ConstantsAssumption DEF IInv, InstType, MapType, StartWalk,
       InstGoto, InstPc, Jobs
  <2>4. Locking'
    BY <1>4, ConstantsAssumption DEF IInv, Locking, CapType, MapType,
       InstType, WalkState, StartWalk, InstGoto
  <2>5. WalkState'
    BY <1>4, ConstantsAssumption DEF IInv, WalkState, InBucket, AtFlow,
       Walking, InstType, MapType, Locking, StartWalk, InstGoto
  <2> QED BY <2>1, <2>2, <2>3, <2>4, <2>5 DEF IInv
<1>5. ASSUME AcquireBucket
      PROVE  IInv'
  <2>1. FlowType' /\ CapType' /\ DpiType' /\ CaptureState' /\ DetectionState'
        /\ FlowsKeyed' /\ CapRefs' /\ DpiRefs' /\ QueueRefs'
    BY <1>5, Frame DEF IInv, AcquireBucket, InstGoto
  <2>2. MapType'
    BY <1>5, ConstantsAssumption DEF IInv, MapType, FlowType, AcquireBucket,
       InstGoto
  <2>3. InstType'
    BY <1>5, ConstantsAssumption DEF IInv, InstType, MapType, AcquireBucket,
       InstGoto, InstPc, Jobs
  <2>4. Locking'
    BY <1>5, ConstantsAssumption DEF IInv, Locking, CapType, MapType,
       InstType, WalkState, AcquireBucket, InstGoto
  <2>5. WalkState'
    BY <1>5, ConstantsAssumption DEF IInv, WalkState, InBucket, AtFlow,
       Walking, InstType, MapType, Locking, AcquireBucket, InstGoto
  <2> QED BY <2>1, <2>2, <2>3, <2>4, <2>5 DEF IInv
<1>6. ASSUME NEW d \in Digests, VisitFlow(d)
      PROVE  IInv'
  <2>1. MapType' /\ CapType' /\ DpiType' /\ CaptureState' /\ DetectionState'
        /\ FlowsKeyed' /\ CapRefs' /\ DpiRefs' /\ QueueRefs'
    BY <1>6, Frame DEF IInv, VisitFlow, InstGoto, AfterExpire, Updating
  <2>2. FlowType'
    BY <1>6, ConstantsAssumption DEF IInv, FlowType, MapType, CapType,
       DpiType, DetectionState, WalkState, CaptureState, AtFlow, InBucket,
       VisitFlow, InstGoto, AfterExpire, Updating
  <2>3. InstType'
    BY <1>6, ConstantsAssumption DEF IInv, InstType, MapType, VisitFlow,
       InstGoto, AfterExpire, Updating, InstPc, Jobs
  <2>4. Locking'
    BY <1>6, ConstantsAssumption DEF IInv, Locking, CapType, MapType,
       InstType, WalkState, VisitFlow, InstGoto, AfterExpire, Updating
  <2>5. WalkState'
    BY <1>6, ConstantsAssumption DEF IInv, WalkState, InBucket, AtFlow,
       Walking, InstType, MapType, Locking, VisitFlow, InstGoto, AfterExpire,
       Updating
  <2> QED BY <2>1, <2>2, <2>3, <2>4, <2>5 DEF IInv
<1>7. ASSUME MarkExpiring
      PROVE  IInv'
  <2>1. MapType' /\ CapType' /\ DpiType' /\ CaptureState' /\ DetectionState'
        /\ FlowsKeyed' /\ CapRefs' /\ DpiRefs' /\ QueueRefs'
    BY <1>7, Frame DEF IInv, MarkExpiring, InstGoto, AfterExpire, Updating
  <2>2. FlowType'
    <3>1. map[icur] \in Flows
      BY <1>7 DEF IInv, MapType, InstType, WalkState, AtFlow, MarkExpiring
    <3> QED
      BY <1>7, <3>1 DEF IInv, FlowType, MarkExpiring
  <2>3. InstType'
    BY <1>7, ConstantsAssumption DEF IInv, InstType, MapType, MarkExpiring,
       InstGoto, AfterExpire, Updating, InstPc, Jobs
  <2>4. Locking'
    BY <1>7, ConstantsAssumption DEF IInv, Locking, CapType, MapType,
       InstType, WalkState, MarkExpiring, InstGoto, AfterExpire, Updating
  <2>5. WalkState'
    BY <1>7, ConstantsAssumption DEF IInv, WalkState, InBucket, AtFlow,
       Walking, InstType, MapType, Locking, MarkExpiring, InstGoto,
       AfterExpire, Updating
  <2> QED BY <2>1, <2>2, <2>3, <2>4, <2>5 DEF IInv
<1>8. ASSUME EnqueueExpiring
      PROVE  IInv'
  <2>1. /\ ipc = "enqueue" /\ icur \in Digests /\ map[icur] \in Flows
        /\ ijobs # <<>> /\ Head(ijobs) \in {"update", "destroy"}
    BY <1>8 DEF IInv, MapType, InstType, WalkState, Walking, AtFlow,
             EnqueueExpiring
  <2>2. MapType' /\ CapType' /\ CaptureState' /\ DetectionState'
        /\ FlowsKeyed'
        /\ CapRefs' /\ DpiRefs'
    BY <1>8, Frame DEF IInv, EnqueueExpiring
  <2>3. FlowType'
    BY <1>8, <2>1 DEF IInv, FlowType, EnqueueExpiring
  <2>4. InstType'
    BY <1>8 DEF IInv, InstType, InstPc, EnqueueExpiring, AfterExpire, InstGoto
  <2>5. Locking'
    BY <1>8, <2>1 DEF IInv, Locking, EnqueueExpiring, AfterExpire, InstGoto
  <2>6. WalkState'
    BY <1>8, <2>1 DEF IInv, WalkState, Walking, InBucket, AtFlow, Updating,
                   EnqueueExpiring, AfterExpire, InstGoto
  <2>7. CASE dpi[map[icur]] = NULL
    <3>1. UNCHANGED <<queue, map, digest, dpc, dflow, dpkt>>
      BY <1>8, <2>7, ConstantsAssumption DEF EnqueueExpiring
    <3>2. DpiType' /\ QueueRefs'
      BY <3>1, Frame DEF IInv
    <3> QED
      BY <2>2, <2>3, <2>4, <2>5, <2>6, <3>2 DEF IInv
  <2>8. CASE dpi[map[icur]] # NULL
    <3>1. /\ dpi[map[icur]] \in DpiThreads
          /\ Push(dpi[map[icur]], map[icur], FALSE)
      BY <1>8, <2>1, <2>8 DEF IInv, FlowType, EnqueueExpiring
    <3>2. /\ queue' \in [DpiThreads -> Seq(Entry)]
          /\ \A u \in DpiThreads : \A i \in 1..Len(queue'[u]) :
               \/ queue'[u][i].flow = map[icur]
               \/ i \in 1..Len(queue[u]) /\ queue'[u][i] = queue[u][i]
      BY <2>1, <3>1, PushedEntry DEF IInv
    <3>3. DpiType'
      BY <1>8, <3>2 DEF IInv, DpiType, EnqueueExpiring
    <3>4. Homed(map[icur])
      BY <2>1, ConstantsAssumption DEF IInv, FlowsKeyed, Homed
    <3>5. QueueRefs'
      BY <1>8, <3>2, <3>4 DEF IInv, QueueRefs, Homed, EnqueueExpiring
    <3> QED
      BY <2>2, <2>3, <2>4, <2>5, <2>6, <3>3, <3>5 DEF IInv
  <2> QED
    BY <2>7, <2>8
<1>9. ASSUME PurgeFlow
      PROVE  IInv'
  <2> DEFINE f == map[icur]
  <2>1. /\ ipc = "erase" /\ icur \in Digests /\ f \in Flows /\ ~InUse(f)
        /\ HashToBucket[icur] = ib /\ icur \notin ivisit
    BY <1>9 DEF IInv, MapType, InstType, WalkState, AtFlow, PurgeFlow,
       Purgeable
  <2>2. /\ ipc' = "visit"
        /\ map' = [map EXCEPT ![icur] = NULL]
        /\ digest' = [digest EXCEPT ![f] = NULL]
        /\ dpi' = [dpi EXCEPT ![f] = NULL]
        /\ pkts' = [pkts EXCEPT ![f] = 0]
        /\ purged' = purged + 1
        /\ UNCHANGED <<bucket_lock, nflows, capVars, queue, dpiVars, ijobs, ib,
             ivisit, icur, terminate, force, crashed>>
    BY <1>9 DEF PurgeFlow, InstGoto
  <2> HIDE DEF f
  <2>3. DpiType' /\ CapType' /\ DetectionState'
    BY <2>2, Frame DEF IInv
  <2>4. MapType'
    BY <2>1, <2>2 DEF IInv, MapType
  <2>5. FlowType'
    <3>1. 0 \in 0..(PktCounterSize - 1)
      BY ConstantsAssumption
    <3>2. /\ digest' \in [Flows -> Digests \cup {NULL}]
          /\ pkts' \in [Flows -> 0..(PktCounterSize - 1)]
          /\ dpi' \in [Flows -> DpiThreads \cup {NULL}]
      BY <2>2, <3>1 DEF IInv, FlowType
    <3>3. \A S \in SUBSET Flows : S \ {f} \in SUBSET Flows
      OBVIOUS
    <3> QED
      BY <1>9, <3>2, <3>3 DEF IInv, FlowType, PurgeFlow, f
  <2>6. InstType'
    <3>1. purged' \in Nat
      BY <2>2 DEF IInv, InstType
    <3> QED
      BY <2>2, <3>1 DEF IInv, InstType, InstPc
  <2>7. Locking'
    BY <2>1, <2>2 DEF IInv, Locking
  <2>8. CaptureState'
    <3>1. ASSUME NEW c \in CaptureThreads, cpc[c] \in {"locked", "insert"}
          PROVE  ckey[c] \in Digests /\ ckey[c] # icur
      <4>1. ckey[c] \in Digests /\ bucket_lock[HashToBucket[ckey[c]]] = c
        BY <3>1 DEF IInv, CapType, Locking
      <4>2. bucket_lock[HashToBucket[icur]] = Instance
        BY <2>1 DEF IInv, Locking
      <4> QED
        BY <4>1, <4>2, ConstantsAssumption
    <3>2. \A c \in CaptureThreads : cflow[c] # f
      BY <2>1, UnusedFlow
    <3>3. ASSUME NEW c \in CaptureThreads, cpc[c] = "enqueue"
          PROVE  dpi'[cflow[c]] # NULL
      <4>1. cflow[c] \in Flows /\ dpi[cflow[c]] # NULL
        BY <3>3 DEF IInv, CapType, CaptureState
      <4> QED
        BY <2>2, <3>2, <4>1 DEF IInv, FlowType
    <3>4. ASSUME NEW c \in CaptureThreads, cpc[c] \in {"locked", "insert"}
          PROVE  map'[ckey[c]] = map[ckey[c]]
      BY <2>2, <3>1, <3>4 DEF IInv, MapType
    <3> QED
      BY <2>2, <3>3, <3>4 DEF IInv, CaptureState
  <2>9. WalkState'
    BY <2>1, <2>2 DEF IInv, MapType, InstType, WalkState, Walking, InBucket,
                      AtFlow
  <2>10. ASSUME NEW g \in Flows, g # f, Homed(g)
         PROVE  Homed(g)'
    BY <2>1, <2>2, <2>10 DEF IInv, MapType, FlowType, Homed, f
  <2>11. FlowsKeyed'
    <3>1. ASSUME NEW d \in Digests, d # icur, map[d] # NULL
          PROVE  map[d] \in Flows /\ map[d] # f
      BY <2>1, <3>1, ConstantsAssumption DEF IInv, MapType, FlowsKeyed, f
    <3> QED
      BY <2>1, <2>2, <3>1 DEF IInv, MapType, FlowType, FlowsKeyed
  <2>12. CapRefs'
    BY <2>1, <2>2, <2>10, UnusedFlow DEF IInv, CapType, CapRefs
  <2>13. DpiRefs'
    BY <2>1, <2>2, <2>10, UnusedFlow DEF IInv, DpiType, DpiRefs
  <2>14. QueueRefs'
    <3>1. ASSUME NEW t \in DpiThreads, NEW i \in 1..Len(queue[t])
          PROVE  Homed(queue[t][i].flow)'
      <4>1. queue[t][i].flow \in Flows /\ queue[t][i].flow # f
        BY <2>1, QueuedFlow, UnusedFlow DEF IInv, Entry
      <4>2. Homed(queue[t][i].flow)
        BY DEF IInv, QueueRefs
      <4> QED
        BY <2>2, <2>10, <4>1, <4>2 DEF Homed
    <3> QED
      BY <2>2, <3>1 DEF QueueRefs
  <2> QED
    BY <2>3, <2>4, <2>5, <2>6, <2>7, <2>8, <2>9, <2>11, <2>12, <2>13, <2>14
    DEF IInv
<1>10. ASSUME FindExpired \/ KeepFlow
      PROVE  IInv'
  <2>1. MapType' /\ FlowType' /\ CapType' /\ DpiType' /\ CaptureState'
        /\ DetectionState' /\ FlowsKeyed' /\ CapRefs' /\ DpiRefs'
        /\ QueueRefs'
    BY <1>10, Frame DEF IInv, FindExpired, KeepFlow, InstGoto
  <2>2. InstType'
    BY <1>10, ConstantsAssumption DEF IInv, InstType, MapType,
       FindExpired, KeepFlow,
       InstGoto, InstPc, Jobs
  <2>3. Locking'
    BY <1>10, ConstantsAssumption DEF IInv, Locking, CapType, MapType,
       InstType, WalkState, FindExpired, KeepFlow, InstGoto
  <2>4. WalkState'
    BY <1>10, ConstantsAssumption DEF IInv, WalkState, InBucket, AtFlow,
       Walking, InstType, MapType, Locking, FindExpired, KeepFlow, InstGoto
  <2> QED BY <2>1, <2>2, <2>3, <2>4 DEF IInv
<1>11. ASSUME ReleaseBucket
      PROVE  IInv'
  <2>1. FlowType' /\ CapType' /\ DpiType' /\ CaptureState' /\ DetectionState'
        /\ FlowsKeyed' /\ CapRefs' /\ DpiRefs' /\ QueueRefs'
    BY <1>11, Frame DEF IInv, ReleaseBucket, InstGoto, Unlock, Updating
  <2>2. MapType'
    BY <1>11, ConstantsAssumption DEF IInv, MapType, FlowType, ReleaseBucket,
       InstGoto, Unlock, Updating
  <2>3. InstType'
    <3>1. ijobs # <<>>
      BY <1>11 DEF IInv, WalkState, Walking, ReleaseBucket
    <3>2. ijobs' \in Seq(Jobs)
      BY <1>11, <3>1 DEF IInv, InstType, ReleaseBucket, Updating
    <3> QED
      BY <1>11, <3>2 DEF IInv, InstType, InstPc, ReleaseBucket, InstGoto,
         Updating
  <2>4. Locking'
    BY <1>11, ConstantsAssumption DEF IInv, Locking, CapType, MapType,
       InstType, WalkState, ReleaseBucket, InstGoto, Unlock, Updating
  <2>5. WalkState'
    BY <1>11, ConstantsAssumption DEF IInv, WalkState, InBucket, AtFlow,
       Walking, InstType, MapType, Locking, ReleaseBucket, InstGoto, Unlock,
       Updating
  <2> QED BY <2>1, <2>2, <2>3, <2>4, <2>5 DEF IInv
<1>12. ASSUME AccountPurged
      PROVE  IInv'
  <2>1. FlowType' /\ CapType' /\ DpiType' /\ CaptureState' /\ DetectionState'
        /\ FlowsKeyed' /\ CapRefs' /\ DpiRefs' /\ QueueRefs'
    BY <1>12, Frame DEF IInv, AccountPurged, InstGoto
  <2>2. MapType'
    BY <1>12 DEF IInv, MapType, InstType, AccountPurged
  <2>3. InstType'
    <3>1. ijobs # <<>>
      BY <1>12 DEF IInv, WalkState, Walking, AccountPurged
    <3>2. ijobs' \in Seq(Jobs)
      BY <1>12, <3>1 DEF IInv, InstType, AccountPurged
    <3> QED
      BY <1>12, <3>2 DEF IInv, InstType, InstPc, AccountPurged, InstGoto
  <2>4. Locking'
    BY <1>12, ConstantsAssumption DEF IInv, Locking, CapType, MapType,
       InstType, WalkState, AccountPurged, InstGoto
  <2>5. WalkState'
    BY <1>12, ConstantsAssumption DEF IInv, WalkState, InBucket, AtFlow,
       Walking, InstType, MapType, Locking, AccountPurged, InstGoto
  <2> QED BY <2>1, <2>2, <2>3, <2>4, <2>5 DEF IInv
<1>13. ASSUME EndOfLoop
      PROVE  IInv'
  <2>1. MapType' /\ FlowType' /\ DpiType' /\ CaptureState' /\ DetectionState'
        /\ FlowsKeyed' /\ CapRefs' /\ DpiRefs' /\ QueueRefs'
    BY <1>13, Frame DEF IInv, EndOfLoop, InstGoto
  <2>2. CapType'
    BY <1>13, ConstantsAssumption DEF IInv, CapType, MapType, EndOfLoop,
       InstGoto, CapPc
  <2>3. InstType'
    <3>1. ijobs' \in Seq(Jobs)
      BY <1>13, JobLists DEF EndOfLoop
    <3> QED
      BY <1>13, <3>1 DEF IInv, InstType, InstPc, EndOfLoop, InstGoto
  <2>4. Locking'
    BY <1>13, ConstantsAssumption DEF IInv, Locking, CapType, MapType,
       InstType, WalkState, EndOfLoop, InstGoto
  <2>5. WalkState'
    BY <1>13, ConstantsAssumption DEF IInv, WalkState, InBucket, AtFlow,
       Walking, InstType, MapType, Locking, EndOfLoop, InstGoto
  <2> QED BY <2>1, <2>2, <2>3, <2>4, <2>5 DEF IInv
<1>14. ASSUME ExitInstance
      PROVE  IInv'
  <2>1. MapType' /\ FlowType' /\ CapType' /\ DpiType' /\ CaptureState'
        /\ DetectionState' /\ FlowsKeyed' /\ CapRefs' /\ DpiRefs'
        /\ QueueRefs'
    BY <1>14, Frame DEF IInv, ExitInstance, InstGoto
  <2>2. InstType'
    BY <1>14 DEF IInv, InstType, InstPc, Jobs, ExitInstance, InstGoto
  <2>3. Locking'
    BY <1>14, ConstantsAssumption DEF IInv, Locking, CapType, MapType,
       InstType, WalkState, ExitInstance, InstGoto
  <2>4. WalkState'
    BY <1>14, ConstantsAssumption DEF IInv, WalkState, InBucket, AtFlow,
       Walking, InstType, MapType, Locking, ExitInstance, InstGoto
  <2> QED BY <2>1, <2>2, <2>3, <2>4 DEF IInv
<1> QED
  BY <1>1, <1>2, <1>3, <1>4, <1>5, <1>6, <1>7, <1>8, <1>9, <1>10, <1>11,
     <1>12, <1>13, <1>14 DEF InstStep

-----------------------------------------------------------------------------

\* The invariant of the model and the form the proofs work with say the same:
\* a reference is to a mapped flow whoever holds it.
LEMMA InvForms == LifecycleInv <=> IInv
  BY ReferencesHomed DEF LifecycleInv, IInv, TypeOK

\* The initial state satisfies the invariant.
LEMMA InitInv == Init => IInv
<1> SUFFICES ASSUME Init PROVE IInv
  OBVIOUS
<1> USE DEF Init
<1>1. MapType
  BY DEF MapType
<1>2. FlowType
  <2>1. 0 \in 0..(PktCounterSize - 1)
    BY ConstantsAssumption
  <2> QED
    BY <2>1 DEF FlowType
<1>3. CapType
  BY DEF CapType, CapPc
<1>4. DpiType
  BY DEF DpiType, DpiPc
<1>5. InstType
  BY JobLists DEF InstType, InstPc
<1>6. Locking /\ CaptureState /\ DetectionState
  BY DEF Locking, CaptureState, DetectionState
<1>7. WalkState /\ FlowsKeyed
  BY DEF WalkState, Walking, InBucket, AtFlow, FlowsKeyed
<1>8. CapRefs /\ DpiRefs
  BY DEF CapRefs, DpiRefs
<1>9. QueueRefs
  BY DEF QueueRefs
<1> QED
  BY <1>1, <1>2, <1>3, <1>4, <1>5, <1>6, <1>7, <1>8, <1>9 DEF IInv

\* The invariant only speaks of the state of the threads, the map and the flows.
LEMMA StutterInv == IInv /\ UNCHANGED vars => IInv'
  BY Frame DEF IInv, vars, mapVars, flowVars, capVars, dpiVars, instVars

\* Every step of the agent preserves the invariant.
LEMMA NextInv == IInv /\ [Next]_vars => IInv'
<1> SUFFICES ASSUME IInv, [Next]_vars PROVE IInv'
  OBVIOUS
<1>1. ASSUME NEW c \in CaptureThreads,
             (\E d \in Digests : CapLookup(c, d)) \/ CapStep(c) \/ CapEnd(c)
      PROVE  IInv'
  BY <1>1, CaptureStep
<1>2. ASSUME NEW t \in DpiThreads, DpiStep(t)
      PROVE  IInv'
  BY <1>2, DetectionStep
<1>3. CASE IpcUpdate \/ IpcTerminate \/ InstStep
  BY <1>3, InstanceStep
<1>4. CASE Finished \/ UNCHANGED vars
  BY <1>4, StutterInv DEF Finished
<1> QED
  BY <1>1, <1>2, <1>3, <1>4 DEF Next

\* LifecycleInv is an invariant: the flow map, the references to its flows and
\* what each thread knows of them stay consistent through every interleaving
\* of capture, detection and purge.
THEOREM LifecycleInvariant == Spec => []LifecycleInv
  BY NextInv, InitInv, InvForms, PTL DEF Spec

\* Every variable keeps its type.
THEOREM TypeCorrect == Spec => []TypeOK
<1>1. LifecycleInv => TypeOK
  BY DEF LifecycleInv
<1> QED
  BY <1>1, LifecycleInvariant, PTL

\* The use_count() test of ProcessFlows never purges a flow that a thread or a
\* queue still refers to, and the map never holds another flow in its place.
THEOREM ReferencesSafe == Spec => []ReferencedIsMapped
<1>1. LifecycleInv => ReferencedIsMapped
  BY DEF LifecycleInv
<1> QED
  BY <1>1, LifecycleInvariant, PTL

-----------------------------------------------------------------------------
(* Insertion and counting                                                  *)

\* "Flow exists in map!  Impossible!": with the bucket locked from Lookup to
\* InsertUnlocked, whatever capture threads share the digest, the insertion
\* succeeds and no capture thread dies there.
THEOREM InsertionSafe == Spec => []InsertNeverFails
<1>1. Init => InsertNeverFails
  BY DEF Init, InsertNeverFails
<1>2. IInv /\ InsertNeverFails /\ [Next]_vars => InsertNeverFails'
  <2> SUFFICES ASSUME IInv, InsertNeverFails, [Next]_vars
               PROVE  InsertNeverFails'
    OBVIOUS
  <2> USE DEF InsertNeverFails, IInv, CapType
  <2>1. ASSUME NEW c \in CaptureThreads, CapInsert(c)
        PROVE  InsertNeverFails'
    <3>1. map[ckey[c]] = NULL
      BY <2>1 DEF CaptureState, CapInsert
    <3> QED
      BY <2>1, <3>1 DEF CapInsert, Transition
  <2>2. ASSUME NEW c \in CaptureThreads,
               \/ \E d \in Digests : CapLookup(c, d)
               \/ CapFound(c) \/ CapDrop(c) \/ CapAdmit(c) \/ CapCount(c)
               \/ CapUpdate(c) \/ CapResetStats(c) \/ CapResetDetection(c)
               \/ CapResetExpired(c) \/ CapResetExpiring(c) \/ CapCheck(c)
               \/ CapDone(c) \/ CapAssign(c) \/ CapEnqueue(c) \/ CapEnd(c)
        PROVE  InsertNeverFails'
    BY <2>2
    DEF CapLookup, CapFound, CapDrop, CapAdmit, CapCount, CapUpdate,
        CapResetStats, CapResetDetection, CapResetExpired, CapResetExpiring,
        CapCheck, CapDone, CapAssign, CapEnqueue, CapEnd, CapReturn, Transition
  <2>3. ASSUME NEW t \in DpiThreads, DpiStep(t)
        PROVE  UNCHANGED cpc
    BY <2>3
    DEF DpiStep, DpiPop, DpiExamine, DpiProcess, DpiConclude, DpiFinish,
        DpiNullDereference, DpiExpire, DpiRelease, capVars
  <2>4. CASE IpcUpdate \/ IpcTerminate \/ InstStep
    BY <2>4
    DEF IpcUpdate, IpcTerminate, InstStep, JoinCaptureThreads, StartWalk,
        AcquireBucket, VisitFlow, MarkExpiring, EnqueueExpiring, PurgeFlow,
        FindExpired, KeepFlow, ReleaseBucket, AccountPurged, EndOfLoop,
        ExitInstance, capVars
  <2>5. CASE Finished \/ UNCHANGED vars
    BY <2>5 DEF Finished, vars, capVars
  <2> QED
    BY <2>1, <2>2, <2>3, <2>4, <2>5 DEF Next, CapStep
<1>3. Spec => []IInv
  BY LifecycleInvariant, InvForms, PTL
<1> QED
  BY <1>1, <1>2, <1>3, PTL DEF Spec

\* The digests the flow map holds, the capture threads that have inserted a
\* flow and not counted it, and those that were let past the flow limit
MapDigests == {d \in Digests : map[d] # NULL}
Counting == {c \in CaptureThreads : cpc[c] = "count"}
Admitted == {c \in CaptureThreads : cpc[c] \in {"insert", "count"}}

\* The number of elements changes by one with one element.
LEMMA OneMore ==
  ASSUME NEW S, IsFiniteSet(S), NEW T, NEW x, x \notin S, T = S \cup {x}
  PROVE  IsFiniteSet(T) /\ Cardinality(T) = Cardinality(S) + 1
  BY FS_AddElement

\* These sets are finite, so that counting them makes sense.
LEMMA FiniteCounts ==
  /\ IsFiniteSet(MapDigests) /\ Cardinality(MapDigests) \in Nat
  /\ IsFiniteSet(Counting) /\ Cardinality(Counting) \in Nat
  /\ IsFiniteSet(Admitted) /\ Cardinality(Admitted) \in Nat
  /\ Cardinality(Admitted) <= Cardinality(CaptureThreads)
  /\ Cardinality(CaptureThreads) \in Nat
  BY ConstantsAssumption, FS_Subset, FS_CardinalityType
  DEF MapDigests, Counting, Admitted

\* What an insertion does: the map has one digest more, and one more capture
\* thread is about to count its flow.
LEMMA InsertEffect ==
  ASSUME IInv, NEW c \in CaptureThreads, CapInsert(c)
  PROVE  /\ ckey[c] \notin MapDigests /\ MapDigests' = MapDigests \cup {ckey[c]}
         /\ c \notin Counting /\ Counting' = Counting \cup {c}
         /\ Admitted' = Admitted
         /\ UNCHANGED <<nflows, ipc, ijobs, purged>>
<1>1. /\ ckey[c] \in Digests /\ map[ckey[c]] = NULL
      /\ cpc[c] = "insert" /\ cpc' = [cpc EXCEPT ![c] = "count"]
      /\ UNCHANGED <<nflows, ipc, ijobs, purged>>
  BY DEF IInv, CapType, CaptureState, Locking, CapInsert, Transition, instVars
<1>2. PICK f \in Flows : map' = [map EXCEPT ![ckey[c]] = f]
  BY <1>1 DEF CapInsert
<1>3. MapDigests' = MapDigests \cup {ckey[c]}
  BY <1>1, <1>2, ConstantsAssumption DEF IInv, MapType, MapDigests
<1>4. Counting' = Counting \cup {c} /\ Admitted' = Admitted
  BY <1>1 DEF IInv, CapType, Counting, Admitted
<1> QED
  BY <1>1, <1>3, <1>4 DEF MapDigests, Counting

\* The steps of a capture thread other than inserting and counting a flow
CapOther(c) ==
  \/ \E d \in Digests : CapLookup(c, d)
  \/ CapFound(c) \/ CapDrop(c) \/ CapUpdate(c) \/ CapResetStats(c)
  \/ CapResetDetection(c) \/ CapResetExpired(c) \/ CapResetExpiring(c)
  \/ CapCheck(c) \/ CapDone(c) \/ CapAssign(c) \/ CapEnqueue(c) \/ CapEnd(c)

\* They neither insert nor count.
LEMMA OtherEffect ==
  ASSUME IInv, NEW c \in CaptureThreads, CapOther(c)
  PROVE  /\ Counting' = Counting /\ Admitted' = Admitted
         /\ UNCHANGED <<map, nflows, ipc, ijobs, purged>>
<1>1. UNCHANGED <<map, nflows, ipc, ijobs, purged>>
  BY DEF CapOther, CapLookup, CapFound, CapDrop, CapUpdate, CapResetStats,
         CapResetDetection, CapResetExpired, CapResetExpiring, CapCheck,
         CapDone, CapAssign, CapEnqueue, CapEnd, instVars, mapVars
<1>2. \E v \in CapPc \ {"insert", "count"} :
        /\ cpc[c] \notin {"insert", "count"}
        /\ cpc' = [cpc EXCEPT ![c] = v]
  BY DEF CapOther, CapLookup, CapFound, CapDrop, CapUpdate, CapResetStats,
         CapResetDetection, CapResetExpired, CapResetExpiring, CapCheck,
         CapDone, CapAssign, CapEnqueue, CapEnd, CapReturn, Transition, CapPc
<1> QED
  BY <1>1, <1>2 DEF IInv, CapType, Counting, Admitted

\* Detection threads touch neither the map nor the count.
LEMMA DetectionEffect ==
  ASSUME NEW t \in DpiThreads, DpiStep(t)
  PROVE  UNCHANGED <<map, nflows, cpc, ipc, ijobs, purged>>
  BY DEF DpiStep, DpiPop, DpiExamine, DpiProcess, DpiConclude, DpiFinish,
         DpiNullDereference, DpiExpire, DpiRelease, capVars, mapVars, instVars

\* The steps of the instance thread other than purging and accounting
InstOther ==
  \/ IpcUpdate \/ IpcTerminate \/ JoinCaptureThreads \/ StartWalk
  \/ AcquireBucket \/ (\E d \in Digests : VisitFlow(d)) \/ MarkExpiring
  \/ EnqueueExpiring \/ FindExpired \/ KeepFlow \/ ReleaseBucket
  \/ EndOfLoop \/ ExitInstance

\* They leave the map, the count and what is yet to be taken from it alone.
LEMMA WalkEffect ==
  ASSUME IInv, InstOther
  PROVE  UNCHANGED <<map, nflows, cpc>> /\ Uncounted' = Uncounted
<1> USE DEF Uncounted, Walking, InstGoto
<1>1. UNCHANGED <<map, nflows, cpc>>
  BY DEF InstOther, IpcUpdate, IpcTerminate, JoinCaptureThreads, StartWalk,
         AcquireBucket, VisitFlow, MarkExpiring, EnqueueExpiring, FindExpired,
         KeepFlow,
         ReleaseBucket, EndOfLoop, ExitInstance, mapVars, capVars
<1>2. CASE IpcUpdate \/ IpcTerminate \/ JoinCaptureThreads \/ EndOfLoop
           \/ ExitInstance
  BY <1>1, <1>2 DEF IpcUpdate, IpcTerminate, JoinCaptureThreads, EndOfLoop,
              ExitInstance
<1>3. CASE StartWalk
  BY <1>1, <1>3 DEF StartWalk
<1>4. CASE AcquireBucket \/ FindExpired \/ KeepFlow
  BY <1>1, <1>4 DEF AcquireBucket, FindExpired, KeepFlow
<1>5. CASE (\E d \in Digests : VisitFlow(d)) \/ MarkExpiring \/ EnqueueExpiring
  BY <1>1, <1>5 DEF VisitFlow, MarkExpiring, EnqueueExpiring, AfterExpire
<1>6. CASE ReleaseBucket
  BY <1>1, <1>6 DEF ReleaseBucket, Updating
<1> QED
  BY <1>1, <1>2, <1>3, <1>4, <1>5, <1>6 DEF InstOther

\* A purge takes one digest from the map.
LEMMA PurgeEffect ==
  ASSUME IInv, PurgeFlow
  PROVE  /\ icur \notin MapDigests' /\ MapDigests = MapDigests' \cup {icur}
         /\ Uncounted' = Uncounted + 1
         /\ UNCHANGED <<nflows, cpc>>
<1>1. /\ ipc = "erase" /\ icur \in Digests /\ map[icur] # NULL
      /\ ijobs # <<>> /\ Head(ijobs) = "update"
  BY DEF IInv, InstType, WalkState, Walking, AtFlow, PurgeFlow
<1>2. /\ map' = [map EXCEPT ![icur] = NULL]
      /\ ipc' = "visit" /\ purged' = purged + 1
      /\ UNCHANGED <<nflows, cpc, ijobs>>
  BY DEF PurgeFlow, InstGoto, capVars
<1>3. icur \notin MapDigests' /\ MapDigests = MapDigests' \cup {icur}
  BY <1>1, <1>2 DEF IInv, MapType, MapDigests
<1>4. Uncounted' = Uncounted + 1
  BY <1>1, <1>2 DEF Uncounted, Walking
<1> QED
  BY <1>2, <1>3, <1>4

\* status.flows is exact up to the insertions and purges under way: the exit
\* condition of ndInstance::Entry and the max_flows test see the true number.
THEOREM CountingCorrect == Spec => []FlowsCounted
<1>1. Init => FlowsCounted
  <2> SUFFICES ASSUME Init PROVE FlowsCounted
    OBVIOUS
  <2>1. MapDigests = {} /\ Counting = {}
    BY DEF Init, MapDigests, Counting
  <2>2. nflows = 0 /\ Uncounted = 0
    BY DEF Init, Uncounted, Walking
  <2> QED
    BY <2>1, <2>2, FS_EmptySet DEF FlowsCounted, MapDigests, Counting
<1>2. IInv /\ FlowsCounted /\ [Next]_vars => FlowsCounted'
  <2> SUFFICES ASSUME IInv, FlowsCounted, [Next]_vars
               PROVE  FlowsCounted'
    OBVIOUS
  <2> DEFINE M == Cardinality(MapDigests)
             K == Cardinality(Counting)
  <2>1. nflows = M - K + Uncounted
    BY DEF FlowsCounted, MapDigests, Counting
  <2>2. SUFFICES nflows' = M' - K' + Uncounted'
    BY DEF FlowsCounted, MapDigests, Counting
  <2>3. nflows \in Int /\ Uncounted \in Int /\ M \in Nat /\ K \in Nat
    BY FiniteCounts DEF IInv, MapType, InstType, Uncounted
  <2> HIDE DEF M, K
  <2>4. ASSUME NEW c \in CaptureThreads, CapInsert(c)
        PROVE  nflows' = M' - K' + Uncounted'
    <3>1. M' = M + 1 /\ K' = K + 1
      BY <2>4, InsertEffect, FiniteCounts, OneMore DEF M, K
    <3>2. nflows' = nflows /\ Uncounted' = Uncounted
      BY <2>4, InsertEffect DEF Uncounted, Walking
    <3> QED
      BY <2>1, <2>3, <3>1, <3>2
  <2>5. ASSUME NEW c \in CaptureThreads, CapCount(c)
        PROVE  nflows' = M' - K' + Uncounted'
    <3>1. Counting = Counting' \cup {c} /\ c \notin Counting'
      BY <2>5 DEF IInv, CapType, CapCount, Transition, Counting
    <3>2. IsFiniteSet(Counting')
      BY <3>1, FiniteCounts, FS_Subset
    <3>3. K = K' + 1 /\ K' \in Nat
      BY <3>1, <3>2, OneMore, FS_CardinalityType DEF K
    <3>4. M' = M /\ Uncounted' = Uncounted /\ nflows' = nflows + 1
      BY <2>5 DEF M, MapDigests, Uncounted, Walking, CapCount, instVars
    <3> QED
      BY <2>1, <2>3, <3>3, <3>4
  <2>6. ASSUME UNCHANGED <<map, nflows>>, Counting' = Counting,
               Uncounted' = Uncounted
        PROVE  nflows' = M' - K' + Uncounted'
    BY <2>1, <2>6 DEF M, K, MapDigests
  <2>7. ASSUME NEW c \in CaptureThreads, CapOther(c) \/ CapAdmit(c)
        PROVE  nflows' = M' - K' + Uncounted'
    <3>1. CASE CapOther(c)
      BY <2>6, <3>1, OtherEffect DEF Uncounted, Walking
    <3>2. CASE CapAdmit(c)
      <4>1. Counting' = Counting /\ UNCHANGED <<map, nflows, ipc, ijobs, purged>>
        BY <3>2 DEF IInv, CapType, CapAdmit, Transition, Counting, mapVars,
                    instVars
      <4> QED
        BY <2>6, <4>1 DEF Uncounted, Walking
    <3> QED
      BY <2>7, <3>1, <3>2
  <2>8. ASSUME NEW t \in DpiThreads, DpiStep(t)
        PROVE  nflows' = M' - K' + Uncounted'
    BY <2>6, <2>8, DetectionEffect DEF Uncounted, Walking, Counting
  <2>9. CASE PurgeFlow
    <3>1. IsFiniteSet(MapDigests')
      BY <2>9, PurgeEffect, FiniteCounts, FS_Subset
    <3>2. M = M' + 1 /\ M' \in Nat
      BY <2>9, <3>1, PurgeEffect, OneMore, FS_CardinalityType DEF M
    <3>3. K' = K /\ Uncounted' = Uncounted + 1 /\ nflows' = nflows
      BY <2>9, PurgeEffect DEF K, Counting
    <3> QED
      BY <2>1, <2>3, <3>2, <3>3
  <2>10. CASE AccountPurged
    <3>1. M' = M /\ K' = K
      BY <2>10 DEF M, K, MapDigests, Counting, AccountPurged, capVars
    <3>2. Uncounted = purged /\ Uncounted' = 0 /\ nflows' = nflows - purged
      BY <2>10 DEF IInv, WalkState, Uncounted, Walking, AccountPurged, InstGoto
    <3> QED
      BY <2>1, <2>3, <3>1, <3>2
  <2>11. CASE InstOther
    BY <2>6, <2>11, WalkEffect DEF Counting
  <2>12. CASE Finished \/ UNCHANGED vars
    BY <2>6, <2>12
    DEF Finished, vars, mapVars, capVars, instVars, Counting, Uncounted, Walking
  <2> QED
    BY <2>4, <2>5, <2>7, <2>8, <2>9, <2>10, <2>11, <2>12
    DEF Next, CapStep, CapOther, InstStep, InstOther
<1>3. Spec => []IInv
  BY LifecycleInvariant, InvForms, PTL
<1> QED
  BY <1>1, <1>2, <1>3, PTL DEF Spec

\* Each capture thread beyond the first can exceed max_flows by one flow
LimitInv ==
  MaxFlows > 0 => nflows + Cardinality(Admitted)
                    < MaxFlows + Cardinality(CaptureThreads)

\* max_flows is tested under one bucket's lock and counted later: status.flows
\* exceeds it by less than the number of capture threads.
THEOREM LimitRespected == Spec => []FlowLimit
<1>1. Init => LimitInv
  <2> SUFFICES ASSUME Init PROVE LimitInv
    OBVIOUS
  <2>1. Admitted = {} /\ nflows = 0
    BY DEF Init, Admitted
  <2> QED
    BY <2>1, FS_EmptySet, FiniteCounts, ConstantsAssumption DEF LimitInv
<1>2. IInv /\ LimitInv /\ [Next]_vars => LimitInv'
  <2> SUFFICES ASSUME IInv, LimitInv, [Next]_vars, MaxFlows > 0
               PROVE  nflows' + Cardinality(Admitted')
                        < MaxFlows + Cardinality(CaptureThreads)
    BY DEF LimitInv
  <2> DEFINE A == Cardinality(Admitted)
             Bound == MaxFlows + Cardinality(CaptureThreads)
  <2>1. nflows + A < Bound
    BY DEF LimitInv
  <2>2. nflows \in Int /\ A \in Nat /\ Bound \in Nat
    BY FiniteCounts, ConstantsAssumption DEF IInv, MapType
  <2>3. IsFiniteSet(Admitted') /\ A' \in Nat /\ MaxFlows + A' <= Bound
    BY ConstantsAssumption, FS_Subset, FS_CardinalityType DEF Admitted
  <2> SUFFICES nflows' + A' < Bound
    OBVIOUS
  <2> HIDE DEF A
  <2>4. ASSUME NEW c \in CaptureThreads, CapAdmit(c)
        PROVE  nflows' + A' < Bound
    BY <2>2, <2>3, <2>4, ConstantsAssumption DEF CapAdmit, AtFlowLimit, mapVars
  <2>5. ASSUME NEW c \in CaptureThreads, CapCount(c)
        PROVE  nflows' + A' < Bound
    <3>1. Admitted = Admitted' \cup {c} /\ c \notin Admitted'
      BY <2>5 DEF IInv, CapType, CapCount, Transition, Admitted
    <3>2. A = A' + 1
      BY <2>3, <3>1, OneMore DEF A
    <3>3. nflows' = nflows + 1
      BY <2>5 DEF CapCount
    <3> QED
      BY <2>1, <2>2, <2>3, <3>2, <3>3
  <2>6. ASSUME Admitted' = Admitted, nflows' = nflows
        PROVE  nflows' + A' < Bound
    BY <2>1, <2>6 DEF A
  <2>7. ASSUME NEW c \in CaptureThreads, CapOther(c) \/ CapInsert(c)
        PROVE  nflows' + A' < Bound
    BY <2>6, <2>7, OtherEffect, InsertEffect
  <2>8. ASSUME NEW t \in DpiThreads, DpiStep(t)
        PROVE  nflows' + A' < Bound
    BY <2>6, <2>8, DetectionEffect DEF Admitted
  <2>9. CASE AccountPurged
    <3>1. nflows' <= nflows /\ nflows' \in Int
      BY <2>2, <2>9 DEF IInv, InstType, AccountPurged
    <3>2. A' = A
      BY <2>9 DEF A, Admitted, AccountPurged, capVars
    <3> QED
      BY <2>1, <2>2, <3>1, <3>2
  <2>10. CASE InstOther \/ PurgeFlow
    BY <2>6, <2>10, WalkEffect, PurgeEffect DEF Admitted
  <2>11. CASE Finished \/ UNCHANGED vars
    BY <2>6, <2>11 DEF Finished, vars, mapVars, capVars, Admitted
  <2> QED
    BY <2>4, <2>5, <2>7, <2>8, <2>9, <2>10, <2>11
    DEF Next, CapStep, CapOther, InstStep, InstOther
<1>3. IInv /\ LimitInv => FlowLimit
  BY FiniteCounts, ConstantsAssumption DEF IInv, MapType, LimitInv, FlowLimit
<1>4. Spec => []IInv
  BY LifecycleInvariant, InvForms, PTL
<1> QED
  BY <1>1, <1>2, <1>3, <1>4, PTL DEF Spec

-----------------------------------------------------------------------------
(* Expiry                                                                  *)

\* QueuePacket keeps every entry in its place and adds one at the end.
LEMMA PushKeeps ==
  ASSUME DpiType, NEW t \in DpiThreads, NEW f \in Flows, NEW p \in BOOLEAN,
         Push(t, f, p)
  PROVE  /\ \A u \in DpiThreads : \A i \in 1..Len(queue[u]) :
              i \in 1..Len(queue'[u]) /\ queue'[u][i] = queue[u][i]
         /\ \E i \in 1..Len(queue'[t]) :
              queue'[t][i] = [flow |-> f, packet |-> p]
<1> DEFINE e == [flow |-> f, packet |-> p]
<1>1. /\ queue \in [DpiThreads -> Seq(Entry)] /\ e \in Entry
      /\ queue' = [queue EXCEPT ![t] = Append(queue[t], e)]
  BY DEF DpiType, Push, Entry
<1> HIDE DEF e
<1>2. queue[t] \in Seq(Entry) /\ queue'[t] = Append(queue[t], e)
  BY <1>1
<1>3. /\ Len(queue[t]) \in Nat /\ Len(queue'[t]) = Len(queue[t]) + 1
      /\ queue'[t][Len(queue[t]) + 1] = e
      /\ \A i \in 1..Len(queue[t]) : queue'[t][i] = queue[t][i]
  BY <1>1, <1>2
<1>4. \E i \in 1..Len(queue'[t]) : queue'[t][i] = e
  BY <1>3
<1>5. ASSUME NEW u \in DpiThreads, NEW i \in 1..Len(queue[u])
      PROVE  i \in 1..Len(queue'[u]) /\ queue'[u][i] = queue[u][i]
  <2>1. CASE u = t
    BY <1>3, <2>1
  <2>2. CASE u # t
    BY <1>1, <2>2
  <2> QED
    BY <2>1, <2>2
<1> QED
  BY <1>4, <1>5 DEF e

\* A detection thread takes the first entry and keeps the others.
LEMMA PopKeeps ==
  ASSUME DpiType, NEW t \in DpiThreads, DpiPop(t)
  PROVE  /\ \A u \in DpiThreads : \A i \in 1..Len(queue[u]) :
              \/ u = t /\ dflow'[t] = queue[u][i].flow
              \/ \E j \in 1..Len(queue'[u]) : queue'[u][j] = queue[u][i]
         /\ \A u \in DpiThreads : \A j \in 1..Len(queue'[u]) :
              \E i \in 1..Len(queue[u]) : queue'[u][j] = queue[u][i]
         /\ \E i \in 1..Len(queue[t]) : dflow'[t] = queue[t][i].flow
         /\ \A u \in DpiThreads \ {t} : dflow'[u] = dflow[u]
<1> DEFINE q == queue[t]
           r == Tail(q)
<1>1. /\ queue \in [DpiThreads -> Seq(Entry)] /\ q # <<>>
      /\ queue' = [queue EXCEPT ![t] = r]
      /\ dflow' = [dflow EXCEPT ![t] = Head(q).flow]
      /\ dflow \in [DpiThreads -> Flows \cup {NULL}]
  BY DEF DpiType, DpiPop
<1>2. q \in Seq(Entry)
  BY <1>1
<1>3. /\ Len(q) \in Nat \ {0} /\ Len(r) = Len(q) - 1 /\ Head(q) = q[1]
      /\ \A i \in 1..Len(r) : r[i] = q[i + 1]
  BY <1>1, <1>2, HeadTailProperties, EmptySeq
<1>4. /\ dflow'[t] = q[1].flow /\ queue'[t] = r
      /\ \A u \in DpiThreads \ {t} :
           queue'[u] = queue[u] /\ dflow'[u] = dflow[u]
  BY <1>1, <1>3
<1> HIDE DEF r
<1>5. ASSUME NEW i \in 1..Len(q), i # 1
      PROVE  \E j \in 1..Len(r) : r[j] = q[i]
  <2>1. i - 1 \in 1..Len(r) /\ (i - 1) + 1 = i
    BY <1>3, <1>5
  <2> QED
    BY <1>3, <2>1
<1>6. ASSUME NEW j \in 1..Len(r)
      PROVE  \E i \in 1..Len(q) : r[j] = q[i]
  <2>1. j + 1 \in 1..Len(q)
    BY <1>3
  <2> QED
    BY <1>3, <2>1
<1>7. 1 \in 1..Len(q)
  BY <1>3
<1>8. ASSUME NEW u \in DpiThreads, NEW i \in 1..Len(queue[u])
      PROVE  \/ u = t /\ dflow'[t] = queue[u][i].flow
             \/ \E j \in 1..Len(queue'[u]) : queue'[u][j] = queue[u][i]
  <2>1. CASE u = t
    BY <1>4, <1>5, <2>1
  <2>2. CASE u # t
    BY <1>4, <2>2
  <2> QED
    BY <2>1, <2>2
<1>9. ASSUME NEW u \in DpiThreads, NEW j \in 1..Len(queue'[u])
      PROVE  \E i \in 1..Len(queue[u]) : queue'[u][j] = queue[u][i]
  <2>1. CASE u = t
    BY <1>4, <1>6, <2>1
  <2>2. CASE u # t
    BY <1>4, <2>2
  <2> QED
    BY <2>1, <2>2
<1>10. \E i \in 1..Len(queue[t]) : dflow'[t] = queue[t][i].flow
  BY <1>4, <1>7
<1> QED
  BY <1>4, <1>8, <1>9, <1>10

\* Where the last entry of a marked flow can be (ExpiryPending)
LastEntry(f) ==
  \E t \in DpiThreads :
    \/ \E i \in 1..Len(queue[t]) : queue[t][i].flow = f /\ ~queue[t][i].packet
    \/ dflow[t] = f /\ dpc[t] # "release"

Resetting(f) ==
  \E c \in CaptureThreads :
    cflow[c] = f /\ cpc[c] \in {"reset_detection", "reset_expired",
                               "reset_expiring"}

Marking(f) == ipc = "enqueue" /\ map[icur] = f

LEMMA PendingForm ==
  ExpiryPending <=>
    \A f \in expiring \ expired : Marking(f) \/ LastEntry(f) \/ Resetting(f)
BY DEF ExpiryPending, Marking, LastEntry, Resetting

\* An entry that is queued or worked on stays so.
LEMMA LastEntrySame ==
  ASSUME NEW f, LastEntry(f), UNCHANGED <<dflow, dpc>>,
         \A u \in DpiThreads : \A i \in 1..Len(queue[u]) :
           i \in 1..Len(queue'[u]) /\ queue'[u][i] = queue[u][i]
  PROVE  LastEntry(f)'
<1>1. PICK t \in DpiThreads :
        \/ \E i \in 1..Len(queue[t]) :
             queue[t][i].flow = f /\ ~queue[t][i].packet
        \/ dflow[t] = f /\ dpc[t] # "release"
  BY DEF LastEntry
<1>2. CASE dflow[t] = f /\ dpc[t] # "release"
  BY <1>2 DEF LastEntry
<1>3. ASSUME NEW i \in 1..Len(queue[t]), queue[t][i].flow = f,
             ~queue[t][i].packet
      PROVE  LastEntry(f)'
  <2>1. /\ i \in 1..Len(queue'[t])
        /\ queue'[t][i].flow = f /\ ~queue'[t][i].packet
    BY <1>3
  <2> QED
    BY <2>1 DEF LastEntry
<1> QED
  BY <1>1, <1>2, <1>3

\* A capture thread that resets a flow takes its mark back in the end; all
\* other steps of ProcessPacket leave what is pending alone.
LEMMA CapturePending ==
  ASSUME IInv, ExpiryPending, NEW c \in CaptureThreads,
         (\E d \in Digests : CapLookup(c, d)) \/ CapStep(c) \/ CapEnd(c)
  PROVE  ExpiryPending'
<1> USE DEF flowVars, mapVars, dpiVars, instVars
<1>1. UNCHANGED <<dflow, dpc, ipc, icur>>
  BY DEF CapStep, CapLookup, CapFound, CapDrop, CapAdmit, CapInsert, CapCount,
         CapUpdate, CapResetStats, CapResetDetection, CapResetExpired,
         CapResetExpiring, CapCheck, CapDone, CapAssign, CapEnqueue, CapEnd
<1>2. \A u \in DpiThreads : \A i \in 1..Len(queue[u]) :
        i \in 1..Len(queue'[u]) /\ queue'[u][i] = queue[u][i]
  <2>1. CASE CapEnqueue(c)
    <3>1. cflow[c] \in Flows /\ dpi[cflow[c]] \in DpiThreads
      BY <2>1 DEF IInv, CapType, FlowType, CaptureState, CapEnqueue, CapReturn,
                  Transition
    <3> QED
      BY <2>1, <3>1, PushKeeps DEF IInv, CapEnqueue
  <2>2. CASE UNCHANGED queue
    BY <2>2
  <2> QED
    BY <2>1, <2>2
    DEF CapStep, CapLookup, CapFound, CapDrop, CapAdmit, CapInsert, CapCount,
        CapUpdate, CapResetStats, CapResetDetection, CapResetExpired,
        CapResetExpiring, CapCheck, CapDone, CapAssign, CapEnd
<1>3. \A f \in Flows : LastEntry(f) => LastEntry(f)'
  BY <1>1, <1>2, LastEntrySame
<1>4. \A f \in Flows : Marking(f) => Marking(f)'
  <2>1. CASE CapInsert(c)
    <3> SUFFICES ASSUME NEW f \in Flows, Marking(f) PROVE map'[icur] = f
      BY <1>1 DEF Marking
    <3>1. icur \in Digests /\ map[icur] # NULL
      BY DEF Marking, IInv, InstType, WalkState, AtFlow
    <3>2. map[ckey[c]] = NULL /\ ckey[c] \in Digests
      BY <2>1 DEF IInv, CapType, CaptureState, Locking, CapInsert
    <3>3. PICK g \in Flows : map' = [map EXCEPT ![ckey[c]] = g]
      BY <2>1, <3>2 DEF CapInsert
    <3> QED
      BY <3>1, <3>2, <3>3 DEF Marking, IInv, MapType
  <2>2. CASE UNCHANGED map
    BY <1>1, <2>2 DEF Marking
  <2> QED
    BY <2>1, <2>2
    DEF CapStep, CapLookup, CapFound, CapDrop, CapAdmit, CapCount,
        CapUpdate, CapResetStats, CapResetDetection, CapResetExpired,
        CapResetExpiring, CapCheck, CapDone, CapAssign, CapEnqueue, CapEnd
<1>5. /\ \A b \in CaptureThreads \ {c} :
           cflow'[b] = cflow[b] /\ cpc'[b] = cpc[b]
      /\ \/ cpc[c] \notin {"reset_detection", "reset_expired",
                           "reset_expiring"}
         \/ /\ cflow'[c] = cflow[c]
            /\ cpc'[c] \in {"reset_expired", "reset_expiring"}
         \/ expiring' = expiring \ {cflow[c]}
  <2>1. CASE CapResetDetection(c) \/ CapResetExpired(c) \/ CapResetExpiring(c)
    BY <2>1 DEF IInv, CapType, CapResetDetection, CapResetExpired,
                CapResetExpiring, Transition
  <2>2. CASE (\E d \in Digests : CapLookup(c, d)) \/ CapInsert(c)
    BY <2>2 DEF IInv, CapType, CapLookup, CapInsert, Transition
  <2>3. CASE CapDrop(c) \/ CapDone(c) \/ CapEnqueue(c)
    BY <2>3 DEF IInv, CapType, CapDrop, CapDone, CapEnqueue, CapReturn,
                Transition
  <2>4. CASE \/ CapFound(c) \/ CapAdmit(c) \/ CapCount(c) \/ CapUpdate(c)
             \/ CapResetStats(c) \/ CapCheck(c) \/ CapAssign(c) \/ CapEnd(c)
    BY <2>4 DEF IInv, CapType, CapFound, CapAdmit, CapCount, CapUpdate,
                CapResetStats, CapCheck, CapAssign, CapEnd, Transition
  <2> QED
    BY <2>1, <2>2, <2>3, <2>4 DEF CapStep
<1>6. \A f \in Flows : Resetting(f) => Resetting(f)' \/ f \notin expiring'
  BY <1>5 DEF Resetting
<1>7. \A f \in expiring' \ expired' :
        f \in Flows /\ (f \in expiring \ expired \/ Resetting(f)')
  <2>1. CASE CapResetExpired(c)
    <3>1. /\ expired' = expired \ {cflow[c]} /\ expiring' = expiring
          /\ cflow'[c] = cflow[c] /\ cpc'[c] = "reset_expiring"
      BY <2>1 DEF IInv, CapType, CapResetExpired, Transition
    <3> QED
      BY <3>1 DEF IInv, FlowType, Resetting
  <2>2. CASE expired' = expired /\ expiring' \subseteq expiring
    BY <2>2 DEF IInv, FlowType
  <2> QED
    BY <2>1, <2>2
    DEF CapStep, CapLookup, CapFound, CapDrop, CapAdmit, CapInsert, CapCount,
        CapUpdate, CapResetStats, CapResetDetection, CapResetExpiring,
        CapCheck, CapDone, CapAssign, CapEnqueue, CapEnd
<1>8. \A f \in expiring' \ expired' :
        Marking(f)' \/ LastEntry(f)' \/ Resetting(f)'
  BY <1>3, <1>4, <1>6, <1>7, PendingForm
<1> QED
  BY <1>8 DEF ExpiryPending, Marking, LastEntry, Resetting

\* A detection thread that works on a marked flow goes on until it has expired
\* it: the mark makes the flow conclusive.
LEMMA DetectionPending ==
  ASSUME IInv, ExpiryPending, NEW t \in DpiThreads, DpiStep(t)
  PROVE  ExpiryPending'
<1> USE DEF flowVars, mapVars, capVars, dpiVars, instVars
<1>1. UNCHANGED <<ipc, icur, map, cflow, cpc>>
  BY DEF DpiStep, DpiPop, DpiExamine, DpiProcess, DpiConclude, DpiFinish,
         DpiNullDereference, DpiExpire, DpiRelease
<1>2. \A f \in Flows :
        (Marking(f) => Marking(f)') /\ (Resetting(f) => Resetting(f)')
  BY <1>1 DEF Marking, Resetting
<1>3. \A f \in expiring' \ expired' : f \in Flows /\ f \in expiring \ expired
  BY DEF IInv, FlowType, DpiStep, DpiPop, DpiExamine, DpiProcess, DpiConclude,
         DpiFinish, DpiNullDereference, DpiExpire, DpiRelease
<1>4. ASSUME NEW f \in expiring' \ expired', LastEntry(f)
      PROVE  LastEntry(f)'
  <2>1. f \in Flows /\ f \in expiring /\ f \notin expired
    BY <1>3
  <2>2. CASE DpiPop(t)
    <3>1. dpc[t] = "idle" /\ dpc' = [dpc EXCEPT ![t] = "examine"]
      BY <2>2 DEF DpiPop, DpiTransition
    <3>2. dpc'[t] = "examine" /\ \A u \in DpiThreads \ {t} : dpc'[u] = dpc[u]
      BY <3>1 DEF IInv, DpiType
    <3>3. PICK u \in DpiThreads :
            \/ \E i \in 1..Len(queue[u]) :
                 queue[u][i].flow = f /\ ~queue[u][i].packet
            \/ dflow[u] = f /\ dpc[u] # "release"
      BY <1>4 DEF LastEntry
    <3>4. ASSUME NEW i \in 1..Len(queue[u]), queue[u][i].flow = f,
                 ~queue[u][i].packet
          PROVE  LastEntry(f)'
      <4>1. CASE u = t /\ dflow'[t] = f
        BY <3>2, <4>1 DEF LastEntry
      <4>2. CASE \E j \in 1..Len(queue'[u]) : queue'[u][j] = queue[u][i]
        BY <3>4, <4>2 DEF LastEntry
      <4> QED
        BY <2>2, <3>4, <4>1, <4>2, PopKeeps DEF IInv
    <3>5. CASE dflow[u] = f /\ dpc[u] # "release"
      <4>1. u # t
        BY <2>1, <3>1, <3>5, ConstantsAssumption DEF IInv, DetectionState
      <4>2. dflow'[u] = f /\ dpc'[u] # "release"
        BY <2>2, <3>2, <3>5, <4>1, PopKeeps DEF IInv
      <4> QED
        BY <4>2 DEF LastEntry
    <3> QED
      BY <3>3, <3>4, <3>5
  <2>3. CASE DpiNullDereference(t)
    BY <1>4, <2>3 DEF DpiNullDereference, LastEntry
  <2>4. ASSUME queue' = queue, \A u \in DpiThreads \ {t} :
                 dflow'[u] = dflow[u] /\ dpc'[u] = dpc[u],
               dflow[t] = f /\ dpc[t] # "release" =>
                 dflow'[t] = f /\ dpc'[t] # "release"
        PROVE  LastEntry(f)'
    BY <1>4, <2>4 DEF LastEntry
  <2>5. CASE DpiExamine(t) \/ DpiProcess(t)
    BY <2>4, <2>5 DEF IInv, DpiType, DpiExamine, DpiProcess, DpiTransition
  <2>6. CASE DpiConclude(t)
    BY <2>1, <2>4, <2>6
    DEF IInv, DpiType, DpiConclude, DpiTransition, Conclusive
  <2>7. CASE DpiFinish(t)
    BY <2>4, <2>7 DEF IInv, DpiType, DpiFinish, DpiTransition
  <2>8. CASE DpiExpire(t)
    <3>1. dflow[t] # f
      BY <2>8 DEF DpiExpire
    <3> QED
      BY <2>4, <2>8, <3>1 DEF IInv, DpiType, DpiExpire, DpiTransition
  <2>9. CASE DpiRelease(t)
    BY <2>4, <2>9 DEF IInv, DpiType, DpiRelease, DpiTransition
  <2> QED
    BY <2>2, <2>3, <2>5, <2>6, <2>7, <2>8, <2>9 DEF DpiStep
<1>5. \A f \in expiring' \ expired' :
        Marking(f)' \/ LastEntry(f)' \/ Resetting(f)'
  BY <1>2, <1>3, <1>4, PendingForm
<1> QED
  BY <1>5 DEF ExpiryPending, Marking, LastEntry, Resetting

\* The instance thread marks a flow, then queues its last entry; a flow whose
\* mark it finds set it leaves alone, and one it purges loses the mark.
LEMMA InstancePending ==
  ASSUME IInv, ExpiryPending, IpcUpdate \/ IpcTerminate \/ InstStep
  PROVE  ExpiryPending'
<1> USE DEF flowVars, mapVars, capVars, dpiVars, instVars, InstGoto
<1>1. UNCHANGED <<dflow, dpc, cflow, cpc>>
  BY DEF IpcUpdate, IpcTerminate, InstStep, JoinCaptureThreads, StartWalk,
         AcquireBucket, VisitFlow, MarkExpiring, EnqueueExpiring, PurgeFlow,
         FindExpired, KeepFlow, ReleaseBucket, AccountPurged, EndOfLoop,
         ExitInstance
<1>2. \A f \in Flows : Resetting(f) => Resetting(f)'
  BY <1>1 DEF Resetting
<1>3. ASSUME UNCHANGED queue
      PROVE  \A f \in Flows : LastEntry(f) => LastEntry(f)'
  BY <1>1, <1>3 DEF LastEntry
<1>4. CASE MarkExpiring
  <2>1. /\ icur \in Digests /\ map[icur] \in Flows /\ ipc = "mark"
        /\ expiring' = expiring \cup {map[icur]}
        /\ map[icur] \in expiring \/ ipc' = "enqueue"
        /\ UNCHANGED <<queue, expired, map, icur>>
    BY <1>4 DEF IInv, MapType, InstType, WalkState, AtFlow, MarkExpiring
  <2>2. \A f \in expiring' \ expired' :
          Marking(f)' \/ LastEntry(f)' \/ Resetting(f)'
    BY <1>2, <1>3, <2>1, PendingForm DEF IInv, FlowType, Marking
  <2> QED
    BY <2>2 DEF ExpiryPending, Marking, LastEntry, Resetting
<1>5. CASE EnqueueExpiring
  <2>1. PICK g \in Flows : g = map[icur] /\ expiring' = expiring
    BY <1>5 DEF IInv, MapType, InstType, WalkState, AtFlow, EnqueueExpiring
  <2>2. CASE dpi[g] # NULL
    <3>1. dpi[g] \in DpiThreads /\ Push(dpi[g], g, FALSE) /\ expired' = expired
      BY <1>5, <2>1, <2>2 DEF IInv, FlowType, EnqueueExpiring
    <3>2. /\ \A u \in DpiThreads : \A i \in 1..Len(queue[u]) :
               i \in 1..Len(queue'[u]) /\ queue'[u][i] = queue[u][i]
          /\ \E i \in 1..Len(queue'[dpi[g]]) :
               queue'[dpi[g]][i] = [flow |-> g, packet |-> FALSE]
      BY <2>1, <3>1, PushKeeps DEF IInv
    <3>3. LastEntry(g)'
      <4>1. PICK i \in 1..Len(queue'[dpi[g]]) :
              queue'[dpi[g]][i] = [flow |-> g, packet |-> FALSE]
        BY <3>2
      <4>2. queue'[dpi[g]][i].flow = g /\ ~queue'[dpi[g]][i].packet
        BY <4>1
      <4>3. \E t \in DpiThreads : \E j \in 1..Len(queue'[t]) :
              queue'[t][j].flow = g /\ ~queue'[t][j].packet
        BY <3>1, <4>2
      <4> QED
        BY <4>3 DEF LastEntry
    <3>4. \A f \in Flows : LastEntry(f) => LastEntry(f)'
      BY <1>1, <3>2, LastEntrySame
    <3>5. \A f \in Flows : Marking(f) => f = g
      BY <2>1 DEF Marking
    <3>6. \A f \in expiring' \ expired' :
            Marking(f)' \/ LastEntry(f)' \/ Resetting(f)'
      <4> SUFFICES ASSUME NEW f \in expiring' \ expired'
                   PROVE  LastEntry(f)' \/ Resetting(f)'
        OBVIOUS
      <4>1. f \in Flows /\ f \in expiring \ expired
        BY <2>1, <3>1 DEF IInv, FlowType
      <4>2. Marking(f) \/ LastEntry(f) \/ Resetting(f)
        BY <4>1, PendingForm
      <4>3. CASE Marking(f)
        BY <3>3, <3>5, <4>1, <4>3
      <4> QED
        BY <1>2, <3>4, <4>1, <4>2, <4>3
    <3> QED
      BY <3>6 DEF ExpiryPending, Marking, LastEntry, Resetting
  <2>3. CASE dpi[g] = NULL
    <3>1. expired' = expired \cup {g} /\ queue' = queue
      BY <1>5, <2>1, <2>3, ConstantsAssumption DEF EnqueueExpiring
    <3>2. \A f \in expiring' \ expired' :
            Marking(f)' \/ LastEntry(f)' \/ Resetting(f)'
      BY <1>2, <1>3, <2>1, <3>1, PendingForm DEF IInv, FlowType, Marking
    <3> QED
      BY <3>2 DEF ExpiryPending, Marking, LastEntry, Resetting
  <2> QED
    BY <2>2, <2>3
<1>6. ASSUME queue' = queue, ipc # "enqueue",
             expiring' \ expired' \subseteq expiring \ expired
      PROVE  ExpiryPending'
  <2>1. \A f \in expiring' \ expired' :
          Marking(f)' \/ LastEntry(f)' \/ Resetting(f)'
    BY <1>2, <1>3, <1>6, PendingForm DEF IInv, FlowType, Marking
  <2> QED
    BY <2>1 DEF ExpiryPending, Marking, LastEntry, Resetting
<1>7. CASE IpcUpdate \/ IpcTerminate \/ JoinCaptureThreads \/ StartWalk
           \/ AcquireBucket \/ FindExpired \/ KeepFlow \/ ReleaseBucket
  BY <1>6, <1>7
  DEF IpcUpdate, IpcTerminate, JoinCaptureThreads, StartWalk, AcquireBucket,
      FindExpired, KeepFlow, ReleaseBucket
<1>8. CASE AccountPurged \/ EndOfLoop \/ ExitInstance
  BY <1>6, <1>8 DEF AccountPurged, EndOfLoop, ExitInstance
<1>9. CASE PurgeFlow \/ \E d \in Digests : VisitFlow(d)
  BY <1>6, <1>9 DEF PurgeFlow, VisitFlow
<1> QED
  BY <1>4, <1>5, <1>7, <1>8, <1>9 DEF InstStep

\* A flow that ExpireFlow has marked is never forgotten: its last entry is
\* about to be queued, is queued or is being worked on, or the mark is being
\* taken back.
THEOREM MarkNeverLost == Spec => []ExpiryPending
<1>1. Init => ExpiryPending
  BY DEF Init, ExpiryPending
<1>2. IInv /\ ExpiryPending /\ [Next]_vars => ExpiryPending'
  <2> SUFFICES ASSUME IInv, ExpiryPending, [Next]_vars PROVE ExpiryPending'
    OBVIOUS
  <2>1. CASE Finished \/ UNCHANGED vars
    BY <2>1 DEF Finished, vars, mapVars, flowVars, capVars, dpiVars, instVars,
                ExpiryPending
  <2> QED
    BY <2>1, CapturePending, DetectionPending, InstancePending DEF Next
<1>3. Spec => []IInv
  BY LifecycleInvariant, InvForms, PTL
<1> QED
  BY <1>1, <1>2, <1>3, PTL DEF Spec

-----------------------------------------------------------------------------
(* The detection thread of a flow                                          *)

\* No two capture threads see packets of one flow
OneSource ==
  \A b, c \in CaptureThreads : b # c => Sees[b] \cap Sees[c] = {}

\* Entries are only ever with the flow's own detection thread
QueuesOwned ==
  \A t \in DpiThreads : \A i \in 1..Len(queue[t]) : dpi[queue[t][i].flow] = t

EntriesOwned == \A t \in DpiThreads : dflow[t] # NULL => dpi[dflow[t]] = t

\* A capture thread works on the flow of the packet it has seen
CapturesKeyed ==
  \A c \in CaptureThreads :
    /\ ckey[c] # NULL => ckey[c] \in Sees[c]
    /\ cflow[c] # NULL => digest[cflow[c]] = ckey[c]

\* ... and gives it a detection thread only when it has none
AssignsFirst ==
  \A c \in CaptureThreads : cpc[c] = "assign" => dpi[cflow[c]] = NULL

OwnerInv == QueuesOwned /\ EntriesOwned /\ CapturesKeyed /\ AssignsFirst

\* Each part survives a step that leaves its variables alone.
LEMMA OwnerFrame ==
  /\ QueuesOwned /\ UNCHANGED <<queue, dpi>> => QueuesOwned'
  /\ EntriesOwned /\ UNCHANGED <<dflow, dpi>> => EntriesOwned'
  /\ CapturesKeyed /\ UNCHANGED <<ckey, cflow, digest>> => CapturesKeyed'
  /\ AssignsFirst /\ UNCHANGED <<cpc, cflow, dpi>> => AssignsFirst'
<1>1. QueuesOwned /\ UNCHANGED <<queue, dpi>> => QueuesOwned'
  BY DEF QueuesOwned
<1>2. EntriesOwned /\ UNCHANGED <<dflow, dpi>> => EntriesOwned'
  BY DEF EntriesOwned
<1>3. CapturesKeyed /\ UNCHANGED <<ckey, cflow, digest>> => CapturesKeyed'
  BY DEF CapturesKeyed
<1>4. AssignsFirst /\ UNCHANGED <<cpc, cflow, dpi>> => AssignsFirst'
  BY DEF AssignsFirst
<1> QED
  BY <1>1, <1>2, <1>3, <1>4

\* A packet or a last entry queued for the flow's thread is with its owner.
LEMMA PushOwned ==
  ASSUME DpiType, QueuesOwned, NEW f \in Flows, dpi[f] \in DpiThreads,
         NEW p \in BOOLEAN, Push(dpi[f], f, p), dpi' = dpi
  PROVE  QueuesOwned'
<1>1. PICK t \in DpiThreads : t = dpi[f]
  OBVIOUS
<1>2. /\ queue' = [queue EXCEPT ![t] =
                      Append(queue[t], [flow |-> f, packet |-> p])]
      /\ queue \in [DpiThreads -> Seq(Entry)]
  BY <1>1 DEF Push, DpiType
<1> SUFFICES ASSUME NEW u \in DpiThreads, NEW i \in 1..Len(queue'[u])
             PROVE  dpi[queue'[u][i].flow] = u
  BY DEF QueuesOwned
<1>3. CASE u # t
  <2>1. queue'[u] = queue[u]
    BY <1>2, <1>3
  <2> QED
    BY <2>1 DEF QueuesOwned
<1>4. CASE u = t
  <2>1. \/ queue'[u][i].flow = f
        \/ i \in 1..Len(queue[u]) /\ queue'[u][i] = queue[u][i]
    BY <1>1, PushedEntry
  <2> QED
    BY <1>1, <1>4, <2>1 DEF QueuesOwned
<1> QED
  BY <1>3, <1>4

\* ProcessPacket chooses a detection thread once, and queues to no other.
LEMMA CaptureOwner ==
  ASSUME OneSource, IInv, OwnerInv, NEW c \in CaptureThreads,
         (\E d \in Digests : CapLookup(c, d)) \/ CapStep(c) \/ CapEnd(c)
  PROVE  OwnerInv'
<1> USE DEF flowVars, mapVars, dpiVars, instVars
<1>1. ASSUME NEW d \in Digests, CapLookup(c, d)
      PROVE  OwnerInv'
  <2>1. /\ UNCHANGED <<queue, dflow, dpi, digest>>
        /\ cpc' = [cpc EXCEPT ![c] = "locked"] /\ d \in Sees[c]
        /\ ckey' = [ckey EXCEPT ![c] = d]
        /\ cflow' = [cflow EXCEPT ![c] = map[d]]
    BY <1>1 DEF CapLookup, Transition
  <2>2. QueuesOwned' /\ EntriesOwned'
    BY <2>1, OwnerFrame DEF OwnerInv
  <2>3. CapturesKeyed'
    BY <2>1 DEF IInv, CapType, FlowsKeyed, OwnerInv, CapturesKeyed
  <2>4. AssignsFirst'
    BY <2>1 DEF IInv, CapType, OwnerInv, AssignsFirst
  <2> QED
    BY <2>2, <2>3, <2>4 DEF OwnerInv
<1>2. ASSUME CapInsert(c)
      PROVE  OwnerInv'
  <2>1. /\ ckey[c] \in Digests /\ map[ckey[c]] = NULL
        /\ cpc' = [cpc EXCEPT ![c] = "count"]
        /\ UNCHANGED <<queue, dflow, dpi, ckey>>
    BY <1>2 DEF IInv, CapType, CaptureState, Locking, CapInsert, Transition
  <2>2. PICK f \in Flows :
          /\ ~InUse(f)
          /\ cflow' = [cflow EXCEPT ![c] = f]
          /\ digest' = [digest EXCEPT ![f] = ckey[c]]
    BY <1>2, <2>1 DEF CapInsert
  <2>3. QueuesOwned' /\ EntriesOwned'
    BY <2>1, OwnerFrame DEF OwnerInv
  <2>4. CapturesKeyed'
    BY <2>1, <2>2, UnusedFlow
    DEF IInv, CapType, FlowType, OwnerInv, CapturesKeyed
  <2>5. AssignsFirst'
    BY <2>1, <2>2 DEF IInv, CapType, OwnerInv, AssignsFirst
  <2> QED
    BY <2>3, <2>4, <2>5 DEF OwnerInv
<1>3. ASSUME CapAssign(c)
      PROVE  OwnerInv'
  <2> DEFINE f == cflow[c]
  <2>1. /\ f \in Flows /\ cpc[c] = "assign" /\ dpi[f] = NULL
        /\ cpc' = [cpc EXCEPT ![c] = "enqueue"]
        /\ dpi' = [dpi EXCEPT ![f] = crr[c]]
        /\ UNCHANGED <<queue, dflow, ckey, cflow, digest>>
    BY <1>3 DEF IInv, CapType, CaptureState, CapAssign, Transition, OwnerInv,
                AssignsFirst
  <2> HIDE DEF f
  <2>2. QueuesOwned'
    <3> SUFFICES ASSUME NEW t \in DpiThreads, NEW i \in 1..Len(queue[t])
                 PROVE  dpi'[queue[t][i].flow] = t
      BY <2>1 DEF QueuesOwned
    <3>1. queue[t][i].flow \in Flows /\ dpi[queue[t][i].flow] = t
      BY QueuedFlow DEF IInv, Entry, OwnerInv, QueuesOwned
    <3>2. queue[t][i].flow # f
      BY <2>1, <3>1, ConstantsAssumption
    <3> QED
      BY <2>1, <3>1, <3>2 DEF IInv, FlowType
  <2>3. EntriesOwned'
    BY <2>1, ConstantsAssumption DEF IInv, FlowType, OwnerInv, EntriesOwned
  <2>4. CapturesKeyed'
    BY <2>1, OwnerFrame DEF OwnerInv
  <2>5. AssignsFirst'
    <3> SUFFICES ASSUME NEW b \in CaptureThreads, cpc'[b] = "assign"
                 PROVE  dpi'[cflow[b]] = NULL
      BY <2>1 DEF AssignsFirst
    <3>1. b # c /\ cpc[b] = "assign"
      BY <2>1 DEF IInv, CapType
    <3>2. cflow[b] \in Flows /\ ckey[b] # NULL /\ ckey[c] # NULL
      BY <2>1, <3>1 DEF IInv, CapType, CaptureState
    <3>3. cflow[b] # f
      BY <2>1, <3>1, <3>2, ConstantsAssumption
      DEF OwnerInv, CapturesKeyed, OneSource, f
    <3>4. dpi[cflow[b]] = NULL
      BY <3>1 DEF OwnerInv, AssignsFirst
    <3> QED
      BY <2>1, <3>2, <3>3, <3>4 DEF IInv, FlowType
  <2> QED
    BY <2>2, <2>3, <2>4, <2>5 DEF OwnerInv
<1>4. ASSUME CapCheck(c)
      PROVE  OwnerInv'
  <2>1. /\ cflow[c] \in Flows
        /\ cpc' = [cpc EXCEPT ![c] = IF dpi[cflow[c]] = NULL THEN "assign"
                                                             ELSE "enqueue"]
        /\ UNCHANGED <<queue, dflow, dpi, ckey, cflow, digest>>
    BY <1>4 DEF IInv, CapType, CaptureState, CapCheck, Transition
  <2>2. QueuesOwned' /\ EntriesOwned' /\ CapturesKeyed'
    BY <2>1, OwnerFrame DEF OwnerInv
  <2>3. AssignsFirst'
    BY <2>1 DEF IInv, CapType, OwnerInv, AssignsFirst
  <2> QED
    BY <2>2, <2>3 DEF OwnerInv
<1>5. ASSUME UNCHANGED <<dflow, dpi, digest>>, QueuesOwned',
             cpc'[c] # "assign",
             \A b \in CaptureThreads \ {c} :
               cpc'[b] = cpc[b] /\ ckey'[b] = ckey[b] /\ cflow'[b] = cflow[b],
             \/ cflow'[c] = NULL /\ ckey'[c] = NULL
             \/ cflow'[c] = cflow[c] /\ ckey'[c] = ckey[c]
      PROVE  OwnerInv'
  <2>1. EntriesOwned'
    BY <1>5, OwnerFrame DEF OwnerInv
  <2>2. CapturesKeyed'
    BY <1>5 DEF OwnerInv, CapturesKeyed
  <2>3. AssignsFirst'
    BY <1>5 DEF OwnerInv, AssignsFirst
  <2> QED
    BY <1>5, <2>1, <2>2, <2>3 DEF OwnerInv
<1>6. CASE CapEnqueue(c)
  <2>1. cflow[c] \in Flows /\ dpi[cflow[c]] \in DpiThreads
    BY <1>6 DEF IInv, CapType, FlowType, CaptureState, CapEnqueue, CapReturn,
                Transition
  <2>2. QueuesOwned'
    BY <1>6, <2>1, PushOwned DEF IInv, OwnerInv, CapEnqueue
  <2> QED
    BY <1>5, <1>6, <2>2 DEF IInv, CapType, CapEnqueue, CapReturn, Transition
<1>7. CASE CapDrop(c) \/ CapDone(c)
  <2>1. QueuesOwned'
    BY <1>7, OwnerFrame DEF OwnerInv, CapDrop, CapDone
  <2> QED
    BY <1>5, <1>7, <2>1
    DEF IInv, CapType, CapDrop, CapDone, CapReturn, Transition
<1>8. CASE \/ CapFound(c) \/ CapAdmit(c) \/ CapCount(c) \/ CapUpdate(c)
           \/ CapResetStats(c) \/ CapResetDetection(c) \/ CapResetExpired(c)
           \/ CapResetExpiring(c) \/ CapEnd(c)
  <2>1. /\ UNCHANGED <<dflow, dpi, digest, queue, ckey, cflow>>
        /\ \E v \in CapPc \ {"assign"} : cpc' = [cpc EXCEPT ![c] = v]
    BY <1>8
    DEF CapFound, CapAdmit, CapCount, CapUpdate, CapResetStats,
        CapResetDetection, CapResetExpired, CapResetExpiring, CapEnd,
        Transition, CapPc
  <2>2. QueuesOwned'
    BY <2>1, OwnerFrame DEF OwnerInv
  <2> QED
    BY <1>5, <2>1, <2>2 DEF IInv, CapType
<1> QED
  BY <1>1, <1>2, <1>3, <1>4, <1>6, <1>7, <1>8 DEF CapStep

\* A detection thread works on entries of its own queue only.
LEMMA DetectionOwner ==
  ASSUME IInv, OwnerInv, NEW t \in DpiThreads, DpiStep(t)
  PROVE  OwnerInv'
<1> USE DEF flowVars, mapVars, capVars, dpiVars, instVars
<1>1. CapturesKeyed' /\ AssignsFirst' /\ dpi' = dpi
  <2>1. UNCHANGED <<cpc, ckey, cflow, digest, dpi>>
    BY DEF DpiStep, DpiPop, DpiExamine, DpiProcess, DpiConclude, DpiFinish,
           DpiNullDereference, DpiExpire, DpiRelease
  <2> QED
    BY <2>1, OwnerFrame DEF OwnerInv
<1>2. CASE DpiPop(t)
  <2>1. QueuesOwned'
    <3> SUFFICES ASSUME NEW u \in DpiThreads, NEW j \in 1..Len(queue'[u])
                 PROVE  dpi[queue'[u][j].flow] = u
      BY <1>1 DEF QueuesOwned
    <3>1. PICK i \in 1..Len(queue[u]) : queue'[u][j] = queue[u][i]
      BY <1>2, PopKeeps DEF IInv
    <3> QED
      BY <3>1 DEF OwnerInv, QueuesOwned
  <2>2. EntriesOwned'
    <3>1. PICK i \in 1..Len(queue[t]) : dflow'[t] = queue[t][i].flow
      BY <1>2, PopKeeps DEF IInv
    <3>2. dpi[dflow'[t]] = t
      BY <3>1 DEF OwnerInv, QueuesOwned
    <3>3. \A u \in DpiThreads \ {t} : dflow'[u] = dflow[u]
      BY <1>2, PopKeeps DEF IInv
    <3> QED
      BY <1>1, <3>2, <3>3 DEF OwnerInv, EntriesOwned
  <2> QED
    BY <1>1, <2>1, <2>2 DEF OwnerInv
<1>3. CASE DpiRelease(t)
  <2>1. QueuesOwned'
    BY <1>1, <1>3, OwnerFrame DEF OwnerInv, DpiRelease
  <2>2. EntriesOwned'
    BY <1>1, <1>3 DEF IInv, DpiType, OwnerInv, EntriesOwned, DpiRelease
  <2> QED
    BY <1>1, <2>1, <2>2 DEF OwnerInv
<1>4. CASE UNCHANGED <<queue, dflow>>
  BY <1>1, <1>4, OwnerFrame DEF OwnerInv
<1> QED
  BY <1>2, <1>3, <1>4
  DEF DpiStep, DpiExamine, DpiProcess, DpiConclude, DpiFinish,
      DpiNullDereference, DpiExpire

\* ExpireFlow queues the last entry to the flow's own thread; a purged flow
\* has no entry left.
LEMMA InstanceOwner ==
  ASSUME IInv, OwnerInv, IpcUpdate \/ IpcTerminate \/ InstStep
  PROVE  OwnerInv'
<1> USE DEF flowVars, mapVars, capVars, dpiVars, instVars
<1>1. UNCHANGED <<cpc, ckey, cflow, dflow>>
  BY DEF IpcUpdate, IpcTerminate, InstStep, JoinCaptureThreads, StartWalk,
         AcquireBucket, VisitFlow, MarkExpiring, EnqueueExpiring, PurgeFlow,
         FindExpired, KeepFlow, ReleaseBucket, AccountPurged, EndOfLoop,
         ExitInstance
<1>2. CASE EnqueueExpiring
  <2>1. PICK f \in Flows : f = map[icur] /\ dpi' = dpi /\ digest' = digest
    BY <1>2 DEF IInv, MapType, InstType, WalkState, AtFlow, EnqueueExpiring
  <2>2. EntriesOwned' /\ CapturesKeyed' /\ AssignsFirst'
    BY <1>1, <2>1, OwnerFrame DEF OwnerInv
  <2>3. CASE dpi[f] # NULL
    <3>1. dpi[f] \in DpiThreads /\ Push(dpi[f], f, FALSE)
      BY <1>2, <2>1, <2>3 DEF IInv, FlowType, EnqueueExpiring
    <3>2. QueuesOwned'
      BY <2>1, <3>1, PushOwned DEF IInv, OwnerInv
    <3> QED
      BY <2>2, <3>2 DEF OwnerInv
  <2>4. CASE dpi[f] = NULL
    <3>1. queue' = queue
      BY <1>2, <2>1, <2>4 DEF EnqueueExpiring
    <3>2. QueuesOwned'
      BY <2>1, <3>1, OwnerFrame DEF OwnerInv
    <3> QED
      BY <2>2, <3>2 DEF OwnerInv
  <2> QED
    BY <2>3, <2>4
<1>3. CASE PurgeFlow
  <2>1. PICK f \in Flows : f = map[icur]
    BY <1>3 DEF IInv, MapType, InstType, WalkState, AtFlow, PurgeFlow
  <2>2. /\ ~InUse(f) /\ queue' = queue
        /\ digest' = [digest EXCEPT ![f] = NULL]
        /\ dpi' = [dpi EXCEPT ![f] = NULL]
    BY <1>3, <2>1 DEF PurgeFlow, Purgeable
  <2>3. QueuesOwned'
    <3> SUFFICES ASSUME NEW t \in DpiThreads, NEW i \in 1..Len(queue[t])
                 PROVE  dpi'[queue[t][i].flow] = t
      BY <2>2 DEF QueuesOwned
    <3>1. queue[t][i].flow \in Flows /\ queue[t][i].flow # f
      BY <2>2, QueuedFlow, UnusedFlow DEF IInv, Entry
    <3> QED
      BY <2>2, <3>1 DEF IInv, FlowType, OwnerInv, QueuesOwned
  <2>4. EntriesOwned'
    BY <1>1, <2>2, UnusedFlow
    DEF IInv, FlowType, DpiType, OwnerInv, EntriesOwned
  <2>5. CapturesKeyed'
    BY <1>1, <2>2, UnusedFlow
    DEF IInv, FlowType, CapType, OwnerInv, CapturesKeyed
  <2>6. AssignsFirst'
    BY <1>1, <2>2, UnusedFlow
    DEF IInv, FlowType, CapType, CaptureState, OwnerInv, AssignsFirst
  <2> QED
    BY <2>3, <2>4, <2>5, <2>6 DEF OwnerInv
<1>4. CASE UNCHANGED <<queue, dpi, digest>>
  BY <1>1, <1>4, OwnerFrame DEF OwnerInv
<1> QED
  BY <1>2, <1>3, <1>4
  DEF IpcUpdate, IpcTerminate, InstStep, JoinCaptureThreads, StartWalk,
      AcquireBucket, VisitFlow, MarkExpiring, FindExpired, KeepFlow,
      ReleaseBucket,
      AccountPurged, EndOfLoop, ExitInstance

\* When a flow's packets arrive at one capture thread (flow.Hash(tag) makes the
\* interface part of the digest, and a fan-out by hash sends a flow to one of
\* its threads), ProcessPacket's unprotected store of dpi_thread_id is
\* harmless: all entries of a flow, the last one that ExpireFlow queues
\* included, are with one detection thread, which alone writes ndpi_flow.
THEOREM OneDetectionThread ==
  ASSUME OneSource
  PROVE  Spec => []SingleDpiThread
<1>1. Init => OwnerInv
  BY ConstantsAssumption
  DEF Init, OwnerInv, QueuesOwned, EntriesOwned, CapturesKeyed, AssignsFirst
<1>2. IInv /\ OwnerInv /\ [Next]_vars => OwnerInv'
  <2> SUFFICES ASSUME IInv, OwnerInv, [Next]_vars
               PROVE  OwnerInv'
    OBVIOUS
  <2>1. CASE Finished \/ UNCHANGED vars
    BY <2>1, OwnerFrame
    DEF Finished, vars, flowVars, capVars, dpiVars, OwnerInv
  <2> QED
    BY <2>1, CaptureOwner, DetectionOwner, InstanceOwner DEF Next
<1>3. OwnerInv => SingleDpiThread
  <2> SUFFICES ASSUME OwnerInv, NEW f \in Flows, NEW t \in DpiThreads,
                      DpiHolds(t, f)
               PROVE  dpi[f] = t
    BY DEF SingleDpiThread
  <2>1. CASE Queued(t, f)
    BY <2>1 DEF Queued, OwnerInv, QueuesOwned
  <2>2. CASE dflow[t] = f
    BY <2>2, ConstantsAssumption DEF OwnerInv, EntriesOwned
  <2> QED
    BY <2>1, <2>2 DEF DpiHolds
<1>4. Spec => []IInv
  BY LifecycleInvariant, InvForms, PTL
<1> QED
  BY <1>1, <1>2, <1>3, <1>4, PTL DEF Spec

-----------------------------------------------------------------------------
(* Refinement of FlowTable                                                 *)

\* Only a flow the map holds is expired: a new object starts its life clean
ExpiredHomed == \A f \in expired : Homed(f)

\* The abstract table's variables and its step
Life == [d \in Digests |-> LifeOf(d)]
Held == {d \in Digests : map[d] # NULL /\ InUse(map[d])}
Doomed == {d \in Digests : ipc = "erase" /\ icur = d}
TableStep == [Table!TableNext]_(Table!tableVars)

\* Whether a flow is in use depends on the references only.
LEMMA UseFrame ==
  ASSUME UNCHANGED <<cflow, dflow, queue>>, NEW f
  PROVE  InUse(f)' <=> InUse(f)
  BY DEF InUse, CapHolds, DpiHolds, Queued

\* A homed flow is the one of its digest, and of no other.
LEMMA HomedOnce ==
  ASSUME IInv, NEW g \in Flows, Homed(g)
  PROVE  /\ digest[g] \in Digests /\ map[digest[g]] = g /\ g # NULL
         /\ \A d \in Digests \ {digest[g]} : map[d] # g
  BY ConstantsAssumption DEF IInv, FlowType, MapType, FlowsKeyed, Homed

\* What the map holds for a digest is its flow.
LEMMA MapHomed ==
  ASSUME IInv, NEW d \in Digests, map[d] # NULL
  PROVE  map[d] \in Flows /\ Homed(map[d]) /\ digest[map[d]] = d
  BY ConstantsAssumption DEF IInv, MapType, FlowsKeyed, Homed

\* Only the instance thread, in a visit that found a flow expired, dooms it.
LEMMA DoomedFrame ==
  UNCHANGED <<ipc, icur>> \/ (ipc # "erase" /\ ipc' # "erase")
    => Doomed' = Doomed
  BY DEF Doomed

\* A step that changes neither the map, nor who is expired, nor who is in use,
\* nor the visit of the walk is not seen in the abstract table.
LEMMA QuietStep ==
  ASSUME IInv, UNCHANGED <<map, expired>>, Doomed' = Doomed,
         \A f \in Flows : InUse(f)' <=> InUse(f)
  PROVE  TableStep
<1>1. Life' = Life
  BY DEF Life, LifeOf
<1>2. \A d \in Digests : map[d] # NULL => map[d] \in Flows
  BY DEF IInv, MapType
<1>3. Held' = Held
  BY <1>2 DEF Held
<1> QED
  BY <1>1, <1>3 DEF TableStep, Table!tableVars, Life, Held, Doomed

\* A step that takes or drops references to one flow holds it or lets it go.
LEMMA UseStep ==
  ASSUME IInv, UNCHANGED <<map, expired>>, Doomed' = Doomed,
         NEW g \in Flows, Homed(g), InUse(g) \/ digest[g] \notin Doomed,
         \A f \in Flows \ {g} : InUse(f)' <=> InUse(f)
  PROVE  TableStep
<1> DEFINE d == digest[g]
<1>1. /\ d \in Digests /\ map[d] = g /\ g # NULL
      /\ \A e \in Digests \ {d} : map[e] # g
  BY HomedOnce
<1>2. PICK k \in Digests : k = d
  BY <1>1
<1>3. Life' = Life /\ Life[k] # "absent"
  BY <1>1, <1>2 DEF Life, LifeOf
<1>4. \A e \in Digests : map[e] # NULL => map[e] \in Flows
  BY DEF IInv, MapType
<1>5. \A e \in Digests \ {k} : e \in Held' <=> e \in Held
  BY <1>1, <1>2, <1>4 DEF Held
<1>6. Held \subseteq Digests /\ Held' \subseteq Digests
  BY DEF Held
<1>7. CASE k \in Held'
  <2>1. Held' = Held \cup {k}
    BY <1>5, <1>6, <1>7
  <2>2. CASE k \in Held
    <3>1. Held' = Held
      BY <2>1, <2>2
    <3> QED
      BY <1>3, <3>1 DEF TableStep, Table!tableVars, Life, Held, Doomed
  <2>3. CASE k \notin Held
    <3>1. k \notin Doomed
      BY <1>1, <1>2, <2>3 DEF Held
    <3> QED
      BY <1>3, <2>1, <3>1
      DEF TableStep, Table!TableNext, Table!Hold, Life, Held, Doomed
  <2> QED
    BY <2>2, <2>3
<1>8. CASE k \notin Held'
  <2>1. Held' = Held \ {k}
    BY <1>5, <1>6, <1>8
  <2> QED
    BY <1>3, <2>1
    DEF TableStep, Table!TableNext, Table!LetGo, Life, Held, Doomed
<1> QED
  BY <1>7, <1>8

\* A flow of the map that expires does so in the table.
LEMMA ExpireStep ==
  ASSUME IInv, UNCHANGED <<map, cflow, dflow, queue>>, Doomed' = Doomed,
         NEW g \in Flows, Homed(g), expired' = expired \cup {g}
  PROVE  TableStep
<1>1. CASE g \in expired
  <2>1. expired' = expired
    BY <1>1
  <2> QED
    BY <2>1, UseFrame, QuietStep
<1>2. CASE g \notin expired
  <2>1. PICK k \in Digests : k = digest[g]
    BY HomedOnce
  <2>2. map[k] = g /\ g # NULL /\ \A e \in Digests \ {k} : map[e] # g
    BY <2>1, HomedOnce
  <2>3. Life[k] = "live" /\ Life' = [Life EXCEPT ![k] = "expired"]
    BY <1>2, <2>2 DEF Life, LifeOf
  <2>4. Held' = Held
    BY UseFrame DEF Held
  <2> QED
    BY <2>3, <2>4
    DEF TableStep, Table!TableNext, Table!Expire, Life, Held, Doomed
<1> QED
  BY <1>1, <1>2

\* A reset brings an expired flow back, in the hands of the capture thread.
LEMMA ReviveStep ==
  ASSUME IInv, UNCHANGED <<map, cflow, dflow, queue>>, Doomed' = Doomed,
         NEW g \in Flows, Homed(g), InUse(g), expired' = expired \ {g}
  PROVE  TableStep
<1>1. CASE g \notin expired
  <2>1. expired' = expired
    BY <1>1
  <2> QED
    BY <2>1, UseFrame, QuietStep
<1>2. CASE g \in expired
  <2>1. PICK k \in Digests : k = digest[g]
    BY HomedOnce
  <2>2. map[k] = g /\ g # NULL /\ \A e \in Digests \ {k} : map[e] # g
    BY <2>1, HomedOnce
  <2>3. Life[k] = "expired" /\ Life' = [Life EXCEPT ![k] = "live"]
    BY <1>2, <2>2 DEF Life, LifeOf
  <2>4. k \in Held /\ Held' = Held
    BY <2>2, UseFrame DEF Held
  <2> QED
    BY <2>3, <2>4
    DEF TableStep, Table!TableNext, Table!Revive, Life, Held, Doomed
<1> QED
  BY <1>1, <1>2

\* An insertion creates the digest's flow, live and held.
LEMMA CreateStep ==
  ASSUME IInv, ExpiredHomed, NEW c \in CaptureThreads, CapInsert(c)
  PROVE  TableStep
<1>1. PICK k \in Digests : k = ckey[c]
  BY DEF IInv, CapType, Locking, CapInsert
<1>2. /\ map[k] = NULL /\ cflow[c] = NULL
      /\ UNCHANGED <<expired, dflow, queue>>
  BY <1>1 DEF IInv, CaptureState, CapInsert, dpiVars
<1>3. PICK f \in Flows :
        /\ ~Mapped(f)
        /\ map' = [map EXCEPT ![k] = f]
        /\ cflow' = [cflow EXCEPT ![c] = f]
  BY <1>1, <1>2 DEF CapInsert
<1>4. f # NULL /\ f \notin expired
  BY <1>3, ConstantsAssumption DEF IInv, FlowType, ExpiredHomed, Homed, Mapped
<1>5. /\ map'[k] = f /\ \A e \in Digests \ {k} : map'[e] = map[e] /\ map[e] # f
  BY <1>3 DEF IInv, MapType, Mapped
<1>6. Life[k] = "absent" /\ Life' = [Life EXCEPT ![k] = "live"]
  BY <1>2, <1>4, <1>5 DEF Life, LifeOf
<1>7. InUse(f)'
  BY <1>3 DEF IInv, CapType, InUse, CapHolds
<1>8. \A h \in Flows \ {f} : InUse(h)' <=> InUse(h)
  <2>1. \A h \in Flows \ {f} : CapHolds(h)' <=> CapHolds(h)
    BY <1>2, <1>3, ConstantsAssumption DEF IInv, CapType, CapHolds
  <2> QED
    BY <1>2, <2>1 DEF InUse, DpiHolds, Queued
<1>9. \A e \in Digests : map[e] # NULL => map[e] \in Flows
  BY DEF IInv, MapType
<1>10. Held' = Held \cup {k}
  BY <1>4, <1>5, <1>7, <1>8, <1>9 DEF Held
<1>11. Doomed' = Doomed
  BY DoomedFrame DEF CapInsert, instVars
<1> QED
  BY <1>6, <1>10, <1>11
  DEF TableStep, Table!TableNext, Table!Create, Life, Held, Doomed

\* ProcessFlows finds a flow expired, and dooms it.
LEMMA FindStep ==
  ASSUME IInv, FindExpired
  PROVE  TableStep
<1>1. PICK k \in Digests : k = icur /\ map[k] # NULL
  BY DEF IInv, InstType, WalkState, AtFlow, FindExpired
<1>2. UNCHANGED <<map, expired, cflow, dflow, queue, icur>> /\ ipc = "purge"
  BY DEF FindExpired, mapVars, flowVars, capVars, dpiVars
<1>3. CASE map[k] \notin expired
  <2>1. ipc' = "visit"
    BY <1>1, <1>3 DEF FindExpired, InstGoto
  <2>2. Doomed' = Doomed
    BY <1>2, <2>1, DoomedFrame
  <2> QED
    BY <1>2, <2>2, UseFrame, QuietStep
<1>4. CASE map[k] \in expired
  <2>1. ipc' = "erase"
    BY <1>1, <1>4 DEF FindExpired, InstGoto
  <2>2. Doomed = {} /\ Doomed' = {k}
    BY <1>1, <1>2, <2>1 DEF Doomed
  <2>3. Life[k] = "expired" /\ Life' = Life
    BY <1>1, <1>2, <1>4 DEF Life, LifeOf
  <2>4. Held' = Held
    BY <1>2, UseFrame DEF Held
  <2> QED
    BY <2>2, <2>3, <2>4
    DEF TableStep, Table!TableNext, Table!Doom, Life, Held, Doomed
<1> QED
  BY <1>3, <1>4

\* ProcessFlows spares a flow in use.
LEMMA KeepStep ==
  ASSUME IInv, KeepFlow
  PROVE  TableStep
<1>1. PICK k \in Digests : k = icur /\ map[k] # NULL
  BY DEF IInv, InstType, WalkState, AtFlow, KeepFlow
<1>2. /\ UNCHANGED <<map, expired, cflow, dflow, queue, icur>>
      /\ ipc = "erase" /\ ipc' = "visit" /\ InUse(map[icur])
  BY DEF KeepFlow, Purgeable, InstGoto, mapVars, flowVars, capVars, dpiVars
<1>3. k \in Held /\ Held' = Held
  BY <1>1, <1>2, UseFrame DEF Held
<1>4. Life' = Life
  BY <1>2 DEF Life, LifeOf
<1>5. Doomed = {k} /\ Doomed' = {}
  BY <1>1, <1>2 DEF Doomed
<1> QED
  BY <1>3, <1>4, <1>5
  DEF TableStep, Table!TableNext, Table!Spare, Life, Held, Doomed

\* ProcessFlows purges a doomed flow that is not held.
LEMMA PurgeStep ==
  ASSUME IInv, PurgeFlow
  PROVE  TableStep
<1>1. PICK k \in Digests : k = icur /\ map[k] # NULL
  BY DEF IInv, InstType, WalkState, AtFlow, PurgeFlow
<1>2. PICK f \in Flows : f = map[k]
  BY <1>1, MapHomed
<1>3. /\ ~InUse(f) /\ ipc = "erase" /\ ipc' = "visit" /\ icur' = icur
      /\ map' = [map EXCEPT ![k] = NULL] /\ expired' = expired \ {f}
      /\ UNCHANGED <<cflow, dflow, queue>>
  BY <1>1, <1>2 DEF PurgeFlow, Purgeable, InstGoto, capVars, dpiVars
<1>4. /\ map'[k] = NULL
      /\ \A e \in Digests \ {k} : map'[e] = map[e] /\ map[e] # f
  <2>1. digest[f] = k /\ Homed(f)
    BY <1>1, <1>2, MapHomed
  <2> QED
    BY <1>3, <2>1, HomedOnce DEF IInv, MapType
<1>5. Life' = [Life EXCEPT ![k] = "absent"]
  <2>1. LifeOf(k)' = "absent"
    BY <1>1, <1>2, <1>3, <1>4 DEF LifeOf
  <2>2. ASSUME NEW e \in Digests \ {k}
        PROVE  LifeOf(e)' = LifeOf(e)
    BY <1>3, <1>4 DEF LifeOf
  <2> QED
    BY <2>1, <2>2 DEF Life
<1>6. k \notin Held /\ Held' = Held
  <2>1. k \notin Held /\ k \notin Held'
    BY <1>2, <1>3, <1>4 DEF Held
  <2>2. ASSUME NEW e \in Digests \ {k}
        PROVE  e \in Held' <=> e \in Held
    <3>1. PICK h : h = map[e] /\ h = map'[e]
      BY <1>4
    <3>2. InUse(h)' <=> InUse(h)
      BY <1>3, UseFrame
    <3> QED
      BY <3>1, <3>2 DEF Held
  <2>3. Held \subseteq Digests /\ Held' \subseteq Digests
    BY DEF Held
  <2> QED
    BY <2>1, <2>2, <2>3
<1>7. Doomed = {k} /\ Doomed' = {}
  BY <1>1, <1>3 DEF Doomed
<1> QED
  BY <1>5, <1>6, <1>7
  DEF TableStep, Table!TableNext, Table!Purge, Life, Held, Doomed

\* QueuePacket changes the references to no other flow.
LEMMA PushQueued ==
  ASSUME DpiType, NEW t \in DpiThreads, NEW g \in Flows, NEW p \in BOOLEAN,
         Push(t, g, p), NEW f \in Flows, f # g, NEW u \in DpiThreads
  PROVE  Queued(u, f)' <=> Queued(u, f)
<1>1. Queued(u, f) => Queued(u, f)'
  BY PushKeeps DEF Queued
<1>2. Queued(u, f)' => Queued(u, f)
  <2> SUFFICES ASSUME NEW i \in 1..Len(queue'[u]), queue'[u][i].flow = f
               PROVE  Queued(u, f)
    BY DEF Queued
  <2>1. i \in 1..Len(queue[u]) /\ queue'[u][i] = queue[u][i]
    BY PushedEntry
  <2> QED
    BY <2>1 DEF Queued
<1> QED
  BY <1>1, <1>2

\* Every step of ProcessPacket is a step of the abstract table, or none.
LEMMA CaptureTable ==
  ASSUME IInv, ExpiredHomed, NEW c \in CaptureThreads,
         (\E d \in Digests : CapLookup(c, d)) \/ CapStep(c) \/ CapEnd(c)
  PROVE  TableStep
<1> USE DEF flowVars, mapVars, dpiVars, instVars
<1>0. Doomed' = Doomed
  <2>1. UNCHANGED <<ipc, icur>>
    BY DEF CapStep, CapLookup, CapFound, CapDrop, CapAdmit, CapInsert,
           CapCount, CapUpdate, CapResetStats, CapResetDetection,
           CapResetExpired, CapResetExpiring, CapCheck, CapDone, CapAssign,
           CapEnqueue, CapEnd
  <2> QED
    BY <2>1, DoomedFrame
<1>1. ASSUME NEW v \in Flows \cup {NULL}, cflow' = [cflow EXCEPT ![c] = v],
             UNCHANGED <<dflow, queue>>, NEW f \in Flows,
             cflow[c] # f, v # f
      PROVE  InUse(f)' <=> InUse(f)
  <2>1. CapHolds(f)' <=> CapHolds(f)
    BY <1>1 DEF IInv, CapType, CapHolds
  <2> QED
    BY <1>1, <2>1 DEF InUse, DpiHolds, Queued
<1>2. ASSUME NEW d \in Digests, CapLookup(c, d)
      PROVE  TableStep
  <2>1. /\ cflow[c] = NULL /\ cflow' = [cflow EXCEPT ![c] = map[d]]
        /\ UNCHANGED <<map, expired, dflow, queue>>
    BY <1>2 DEF IInv, CaptureState, CapLookup, Transition
  <2>2. map[d] \in Flows \cup {NULL}
    BY DEF IInv, MapType
  <2>3. \A f \in Flows \ {map[d]} : InUse(f)' <=> InUse(f)
    BY <1>1, <2>1, <2>2, ConstantsAssumption
  <2>4. CASE map[d] = NULL
    BY <1>0, <2>1, <2>3, <2>4, QuietStep, ConstantsAssumption
  <2>5. CASE map[d] # NULL
    <3>1. d \notin Doomed
      <4>1. bucket_lock[HashToBucket[d]] = NULL
        BY <1>2 DEF CapLookup
      <4> QED
        BY <4>1, ConstantsAssumption
        DEF Doomed, IInv, Locking, WalkState, AtFlow
    <3>2. PICK g \in Flows : g = map[d] /\ Homed(g) /\ digest[g] = d
      BY <2>5, MapHomed
    <3> QED
      BY <1>0, <2>1, <2>3, <3>1, <3>2, UseStep
  <2> QED
    BY <2>4, <2>5
<1>3. ASSUME CapDrop(c)
      PROVE  TableStep
  <2>1. /\ cflow[c] = NULL /\ cflow' = [cflow EXCEPT ![c] = NULL]
        /\ UNCHANGED <<map, expired, dflow, queue>>
    BY <1>3 DEF CapDrop, CapReturn
  <2> QED
    BY <1>0, <1>1, <2>1, QuietStep, ConstantsAssumption
<1>4. ASSUME CapDone(c)
      PROVE  TableStep
  <2>1. PICK g \in Flows : g = cflow[c] /\ Homed(g)
    BY <1>4 DEF IInv, CapType, CaptureState, CapRefs, CapDone, CapReturn,
                Transition
  <2>2. cflow' = [cflow EXCEPT ![c] = NULL]
        /\ UNCHANGED <<map, expired, dflow, queue>>
    BY <1>4 DEF CapDone, CapReturn
  <2>3. \A f \in Flows \ {g} : InUse(f)' <=> InUse(f)
    BY <1>1, <2>1, <2>2, ConstantsAssumption
  <2>4. InUse(g)
    BY <2>1 DEF InUse, CapHolds
  <2> QED
    BY <1>0, <2>1, <2>2, <2>3, <2>4, UseStep
<1>5. ASSUME CapEnqueue(c)
      PROVE  TableStep
  <2>1. PICK g \in Flows : g = cflow[c] /\ Homed(g) /\ dpi[g] \in DpiThreads
    BY <1>5 DEF IInv, CapType, FlowType, CaptureState, CapRefs, CapEnqueue,
                CapReturn, Transition
  <2>2. /\ cflow' = [cflow EXCEPT ![c] = NULL]
        /\ Push(dpi[g], g, TRUE)
        /\ UNCHANGED <<map, expired, dflow>>
    BY <1>5, <2>1 DEF CapEnqueue, CapReturn
  <2>3. ASSUME NEW f \in Flows, f # g
        PROVE  InUse(f)' <=> InUse(f)
    <3>1. CapHolds(f)' <=> CapHolds(f)
      BY <2>1, <2>2, <2>3, ConstantsAssumption DEF IInv, CapType, CapHolds
    <3>2. \A u \in DpiThreads : Queued(u, f)' <=> Queued(u, f)
      BY <2>1, <2>2, <2>3, PushQueued DEF IInv
    <3> QED
      BY <2>2, <3>1, <3>2 DEF InUse, DpiHolds
  <2>4. InUse(g)
    BY <2>1 DEF InUse, CapHolds
  <2> QED
    BY <1>0, <2>1, <2>2, <2>3, <2>4, UseStep
<1>6. ASSUME CapResetExpired(c)
      PROVE  TableStep
  <2>1. PICK g \in Flows : g = cflow[c] /\ Homed(g)
    BY <1>6 DEF IInv, CapType, CaptureState, CapRefs, CapResetExpired,
                Transition
  <2>2. InUse(g)
    BY <2>1 DEF InUse, CapHolds
  <2>3. UNCHANGED <<map, cflow, dflow, queue>> /\ expired' = expired \ {g}
    BY <1>6, <2>1 DEF CapResetExpired
  <2> QED
    BY <1>0, <2>1, <2>2, <2>3, ReviveStep
<1>7. CASE UNCHANGED <<map, expired, cflow, dflow, queue>>
  BY <1>0, <1>7, UseFrame, QuietStep
<1> QED
  BY <1>2, <1>3, <1>4, <1>5, <1>6, <1>7, CreateStep
  DEF CapStep, CapFound, CapAdmit, CapCount, CapUpdate, CapResetStats,
      CapResetDetection, CapResetExpiring, CapCheck, CapAssign, CapEnd

\* Every step of a detection thread is a step of the abstract table, or none.
LEMMA DetectionTable ==
  ASSUME IInv, NEW t \in DpiThreads, DpiStep(t)
  PROVE  TableStep
<1> USE DEF flowVars, mapVars, capVars, dpiVars, instVars
<1>0. Doomed' = Doomed
  <2>1. UNCHANGED <<ipc, icur>>
    BY DEF DpiStep, DpiPop, DpiExamine, DpiProcess, DpiConclude, DpiFinish,
           DpiNullDereference, DpiExpire, DpiRelease
  <2> QED
    BY <2>1, DoomedFrame
<1>1. CASE DpiPop(t)
  <2>1. UNCHANGED <<map, expired, cflow>> /\ dflow[t] = NULL
    BY <1>1 DEF IInv, DetectionState, DpiPop, DpiTransition
  <2>2. ASSUME NEW f \in Flows, NEW u \in DpiThreads
        PROVE  DpiHolds(u, f)' <=> DpiHolds(u, f)
    <3>1. ASSUME DpiHolds(u, f)
          PROVE  DpiHolds(u, f)'
      <4>1. CASE dflow[u] = f
        BY <1>1, <2>1, <4>1, PopKeeps, ConstantsAssumption DEF IInv, DpiHolds
      <4>2. ASSUME NEW i \in 1..Len(queue[u]), queue[u][i].flow = f
            PROVE  DpiHolds(u, f)'
        BY <1>1, <4>2, PopKeeps DEF IInv, DpiHolds, Queued
      <4> QED
        BY <3>1, <4>1, <4>2 DEF DpiHolds, Queued
    <3>2. ASSUME DpiHolds(u, f)'
          PROVE  DpiHolds(u, f)
      <4>1. CASE dflow'[u] = f
        BY <1>1, <4>1, PopKeeps DEF IInv, DpiHolds, Queued
      <4>2. ASSUME NEW j \in 1..Len(queue'[u]), queue'[u][j].flow = f
            PROVE  DpiHolds(u, f)
        BY <1>1, <4>2, PopKeeps DEF IInv, DpiHolds, Queued
      <4> QED
        BY <3>2, <4>1, <4>2 DEF DpiHolds, Queued
    <3> QED
      BY <3>1, <3>2
  <2>3. \A f \in Flows : InUse(f)' <=> InUse(f)
    BY <2>1, <2>2 DEF InUse, CapHolds
  <2> QED
    BY <1>0, <2>1, <2>3, QuietStep
<1>2. CASE DpiRelease(t)
  <2>1. PICK g \in Flows : g = dflow[t] /\ Homed(g)
    BY <1>2 DEF IInv, DpiType, DetectionState, DpiRefs, DpiRelease,
                DpiTransition
  <2>2. /\ dflow' = [dflow EXCEPT ![t] = NULL]
        /\ UNCHANGED <<map, expired, cflow, queue>>
    BY <1>2 DEF DpiRelease
  <2>3. ASSUME NEW f \in Flows \ {g}
        PROVE  InUse(f)' <=> InUse(f)
    <3>1. \A u \in DpiThreads : dflow'[u] = f <=> dflow[u] = f
      BY <2>1, <2>2, ConstantsAssumption DEF IInv, DpiType
    <3> QED
      BY <2>2, <3>1 DEF InUse, CapHolds, DpiHolds, Queued
  <2>4. InUse(g)
    BY <2>1 DEF InUse, DpiHolds
  <2> QED
    BY <1>0, <2>1, <2>2, <2>3, <2>4, UseStep
<1>3. CASE DpiExpire(t)
  <2>1. PICK g \in Flows : g = dflow[t] /\ Homed(g)
    BY <1>3 DEF IInv, DpiType, DetectionState, DpiRefs, DpiExpire,
                DpiTransition
  <2>2. UNCHANGED <<map, cflow, dflow, queue>>
    BY <1>3 DEF DpiExpire
  <2>3. expired' = expired \cup {g} \/ expired' = expired
    BY <1>3, <2>1 DEF DpiExpire
  <2> QED
    BY <1>0, <2>1, <2>2, <2>3, ExpireStep, UseFrame, QuietStep
<1>4. CASE UNCHANGED <<map, expired, cflow, dflow, queue>>
  BY <1>0, <1>4, UseFrame, QuietStep
<1> QED
  BY <1>1, <1>2, <1>3, <1>4
  DEF DpiStep, DpiExamine, DpiProcess, DpiConclude, DpiFinish,
      DpiNullDereference

\* Every step of the instance thread is a step of the abstract table, or none.
LEMMA InstanceTable ==
  ASSUME IInv, IpcUpdate \/ IpcTerminate \/ InstStep
  PROVE  TableStep
<1> USE DEF flowVars, mapVars, capVars, dpiVars, instVars
<1>1. ASSUME NEW d \in Digests, VisitFlow(d)
      PROVE  TableStep
  <2>1. PICK g \in Flows : g = map[d] /\ Homed(g)
    BY <1>1, MapHomed DEF IInv, WalkState, InBucket, VisitFlow
  <2>2. UNCHANGED <<map, cflow, dflow, queue>>
    BY <1>1 DEF VisitFlow
  <2>3. expired' = expired \cup {g} \/ expired' = expired
    BY <1>1, <2>1 DEF VisitFlow
  <2>4. Doomed' = Doomed
    BY <1>1, DoomedFrame DEF VisitFlow, AfterExpire, InstGoto
  <2> QED
    BY <2>1, <2>2, <2>3, <2>4, ExpireStep, UseFrame, QuietStep
<1>2. CASE EnqueueExpiring
  <2>1. PICK g \in Flows : g = map[icur] /\ Homed(g)
    <3>1. icur \in Digests /\ map[icur] # NULL
      BY <1>2 DEF IInv, InstType, WalkState, AtFlow, EnqueueExpiring
    <3> QED
      BY <3>1, MapHomed
  <2>2. UNCHANGED <<map, cflow, dflow>>
    BY <1>2 DEF EnqueueExpiring
  <2>5. ipc = "enqueue" /\ Doomed' = Doomed
    BY <1>2, DoomedFrame DEF EnqueueExpiring, AfterExpire, InstGoto
  <2>3. CASE dpi[g] # NULL
    <3>1. dpi[g] \in DpiThreads /\ Push(dpi[g], g, FALSE) /\ expired' = expired
      BY <1>2, <2>1, <2>3 DEF IInv, FlowType, EnqueueExpiring
    <3>2. ASSUME NEW f \in Flows, f # g
          PROVE  InUse(f)' <=> InUse(f)
      <4>1. \A u \in DpiThreads : Queued(u, f)' <=> Queued(u, f)
        BY <3>1, <3>2, PushQueued DEF IInv
      <4> QED
        BY <2>2, <4>1 DEF InUse, CapHolds, DpiHolds
    <3> QED
      BY <2>1, <2>2, <2>5, <3>1, <3>2, UseStep DEF Doomed
  <2>4. CASE dpi[g] = NULL
    <3>1. expired' = expired \cup {g} /\ queue' = queue
      BY <1>2, <2>1, <2>4 DEF EnqueueExpiring
    <3> QED
      BY <2>1, <2>2, <2>5, <3>1, ExpireStep
  <2> QED
    BY <2>3, <2>4
<1>3. CASE /\ UNCHANGED <<map, expired, cflow, dflow, queue>>
           /\ ipc # "erase" /\ ipc' # "erase"
  BY <1>3, DoomedFrame, UseFrame, QuietStep
<1>4. CASE IpcUpdate \/ IpcTerminate \/ JoinCaptureThreads \/ StartWalk
           \/ AcquireBucket \/ MarkExpiring \/ ReleaseBucket
           \/ AccountPurged \/ EndOfLoop \/ ExitInstance
  <2>1. UNCHANGED <<map, expired, cflow, dflow, queue>>
    BY <1>4 DEF IpcUpdate, IpcTerminate, JoinCaptureThreads, StartWalk,
                AcquireBucket, MarkExpiring, ReleaseBucket, AccountPurged,
                EndOfLoop, ExitInstance
  <2>2. ipc # "erase" /\ ipc' # "erase"
    BY <1>4 DEF IpcUpdate, IpcTerminate, JoinCaptureThreads, StartWalk,
                AcquireBucket, MarkExpiring, ReleaseBucket, AccountPurged,
                EndOfLoop, ExitInstance, AfterExpire, InstGoto
  <2> QED
    BY <1>3, <2>1, <2>2
<1> QED
  BY <1>1, <1>2, <1>4, FindStep, KeepStep, PurgeStep DEF InstStep

\* Only flows that the map holds expire, and only a purge takes them from it.
LEMMA ExpiredStaysHomed ==
  ASSUME IInv, ExpiredHomed, [Next]_vars
  PROVE  ExpiredHomed'
<1> USE DEF flowVars, mapVars, capVars, dpiVars, instVars
<1>1. ASSUME UNCHANGED <<map, digest>>, NEW g, Homed(g),
             expired' \subseteq (expired \cup {g})
      PROVE  ExpiredHomed'
  BY <1>1 DEF ExpiredHomed, Homed
<1>2. ASSUME UNCHANGED <<map, digest>>, expired' \subseteq expired
      PROVE  ExpiredHomed'
  BY <1>2 DEF ExpiredHomed, Homed
<1>3. ASSUME NEW c \in CaptureThreads, CapInsert(c)
      PROVE  ExpiredHomed'
  <2>1. PICK k \in Digests : k = ckey[c] /\ map[k] = NULL /\ expired' = expired
    BY <1>3 DEF IInv, CapType, CaptureState, Locking, CapInsert
  <2>2. PICK f \in Flows :
          /\ ~Mapped(f)
          /\ map' = [map EXCEPT ![k] = f]
          /\ digest' = [digest EXCEPT ![f] = k]
    BY <1>3, <2>1 DEF CapInsert
  <2>3. f \notin expired
    BY <2>2 DEF IInv, FlowType, ExpiredHomed, Homed, Mapped
  <2>4. ASSUME NEW g \in expired
        PROVE  Homed(g)'
    BY <2>1, <2>2, <2>3, ConstantsAssumption
    DEF IInv, FlowType, MapType, ExpiredHomed, Homed
  <2> QED
    BY <2>1, <2>4 DEF ExpiredHomed
<1>4. ASSUME NEW c \in CaptureThreads,
             (\E d \in Digests : CapLookup(c, d)) \/ CapStep(c) \/ CapEnd(c)
      PROVE  ExpiredHomed'
  BY <1>2, <1>3, <1>4
  DEF CapStep, CapLookup, CapFound, CapDrop, CapAdmit, CapCount, CapUpdate,
      CapResetStats, CapResetDetection, CapResetExpired, CapResetExpiring,
      CapCheck, CapDone, CapAssign, CapEnqueue, CapEnd
<1>5. ASSUME NEW t \in DpiThreads, DpiStep(t)
      PROVE  ExpiredHomed'
  <2>1. CASE DpiExpire(t)
    <3>1. Homed(dflow[t])
      BY <2>1 DEF IInv, DpiType, DetectionState, DpiRefs, DpiExpire,
                  DpiTransition
    <3>2. /\ UNCHANGED <<map, digest>>
          /\ expired' \subseteq (expired \cup {dflow[t]})
      BY <2>1 DEF DpiExpire
    <3> QED
      BY <1>1, <3>1, <3>2
  <2> QED
    BY <1>2, <1>5, <2>1
    DEF DpiStep, DpiPop, DpiExamine, DpiProcess, DpiConclude, DpiFinish,
        DpiNullDereference, DpiRelease
<1>6. CASE EnqueueExpiring \/ \E d \in Digests : VisitFlow(d)
  <2>1. PICK d \in Digests :
          /\ map[d] # NULL /\ UNCHANGED <<map, digest>>
          /\ expired' \subseteq (expired \cup {map[d]})
    BY <1>6 DEF IInv, InstType, WalkState, InBucket, AtFlow, EnqueueExpiring,
                VisitFlow
  <2> QED
    BY <1>1, <2>1, MapHomed
<1>7. CASE PurgeFlow
  <2>1. PICK k \in Digests : k = icur /\ map[k] # NULL
    BY <1>7 DEF IInv, InstType, WalkState, AtFlow, PurgeFlow
  <2>2. PICK f \in Flows : f = map[k] /\ digest[f] = k
    BY <2>1, MapHomed
  <2>3. /\ map' = [map EXCEPT ![k] = NULL] /\ expired' = expired \ {f}
        /\ digest' = [digest EXCEPT ![f] = NULL]
    BY <1>7, <2>1, <2>2 DEF PurgeFlow
  <2>4. ASSUME NEW g \in expired \ {f}
        PROVE  Homed(g)'
    BY <2>2, <2>3 DEF IInv, FlowType, MapType, ExpiredHomed, Homed
  <2> QED
    BY <2>3, <2>4 DEF ExpiredHomed
<1>8. CASE IpcUpdate \/ IpcTerminate \/ InstStep
  BY <1>2, <1>6, <1>7, <1>8
  DEF IpcUpdate, IpcTerminate, InstStep, JoinCaptureThreads, StartWalk,
      AcquireBucket, MarkExpiring, FindExpired, KeepFlow, ReleaseBucket,
      AccountPurged,
      EndOfLoop, ExitInstance
<1>9. CASE Finished \/ UNCHANGED vars
  BY <1>2, <1>9 DEF Finished, vars
<1> QED
  BY <1>4, <1>5, <1>8, <1>9 DEF Next

\* The capture, detection and instance threads together implement the abstract
\* flow table, whatever their number and however their steps interleave: seen
\* through the map, the expired flags and the references, every step creates,
\* holds, lets go, expires, revives, dooms, spares or purges the flow of one
\* digest, or does nothing; a flow is destroyed only when it is out of use and
\* was found expired, and gets no new user in between.
THEOREM ImplementsTable == Spec => ImplementsFlowTable
<1>1. Init => Table!TableInit
  <2> SUFFICES ASSUME Init PROVE Table!TableInit
    OBVIOUS
  <2>1. Life = [d \in Digests |-> "absent"] /\ Held = {} /\ Doomed = {}
    BY DEF Init, Life, LifeOf, Held, Doomed
  <2> QED
    BY <2>1 DEF Table!TableInit, Life, Held, Doomed
<1>2. Init => ExpiredHomed
  BY DEF Init, ExpiredHomed
<1>3. IInv /\ ExpiredHomed /\ [Next]_vars => ExpiredHomed'
  BY ExpiredStaysHomed
<1>4. IInv /\ ExpiredHomed /\ [Next]_vars
        => [Table!TableNext]_(Table!tableVars)
  <2> SUFFICES ASSUME IInv, ExpiredHomed, [Next]_vars
               PROVE  TableStep
    BY DEF TableStep
  <2>1. CASE Finished \/ UNCHANGED vars
    BY <2>1, UseFrame, DoomedFrame, QuietStep
    DEF Finished, vars, mapVars, flowVars, capVars, dpiVars, instVars
  <2> QED
    BY <2>1, CaptureTable, DetectionTable, InstanceTable DEF Next
<1>5. Spec => []IInv
  BY LifecycleInvariant, InvForms, PTL
<1> QED
  BY <1>1, <1>2, <1>3, <1>4, <1>5, PTL
  DEF Spec, ImplementsFlowTable, Table!TableSpec
==============================================================================
