--------------------------- MODULE FlowLifecycle ---------------------------
(***************************************************************************)
(* The life of a flow object (ndFlow) in the Netify agent, as it is shared *)
(* by three kinds of threads:                                              *)
(*                                                                         *)
(*  - capture threads (ndCaptureThread::ProcessPacket) find the flow of a  *)
(*    packet in the flow map (ndFlowMap) or create it, update it, and hand *)
(*    the packet to a detection thread;                                    *)
(*  - detection (DPI) threads (ndDetectionThread::ProcessPacketQueue) pop  *)
(*    packets, run the protocol detection and complete or expire the flow; *)
(*  - the instance thread (ndInstance::Entry) walks the flow map on every  *)
(*    update (ProcessFlows) and on shutdown (DestroyCaptureThreads), starts*)
(*    the expiry of idle flows (ExpireFlow) and purges expired ones.       *)
(*                                                                         *)
(* A step of the model is a piece of code that touches shared state once:  *)
(* a load or store of a flow's atomic flags, a change of a locked map      *)
(* bucket or of a locked packet queue.  Packet contents, addresses, byte   *)
(* counters and the result of the nDPI library are abstracted to the       *)
(* nondeterministic choices the control flow depends on.                   *)
(***************************************************************************)
EXTENDS Integers, Sequences, FiniteSets

CONSTANTS
  Digests,          \* flow digests (digest_lower), the keys of the flow map
  Flows,            \* ndFlow objects; one is free again once it is destroyed
  CaptureThreads,   \* capture threads of all interfaces
  NumInterfaces,    \* threads.size(): an interface may have several threads
  Sees,             \* the digests each capture thread's packets can have
  NumDpi,           \* thread_detection.size()
  NumBuckets,       \* fm_buckets
  HashToBucket,     \* ndFlowMap::HashToBucket on Digests
  MaxDetectionPkts, \* max_detection_pkts
  PktCounterSize,   \* 2^8: stats.detection_packets is an atomic<uint8_t>
  MaxFlows,         \* max_flows; 0 is "no limit"
  AutoFlowExpiry,   \* auto_flow_expiry
  UseDhc,           \* the DNS hint cache is enabled
  Signals,          \* whether the agent may be told to terminate
  SourcesEnd,       \* whether a capture source may end by itself (a capture
                    \* file, a failing interface)
  MaxQueue,         \* bound: packets are received while the queues are shorter
  NULL              \* no flow, no thread, no lock owner

DpiThreads == 0..(NumDpi - 1)
Buckets == 0..(NumBuckets - 1)
Instance == "instance"

ASSUME ConstantsAssumption ==
  /\ NumDpi \in Nat \ {0}
  /\ NumBuckets \in Nat \ {0}
  /\ NumInterfaces \in Nat \ {0}
  /\ MaxDetectionPkts \in Nat /\ PktCounterSize \in Nat \ {0}
  /\ MaxFlows \in Nat
  /\ MaxQueue \in Nat \ {0}
  /\ AutoFlowExpiry \in BOOLEAN /\ UseDhc \in BOOLEAN
  /\ Signals \in BOOLEAN /\ SourcesEnd \in BOOLEAN
  /\ HashToBucket \in [Digests -> Buckets]
  /\ Sees \in [CaptureThreads -> SUBSET Digests]
  /\ IsFiniteSet(Digests) /\ IsFiniteSet(CaptureThreads)
  /\ NULL \notin Digests \cup Flows \cup CaptureThreads \cup DpiThreads
  /\ Instance \notin CaptureThreads \cup {NULL}

VARIABLES
  \* The flow map and the counter of it that all threads share
  map,          \* digest -> flow, the contents of all buckets
  bucket_lock,  \* bucket -> the thread that holds its mutex
  nflows,       \* status.flows
  \* The flow objects
  digest,       \* flow -> the digest it was created for
  complete,     \* flows with flags.detection_complete
  init,         \* flows with flags.detection_init
  expiring,     \* flows with flags.expiring
  expired,      \* flows with flags.expired
  idle,         \* flows whose ts_last_seen is older than their TTL by the
                \* clock the last ProcessFlows read
  known,        \* flows with detected_protocol # ND_PROTO_UNKNOWN
  ndpi,         \* flows with ndpi_flow # NULL
  pkts,         \* flow -> stats.detection_packets
  dpi,          \* flow -> dpi_thread_id, NULL for -1
  \* Capture threads
  cpc,          \* where each is in ProcessPacket
  ckey,         \* the digest of the packet being processed
  cflow,        \* nf: the shared_ptr to its flow
  crr,          \* dpi_thread_id: the next DPI thread in turn
  stop,         \* Terminate() was called on the capture threads
  \* Detection threads
  queue,        \* pkt_queue of each
  dpc,          \* where each is in ProcessPacketQueue
  dflow,        \* entry->flow of the popped entry
  dpkt,         \* entry->packet # nullptr
  \* The instance thread
  ipc,          \* where it is
  ijobs,        \* what it has left to do before it waits for IPC again
  ib,           \* the bucket of the walk
  ivisit,       \* the digests of the locked bucket not visited yet
  icur,         \* the digest being visited
  purged,       \* status.flows_purged
  terminate,    \* ShouldTerminate()
  force,        \* terminate_force
  \* The process
  crashed       \* a null ndpi_flow was dereferenced

flowVars == <<digest, complete, init, expiring, expired, idle, known, ndpi,
              pkts, dpi>>
mapVars  == <<map, bucket_lock, nflows>>
capVars  == <<cpc, ckey, cflow, crr, stop>>
dpiVars  == <<dpc, dflow, dpkt>>
instVars == <<ipc, ijobs, ib, ivisit, icur, purged, terminate, force>>
vars == <<mapVars, flowVars, capVars, queue, dpiVars, instVars, crashed>>

-----------------------------------------------------------------------------
(* Types                                                                   *)

Entry == [flow : Flows, packet : BOOLEAN]

CapPc == {"idle", "locked", "insert", "count", "update", "reset_stats",
          "reset_detection", "reset_expired", "reset_expiring", "check",
          "assign", "enqueue", "ended", "threw"}
DpiPc == {"idle", "examine", "process", "conclude", "finish", "expire",
          "release"}
InstPc == {"wait", "run", "acquire", "visit", "mark", "enqueue", "purge",
           "erase", "account", "exited"}
Jobs == {"join", "destroy", "update", "exit"}

MapType ==
  /\ map \in [Digests -> Flows \cup {NULL}]
  /\ bucket_lock \in [Buckets -> CaptureThreads \cup {Instance, NULL}]
  /\ nflows \in Int

FlowType ==
  /\ digest \in [Flows -> Digests \cup {NULL}]
  /\ complete \in SUBSET Flows /\ init \in SUBSET Flows
  /\ expiring \in SUBSET Flows /\ expired \in SUBSET Flows
  /\ idle \in SUBSET Flows /\ known \in SUBSET Flows
  /\ ndpi \in SUBSET Flows
  /\ pkts \in [Flows -> 0..(PktCounterSize - 1)]
  /\ dpi \in [Flows -> DpiThreads \cup {NULL}]

CapType ==
  /\ cpc \in [CaptureThreads -> CapPc]
  /\ ckey \in [CaptureThreads -> Digests \cup {NULL}]
  /\ cflow \in [CaptureThreads -> Flows \cup {NULL}]
  /\ crr \in [CaptureThreads -> DpiThreads]
  /\ stop \in BOOLEAN

DpiType ==
  /\ queue \in [DpiThreads -> Seq(Entry)]
  /\ dpc \in [DpiThreads -> DpiPc]
  /\ dflow \in [DpiThreads -> Flows \cup {NULL}]
  /\ dpkt \in [DpiThreads -> BOOLEAN]

InstType ==
  /\ ipc \in InstPc
  /\ ijobs \in Seq(Jobs)
  /\ ib \in Nat
  /\ ivisit \in SUBSET Digests
  /\ icur \in Digests \cup {NULL}
  /\ purged \in Nat
  /\ terminate \in BOOLEAN /\ force \in BOOLEAN /\ crashed \in BOOLEAN

TypeOK == MapType /\ FlowType /\ CapType /\ DpiType /\ InstType

-----------------------------------------------------------------------------
(* shared_ptr<ndFlow> references other than the flow map's own             *)

Queued(t, f) == \E i \in 1..Len(queue[t]) : queue[t][i].flow = f

CapHolds(f) == \E c \in CaptureThreads : cflow[c] = f
DpiHolds(t, f) == dflow[t] = f \/ Queued(t, f)

\* use_count() > 1 for a flow of the map
InUse(f) == CapHolds(f) \/ \E t \in DpiThreads : DpiHolds(t, f)

Mapped(f) == \E d \in Digests : map[d] = f

-----------------------------------------------------------------------------
(* Capture threads: ndCaptureThread::ProcessPacket, from the flow look-up  *)

Transition(c, from, to) ==
  /\ ~crashed
  /\ cpc[c] = from /\ cpc' = [cpc EXCEPT ![c] = to]

Unlock(b) == bucket_lock' = [bucket_lock EXCEPT ![b] = NULL]

\* The packet is done with: back to the capture loop, nf goes out of scope
CapReturn(c, from) ==
  /\ Transition(c, from, "idle")
  /\ ckey' = [ckey EXCEPT ![c] = NULL]
  /\ cflow' = [cflow EXCEPT ![c] = NULL]

\* A packet with digest d arrives; Lookup(flow_digest, true) returns with
\* the bucket locked
CapLookup(c, d) ==
  LET b == HashToBucket[d] IN
  /\ ~stop
  /\ d \in Sees[c]
  /\ \A t \in DpiThreads : Len(queue[t]) < MaxQueue
  /\ bucket_lock[b] = NULL
  /\ Transition(c, "idle", "locked")
  /\ bucket_lock' = [bucket_lock EXCEPT ![b] = c]
  /\ ckey' = [ckey EXCEPT ![c] = d]
  /\ cflow' = [cflow EXCEPT ![c] = map[d]]
  /\ UNCHANGED <<map, nflows, flowVars, crr, stop, queue, dpiVars, instVars,
                 crashed>>

\* "Flow exists in map."
CapFound(c) ==
  /\ cflow[c] # NULL
  /\ Transition(c, "locked", "update")
  /\ Unlock(HashToBucket[ckey[c]])
  /\ UNCHANGED <<map, nflows, flowVars, ckey, cflow, crr, stop, queue,
                 dpiVars, instVars, crashed>>

\* The max_flows limit
AtFlowLimit == MaxFlows > 0 /\ nflows + 1 > MaxFlows

\* A new flow over the limit, or a new TCP flow that does not start with
\* SYN+ACK under syn_scan_protection, is dropped
CapDrop(c) ==
  /\ CapReturn(c, "locked")
  /\ cflow[c] = NULL
  /\ Unlock(HashToBucket[ckey[c]])
  /\ UNCHANGED <<map, nflows, flowVars, crr, stop, queue, dpiVars, instVars,
                 crashed>>

\* Mutant: the bucket is released between the look-up and the insertion
CapAdmitUnlocked(c) ==
  /\ cflow[c] = NULL
  /\ ~AtFlowLimit
  /\ Transition(c, "locked", "insert")
  /\ Unlock(HashToBucket[ckey[c]])
  /\ UNCHANGED <<map, nflows, flowVars, ckey, cflow, crr, stop, queue, dpiVars,
                 instVars, crashed>>

CapAdmit(c) ==
  /\ cflow[c] = NULL
  /\ ~AtFlowLimit
  /\ Transition(c, "locked", "insert")
  /\ UNCHANGED <<mapVars, flowVars, ckey, cflow, crr, stop, queue, dpiVars,
                 instVars, crashed>>

\* make_shared<ndFlow>(flow), then InsertUnlocked.  The copied template has
\* ts_last_seen = 0: until the first packet sets it the flow looks idle.
\* Otherwise, "Flow exists in map!  Impossible!"
CapInsert(c) ==
  /\ cpc[c] = "insert"
  /\ IF map[ckey[c]] = NULL
     THEN /\ Transition(c, "insert", "count")
          /\ \E f \in Flows :
               /\ ~Mapped(f) /\ ~InUse(f)
               /\ map' = [map EXCEPT ![ckey[c]] = f]
               /\ cflow' = [cflow EXCEPT ![c] = f]
               /\ digest' = [digest EXCEPT ![f] = ckey[c]]
               /\ idle' = idle \cup {f}
          /\ UNCHANGED bucket_lock
     ELSE /\ Transition(c, "insert", "threw")
          /\ Unlock(HashToBucket[ckey[c]])
          /\ UNCHANGED <<map, cflow, digest, idle>>
  /\ UNCHANGED <<nflows, complete, init, expiring, expired, known, ndpi, pkts,
                 dpi, ckey, crr, stop, queue, dpiVars, instVars, crashed>>

\* status.flows++, origin, EVENT_FLOW_NEW, then the bucket is released
CapCount(c) ==
  /\ Transition(c, "count", "update")
  /\ nflows' = nflows + 1
  /\ Unlock(HashToBucket[ckey[c]])
  /\ UNCHANGED <<map, flowVars, ckey, cflow, crr, stop, queue, dpiVars,
                 instVars, crashed>>

\* Statistics and ts_last_seen = ts_pkt.  With the DNS hint cache, a DNS query
\* on a flow whose detection is complete resets the flow.
CapUpdate(c) ==
  /\ \/ Transition(c, "update", "check")
     \/ /\ UseDhc /\ cflow[c] \in complete
        /\ Transition(c, "update", "reset_stats")
  /\ idle' = idle \ {cflow[c]}
  /\ UNCHANGED <<mapVars, digest, complete, init, expiring, expired, known,
                 ndpi, pkts, dpi, ckey, cflow, crr, stop, queue, dpiVars,
                 instVars, crashed>>

\* ndFlow::Reset(true) stores one atomic after the other:
\* stats.detection_packets ...
CapResetStats(c) ==
  /\ Transition(c, "reset_stats", "reset_detection")
  /\ pkts' = [pkts EXCEPT ![cflow[c]] = 0]
  /\ UNCHANGED <<mapVars, digest, complete, init, expiring, expired, idle,
                 known, ndpi, dpi, ckey, cflow, crr, stop, queue, dpiVars,
                 instVars, crashed>>

\* ... detection_complete, detection_init ...
CapResetDetection(c) ==
  /\ Transition(c, "reset_detection", "reset_expired")
  /\ complete' = complete \ {cflow[c]}
  /\ init' = init \ {cflow[c]}
  /\ UNCHANGED <<mapVars, digest, expiring, expired, idle, known, ndpi, pkts,
                 dpi, ckey, cflow, crr, stop, queue, dpiVars, instVars,
                 crashed>>

\* ... expired ...
CapResetExpired(c) ==
  /\ Transition(c, "reset_expired", "reset_expiring")
  /\ expired' = expired \ {cflow[c]}
  /\ UNCHANGED <<mapVars, digest, complete, init, expiring, idle, known, ndpi,
                 pkts, dpi, ckey, cflow, crr, stop, queue, dpiVars, instVars,
                 crashed>>

\* ... and expiring; then nf->stats = flow.stats clears the counters again
CapResetExpiring(c) ==
  /\ Transition(c, "reset_expiring", "check")
  /\ expiring' = expiring \ {cflow[c]}
  /\ pkts' = [pkts EXCEPT ![cflow[c]] = 0]
  /\ UNCHANGED <<mapVars, digest, complete, init, expired, idle, known, ndpi,
                 dpi, ckey, cflow, crr, stop, queue, dpiVars, instVars,
                 crashed>>

\* Does detection still want packets of this flow?
WantsPackets(f) ==
  f \notin complete /\ f \notin expired /\ pkts[f] <= MaxDetectionPkts

\* Mutant: every packet is given to the next DPI thread
CapCheckReassign(c) ==
  /\ cpc[c] = "check" /\ WantsPackets(cflow[c])
  /\ Transition(c, "check", "assign")
  /\ UNCHANGED <<mapVars, flowVars, ckey, cflow, crr, stop, queue, dpiVars,
                 instVars, crashed>>

CapCheck(c) ==
  /\ cpc[c] = "check" /\ WantsPackets(cflow[c])
  /\ Transition(c, "check", IF dpi[cflow[c]] = NULL THEN "assign"
                                                    ELSE "enqueue")
  /\ UNCHANGED <<mapVars, flowVars, ckey, cflow, crr, stop, queue, dpiVars,
                 instVars, crashed>>

CapDone(c) ==
  /\ CapReturn(c, "check")
  /\ ~WantsPackets(cflow[c])
  /\ UNCHANGED <<mapVars, flowVars, crr, stop, queue, dpiVars, instVars,
                 crashed>>

NextDpi(id) == IF id + 1 = NumDpi THEN 0 ELSE id + 1

\* nf->dpi_thread_id is chosen in turn, by an unprotected store
CapAssign(c) ==
  /\ Transition(c, "assign", "enqueue")
  /\ dpi' = [dpi EXCEPT ![cflow[c]] = crr[c]]
  /\ crr' = [crr EXCEPT ![c] = NextDpi(@)]
  /\ UNCHANGED <<mapVars, digest, complete, init, expiring, expired, idle,
                 known, ndpi, pkts, ckey, cflow, stop, queue, dpiVars,
                 instVars, crashed>>

\* Mutant: entries without a packet are not queued
PushPackets(t, f, packet) ==
  IF packet
  THEN queue' = [queue EXCEPT ![t] = Append(@, [flow |-> f, packet |-> TRUE])]
  ELSE UNCHANGED queue

\* ndDetectionThread::QueuePacket
Push(t, f, packet) ==
  queue' = [queue EXCEPT ![t] = Append(@, [flow |-> f, packet |-> packet])]

CapEnqueue(c) ==
  /\ CapReturn(c, "enqueue")
  /\ Push(dpi[cflow[c]], cflow[c], TRUE)
  /\ UNCHANGED <<mapVars, flowVars, crr, stop, dpiVars, instVars, crashed>>

\* The thread ends between two packets: Terminate() was called on it, or
\* its source ended
CapEnd(c) ==
  /\ stop \/ SourcesEnd
  /\ Transition(c, "idle", "ended")
  /\ UNCHANGED <<mapVars, flowVars, ckey, cflow, crr, stop, queue, dpiVars,
                 instVars, crashed>>

CapStep(c) ==
  \/ CapFound(c) \/ CapDrop(c) \/ CapAdmit(c) \/ CapInsert(c)
  \/ CapCount(c) \/ CapUpdate(c)
  \/ CapResetStats(c) \/ CapResetDetection(c) \/ CapResetExpired(c)
  \/ CapResetExpiring(c) \/ CapCheck(c) \/ CapDone(c) \/ CapAssign(c)
  \/ CapEnqueue(c)

-----------------------------------------------------------------------------
(* Detection threads: ndDetectionThread::ProcessPacketQueue                *)

DpiTransition(t, from, to) ==
  /\ ~crashed
  /\ dpc[t] = from /\ dpc' = [dpc EXCEPT ![t] = to]

DpiPop(t) ==
  /\ queue[t] # <<>>
  /\ DpiTransition(t, "idle", "examine")
  /\ dflow' = [dflow EXCEPT ![t] = Head(queue[t]).flow]
  /\ dpkt' = [dpkt EXCEPT ![t] = Head(queue[t]).packet]
  /\ queue' = [queue EXCEPT ![t] = Tail(@)]
  /\ UNCHANGED <<mapVars, flowVars, capVars, instVars, crashed>>

\* The first condition: is the entry to be examined?
Examinable(f) ==
  \/ pkts[f] = 0
  \/ /\ f \notin complete
     /\ f \notin expiring
     /\ pkts[f] < MaxDetectionPkts

DpiExamine(t) ==
  /\ dpc[t] = "examine"
  /\ DpiTransition(t, "examine",
                   IF Examinable(dflow[t]) THEN "process" ELSE "conclude")
  /\ UNCHANGED <<mapVars, flowVars, capVars, queue, dflow, dpkt, instVars,
                 crashed>>

\* ProcessPacket: the engine's state is allocated on demand; once the
\* protocol is known ProcessFlow sets detection_init, and an initialised
\* flow without extra packets (or matched by a soft dissector) is complete
ProcessPacket(f) ==
  /\ ndpi' = ndpi \cup {f}
  /\ known' \in {known, known \cup {f}}
  /\ init' = IF f \in known' THEN init \cup {f} ELSE init
  /\ complete' \in {complete} \cup
                   (IF f \in init' THEN {complete \cup {f}} ELSE {})

\* detection_packets++, ProcessPacket
DpiProcess(t) ==
  /\ DpiTransition(t, "process", "conclude")
  /\ pkts' = [pkts EXCEPT ![dflow[t]] = (@ + 1) % PktCounterSize]
  /\ ProcessPacket(dflow[t])
  /\ UNCHANGED <<mapVars, digest, expiring, expired, idle, dpi, capVars, queue,
                 dflow, dpkt, instVars, crashed>>

\* Mutant: an expiring flow is not concluded
ConclusiveLimit(f) == pkts[f] = MaxDetectionPkts

\* The second condition: is it time to conclude?
Conclusive(f) ==
  \/ pkts[f] = MaxDetectionPkts
  \/ f \in expiring /\ f \notin expired

DpiConclude(t) ==
  /\ dpc[t] = "conclude"
  /\ DpiTransition(t, "conclude",
                   IF Conclusive(dflow[t]) THEN "finish" ELSE "release")
  /\ UNCHANGED <<mapVars, flowVars, capVars, queue, dflow, dpkt, instVars,
                 crashed>>

\* ProcessPacket (again) if there is a packet, ProcessFlow, a guess if the
\* protocol is still unknown, SetDetectionComplete
DpiFinish(t) ==
  LET f == dflow[t] IN
  /\ DpiTransition(t, "finish", "expire")
  /\ dpkt[t] \/ f \in ndpi
  /\ ndpi' = ndpi \cup {f}
  /\ known' \in {known, known \cup {f}}
  /\ init' = init \cup {f}
  /\ complete' = complete \cup {f}
  /\ UNCHANGED <<mapVars, digest, expiring, expired, idle, pkts, dpi, capVars,
                 queue, dflow, dpkt, instVars, crashed>>

\* ProcessFlow without a packet reads ndpi_flow->host_server_name: with
\* ndpi_flow null the process dies
DpiNullDereference(t) ==
  /\ ~crashed /\ dpc[t] = "finish"
  /\ ~dpkt[t] /\ dflow[t] \notin ndpi
  /\ crashed' = TRUE
  /\ UNCHANGED <<mapVars, flowVars, capVars, queue, dpiVars, instVars>>

\* A flow that was expiring has expired
DpiExpire(t) ==
  LET f == dflow[t] IN
  /\ DpiTransition(t, "expire", "release")
  /\ expired' = IF f \in expiring THEN expired \cup {f} ELSE expired
  /\ expiring' = expiring \ {f}
  /\ UNCHANGED <<mapVars, digest, complete, init, idle, known, ndpi, pkts,
                 dpi, capVars, queue, dflow, dpkt, instVars, crashed>>

\* A complete flow frees its engine state; the entry is deleted
DpiRelease(t) ==
  /\ DpiTransition(t, "release", "idle")
  /\ ndpi' = IF dflow[t] \in complete THEN ndpi \ {dflow[t]} ELSE ndpi
  /\ dflow' = [dflow EXCEPT ![t] = NULL]
  /\ dpkt' = [dpkt EXCEPT ![t] = FALSE]
  /\ UNCHANGED <<mapVars, digest, complete, init, expiring, expired, idle,
                 known, pkts, dpi, capVars, queue, instVars, crashed>>

DpiStep(t) ==
  \/ DpiPop(t) \/ DpiExamine(t) \/ DpiProcess(t) \/ DpiConclude(t)
  \/ DpiFinish(t) \/ DpiNullDereference(t) \/ DpiExpire(t) \/ DpiRelease(t)

-----------------------------------------------------------------------------
(* The instance thread: ndInstance::Entry and what it calls                *)

InstGoto(pc) == ~crashed /\ ipc' = pc

Ended(c) == cpc[c] \in {"ended", "threw"}

\* ReapCaptureThreads takes one off the number of interfaces for every thread
\* that has ended (the difference is unsigned, and 0 only if they are equal)
NoneRemaining ==
  Cardinality({c \in CaptureThreads : Ended(c)}) = NumInterfaces

\* ndIPC_UPDATE: ReapCaptureThreads, then ProcessUpdate.  When no capture
\* thread seems to remain all are destroyed, their flows expired if
\* auto_flow_expiry is set, and the agent terminates.
IpcUpdate ==
  LET last == ~terminate /\ NoneRemaining IN
  /\ ipc = "wait"
  /\ InstGoto("run")
  /\ terminate' = (terminate \/ last)
  /\ ijobs' = CASE ~last -> <<"update">>
                [] last /\ AutoFlowExpiry -> <<"join", "destroy", "update">>
                [] OTHER -> <<"join", "update">>
  /\ stop' = (stop \/ last)
  /\ UNCHANGED <<mapVars, flowVars, cpc, ckey, cflow, crr, queue, dpiVars, ib,
                 ivisit, icur, purged, force, crashed>>

\* ndIPC_TERMINATE: the first destroys the capture threads and expires all
\* flows, a second one forces the exit
IpcTerminate ==
  /\ Signals
  /\ ipc = "wait"
  /\ InstGoto("run")
  /\ terminate' = TRUE
  /\ force' = terminate
  /\ ijobs' = IF terminate THEN <<>> ELSE <<"join", "destroy">>
  /\ stop' = TRUE
  /\ UNCHANGED <<mapVars, flowVars, cpc, ckey, cflow, crr, queue, dpiVars, ib,
                 ivisit, icur, purged, crashed>>

\* DestroyCaptureThreads: every thread is joined
JoinCaptureThreads ==
  /\ ipc = "run" /\ ijobs # <<>> /\ Head(ijobs) = "join"
  /\ \A c \in CaptureThreads : Ended(c)
  /\ InstGoto("run")
  /\ ijobs' = Tail(ijobs)
  /\ UNCHANGED <<mapVars, flowVars, capVars, queue, dpiVars, ib, ivisit, icur,
                 purged, terminate, force, crashed>>

\* A walk over all buckets begins: ProcessFlows ("update"), which reads the
\* clock once, finds any of the flows idle by it and clears its counters, or
\* the forced expiry of DestroyCaptureThreads ("destroy")
StartWalk ==
  /\ ipc = "run" /\ ijobs # <<>> /\ Head(ijobs) \in {"update", "destroy"}
  /\ InstGoto("acquire")
  /\ ib' = 0
  /\ \/ /\ Head(ijobs) = "update"
        /\ purged' = 0
        /\ \E S \in SUBSET {f \in Flows : Mapped(f)} : idle' = idle \cup S
     \/ /\ Head(ijobs) = "destroy"
        /\ UNCHANGED <<purged, idle>>
  /\ UNCHANGED <<mapVars, digest, complete, init, expiring, expired, known,
                 ndpi, pkts, dpi, capVars, queue, dpiVars, ijobs, ivisit, icur,
                 terminate, force, crashed>>

AcquireBucket ==
  /\ ipc = "acquire"
  /\ bucket_lock[ib] = NULL
  /\ InstGoto("visit")
  /\ bucket_lock' = [bucket_lock EXCEPT ![ib] = Instance]
  /\ ivisit' = {d \in Digests : HashToBucket[d] = ib /\ map[d] # NULL}
  /\ UNCHANGED <<map, nflows, flowVars, capVars, queue, dpiVars, ijobs, ib,
                 icur, purged, terminate, force, crashed>>

Updating == Head(ijobs) = "update"

\* Where ExpireFlow returns to: ProcessFlows goes on to purge, the forced
\* expiry to the next flow
AfterExpire == InstGoto(IF Updating THEN "purge" ELSE "visit")

\* Is the visited flow to be expired?
MustExpire(f) ==
  /\ f \notin expired
  /\ IF Updating THEN f \in idle ELSE f \notin expiring

\* ExpireFlow loads detection_complete: a complete flow expires at once
VisitFlow(d) ==
  LET f == map[d] IN
  /\ ipc = "visit" /\ d \in ivisit
  /\ ivisit' = ivisit \ {d}
  /\ icur' = d
  /\ \/ /\ ~MustExpire(f)
        /\ AfterExpire
        /\ UNCHANGED expired
     \/ /\ MustExpire(f) /\ f \in complete
        /\ AfterExpire
        /\ expired' = expired \cup {f}
     \/ /\ MustExpire(f) /\ f \notin complete
        /\ InstGoto("mark")
        /\ UNCHANGED expired
  /\ UNCHANGED <<mapVars, digest, complete, init, expiring, idle, known, ndpi,
                 pkts, dpi, capVars, queue, dpiVars, ijobs, ib, purged,
                 terminate, force, crashed>>

\* An incomplete flow that is not expiring yet is marked ...
MarkExpiring ==
  LET f == map[icur] IN
  /\ ipc = "mark"
  /\ \/ f \in expiring /\ AfterExpire
     \/ f \notin expiring /\ InstGoto("enqueue")
  /\ expiring' = expiring \cup {f}
  /\ UNCHANGED <<mapVars, digest, complete, init, expired, idle, known, ndpi,
                 pkts, dpi, capVars, queue, dpiVars, ijobs, ib, ivisit, icur,
                 purged, terminate, force, crashed>>

\* ... and its DPI thread told with an entry that has no packet; without a
\* DPI thread it expires at once
EnqueueExpiring ==
  LET f == map[icur] IN
  /\ ipc = "enqueue"
  /\ \/ /\ dpi[f] # NULL
        /\ Push(dpi[f], f, FALSE)
        /\ UNCHANGED expired
     \/ /\ dpi[f] = NULL
        /\ expired' = expired \cup {f}
        /\ UNCHANGED queue
  /\ AfterExpire
  /\ UNCHANGED <<mapVars, digest, complete, init, expiring, idle, known, ndpi,
                 pkts, dpi, capVars, dpiVars, ijobs, ib, ivisit, icur, purged,
                 terminate, force, crashed>>

\* ProcessFlows loads flags.expired once more ...
FindExpired ==
  /\ ipc = "purge"
  /\ InstGoto(IF map[icur] \in expired THEN "erase" ELSE "visit")
  /\ UNCHANGED <<mapVars, flowVars, capVars, queue, dpiVars, ijobs, ib, ivisit,
                 icur, purged, terminate, force, crashed>>

\* Mutant: a flow is erased when no capture thread uses it
PurgeableQueued(f) == ~CapHolds(f)

\* ... and then use_count(): does the map hold the last reference?  The lock
\* of the bucket lets nobody get a new one, but whoever had one when expired
\* was loaded may have reset the flow before letting go of it.
Purgeable(f) == ~InUse(f)

\* The flow is erased from the map, which destroys it
PurgeFlow ==
  LET f == map[icur] IN
  /\ ipc = "erase" /\ Purgeable(f)
  /\ InstGoto("visit")
  /\ map' = [map EXCEPT ![icur] = NULL]
  /\ purged' = purged + 1
  /\ digest' = [digest EXCEPT ![f] = NULL]
  /\ complete' = complete \ {f} /\ init' = init \ {f}
  /\ expiring' = expiring \ {f} /\ expired' = expired \ {f}
  /\ idle' = idle \ {f} /\ known' = known \ {f} /\ ndpi' = ndpi \ {f}
  /\ pkts' = [pkts EXCEPT ![f] = 0] /\ dpi' = [dpi EXCEPT ![f] = NULL]
  /\ UNCHANGED <<bucket_lock, nflows, capVars, queue, dpiVars, ijobs, ib,
                 ivisit, icur, terminate, force, crashed>>

\* An expired flow in use is left to a later walk
KeepFlow ==
  /\ ipc = "erase" /\ ~Purgeable(map[icur])
  /\ InstGoto("visit")
  /\ UNCHANGED <<mapVars, flowVars, capVars, queue, dpiVars, ijobs, ib, ivisit,
                 icur, purged, terminate, force, crashed>>

ReleaseBucket ==
  /\ ipc = "visit" /\ ivisit = {}
  /\ Unlock(ib)
  /\ ib' = ib + 1
  /\ icur' = NULL
  /\ \/ /\ ib + 1 < NumBuckets
        /\ InstGoto("acquire") /\ UNCHANGED ijobs
     \/ /\ ib + 1 = NumBuckets /\ Updating
        /\ InstGoto("account") /\ UNCHANGED ijobs
     \/ /\ ib + 1 = NumBuckets /\ ~Updating
        /\ InstGoto("run") /\ ijobs' = Tail(ijobs)
  /\ UNCHANGED <<map, nflows, flowVars, capVars, queue, dpiVars, ivisit,
                 purged, terminate, force, crashed>>

\* Mutant: what was purged is not taken off
AccountNothing ==
  /\ ipc = "account"
  /\ InstGoto("run")
  /\ ijobs' = Tail(ijobs)
  /\ UNCHANGED <<mapVars, flowVars, capVars, queue, dpiVars, ib, ivisit, icur,
                 purged, terminate, force, crashed>>

\* status.flows -= status.flows_purged, after the last bucket is released
AccountPurged ==
  /\ ipc = "account"
  /\ InstGoto("run")
  /\ nflows' = nflows - purged
  /\ ijobs' = Tail(ijobs)
  /\ UNCHANGED <<map, bucket_lock, flowVars, capVars, queue, dpiVars, ib,
                 ivisit, icur, purged, terminate, force, crashed>>

\* The end of the IPC loop's body: leave it when forced to, or when told to
\* terminate and no flow is left; then the capture threads are destroyed and
\* a final update is processed
EndOfLoop ==
  LET leave == force \/ (terminate /\ nflows = 0) IN
  /\ ipc = "run" /\ ijobs = <<>>
  /\ InstGoto(IF leave THEN "run" ELSE "wait")
  /\ ijobs' = IF leave THEN <<"join", "update", "exit">> ELSE <<>>
  /\ stop' = (stop \/ leave)
  /\ UNCHANGED <<mapVars, flowVars, cpc, ckey, cflow, crr, queue, dpiVars, ib,
                 ivisit, icur, purged, terminate, force, crashed>>

ExitInstance ==
  /\ ipc = "run" /\ ijobs # <<>> /\ Head(ijobs) = "exit"
  /\ InstGoto("exited")
  /\ ijobs' = <<>>
  /\ UNCHANGED <<mapVars, flowVars, capVars, queue, dpiVars, ib, ivisit, icur,
                 purged, terminate, force, crashed>>

InstStep ==
  \/ JoinCaptureThreads \/ StartWalk \/ AcquireBucket
  \/ (\E d \in Digests : VisitFlow(d))
  \/ MarkExpiring \/ EnqueueExpiring \/ FindExpired \/ PurgeFlow \/ KeepFlow
  \/ ReleaseBucket \/ AccountPurged \/ EndOfLoop \/ ExitInstance

-----------------------------------------------------------------------------
\* The agent has exited, or died: nothing is left to happen
Finished ==
  /\ crashed \/ (ipc = "exited" /\ \A t \in DpiThreads : queue[t] = <<>>)
  /\ UNCHANGED vars

Init ==
  /\ map = [d \in Digests |-> NULL]
  /\ bucket_lock = [b \in Buckets |-> NULL]
  /\ nflows = 0
  /\ digest = [f \in Flows |-> NULL]
  /\ complete = {} /\ init = {} /\ expiring = {} /\ expired = {}
  /\ idle = {} /\ known = {} /\ ndpi = {}
  /\ pkts = [f \in Flows |-> 0]
  /\ dpi = [f \in Flows |-> NULL]
  /\ cpc = [c \in CaptureThreads |-> "idle"]
  /\ ckey = [c \in CaptureThreads |-> NULL]
  /\ cflow = [c \in CaptureThreads |-> NULL]
  /\ crr \in [CaptureThreads -> DpiThreads]
  /\ stop = FALSE
  /\ queue = [t \in DpiThreads |-> <<>>]
  /\ dpc = [t \in DpiThreads |-> "idle"]
  /\ dflow = [t \in DpiThreads |-> NULL]
  /\ dpkt = [t \in DpiThreads |-> FALSE]
  /\ ipc = "wait" /\ ijobs = <<>> /\ ib = 0 /\ ivisit = {} /\ icur = NULL
  /\ purged = 0
  /\ terminate = FALSE /\ force = FALSE /\ crashed = FALSE

Next ==
  \/ \E c \in CaptureThreads :
       \/ \E d \in Digests : CapLookup(c, d)
       \/ CapStep(c)
       \/ CapEnd(c)
  \/ \E t \in DpiThreads : DpiStep(t)
  \/ IpcUpdate \/ IpcTerminate \/ InstStep
  \/ Finished

Spec == Init /\ [][Next]_vars

\* Every thread that can run does, sooner or later; the timer posts
\* ndIPC_UPDATE again and again; and once nothing is captured any more, time
\* passes until every flow has been idle for its TTL.  No source is assumed
\* to end by itself and no signal to arrive.
Fairness ==
  /\ \A c \in CaptureThreads :
       WF_vars(CapStep(c)) /\ WF_vars(stop /\ CapEnd(c))
  /\ \A t \in DpiThreads : WF_vars(DpiStep(t))
  /\ WF_vars(InstStep)
  /\ WF_vars(IpcUpdate)
  /\ SF_vars(/\ StartWalk
             /\ \A c \in CaptureThreads : Ended(c)
             /\ \A f \in Flows : Mapped(f) => f \in idle')

FairSpec == Spec /\ Fairness

-----------------------------------------------------------------------------
(* Safety                                                                  *)

\* "Fixed crashes on purge by refactoring flow expiration and purge logic."
\* (RELEASE-4.2.0.md): no expired flow brings the process down.
NoNullDereference == ~crashed

\* Every flow a capture thread, a packet queue or a detection thread still
\* refers to is the one the flow map holds under its digest.  So the
\* use_count() test of ProcessFlows never lets a flow in use be destroyed or
\* replaced, and no two ndFlow objects of one digest are ever updated.
ReferencedIsMapped ==
  \A f \in Flows : InUse(f) => digest[f] # NULL /\ map[digest[f]] = f

\* "Flow exists in map!  Impossible!" (ProcessPacket): the bucket stays
\* locked from Lookup to InsertUnlocked, so the insertion never fails.
InsertNeverFails == \A c \in CaptureThreads : cpc[c] # "threw"

\* The bucket mutexes exclude: a bucket a capture thread works on, or the
\* instance thread walks, is locked by that thread.
Locking ==
  /\ \A c \in CaptureThreads : cpc[c] \in {"locked", "insert", "count"} =>
       /\ ckey[c] # NULL
       /\ bucket_lock[HashToBucket[ckey[c]]] = c
  /\ ipc \in {"visit", "mark", "enqueue", "purge", "erase"} =>
       /\ ib \in Buckets
       /\ bucket_lock[ib] = Instance

Walking == ipc \in {"acquire", "visit", "mark", "enqueue", "purge", "erase",
                   "account"}
InBucket == ipc \in {"visit", "mark", "enqueue", "purge", "erase"}
AtFlow == ipc \in {"mark", "enqueue", "purge", "erase"}

\* What a capture thread knows where it is in ProcessPacket: what it looked up
\* is still what the map holds while it has the bucket locked.
CaptureState ==
  \A c \in CaptureThreads :
    /\ cpc[c] \in {"idle", "ended"} => cflow[c] = NULL
    /\ cpc[c] = "locked" => cflow[c] = map[ckey[c]]
    /\ cpc[c] = "insert" => cflow[c] = NULL /\ map[ckey[c]] = NULL
    /\ cpc[c] = "threw" => cflow[c] = NULL
    /\ cpc[c] \notin {"idle", "locked", "insert", "ended", "threw"} =>
         ckey[c] # NULL /\ cflow[c] # NULL
    /\ cpc[c] = "enqueue" => dpi[cflow[c]] # NULL

DetectionState == \A t \in DpiThreads : (dpc[t] = "idle") = (dflow[t] = NULL)

\* What the instance thread knows during a walk: every flow it has yet to
\* visit in the locked bucket is still there.
WalkState ==
  /\ Walking => ijobs # <<>> /\ Head(ijobs) \in {"update", "destroy"}
  /\ ipc \in {"purge", "erase", "account"} => Head(ijobs) = "update"
  /\ ipc = "acquire" => ib \in Buckets
  /\ InBucket =>
       \A d \in ivisit : HashToBucket[d] = ib /\ map[d] # NULL
  /\ AtFlow =>
       /\ icur # NULL /\ HashToBucket[icur] = ib /\ map[icur] # NULL
       /\ icur \notin ivisit

\* A flow of the map is there under its own digest, and so only once
FlowsKeyed == \A d \in Digests : map[d] # NULL => digest[map[d]] = d

\* The inductive invariant behind the properties of the flow map
LifecycleInv ==
  /\ TypeOK /\ Locking /\ CaptureState /\ DetectionState /\ WalkState
  /\ FlowsKeyed /\ ReferencedIsMapped

\* The instance thread is in the walk of ProcessFlows and has not yet taken
\* what it purged from status.flows
Uncounted ==
  IF Walking /\ Head(ijobs) = "update" THEN purged ELSE 0

\* status.flows counts the flow map, up to flows inserted and not counted yet
\* and flows purged in the walk that is still going on.  The exit condition
\* of ndInstance::Entry (status.flows == 0) and the max_flows limit rely
\* on it.
FlowsCounted ==
  nflows = Cardinality({d \in Digests : map[d] # NULL})
           - Cardinality({c \in CaptureThreads : cpc[c] = "count"})
           + Uncounted

\* max_flows is tested and counted in two steps, under the lock of one bucket
\* only: it can be exceeded, by at most one flow per further capture thread.
FlowLimit ==
  MaxFlows > 0 => nflows < MaxFlows + Cardinality(CaptureThreads)

\* A flow marked expiring is on its way to expired: the instance thread is
\* about to queue its last entry, or that entry is queued or being worked on,
\* or a capture thread is resetting the flow.  ExpireFlow does nothing for a
\* flow already marked, so a lost entry would keep the flow for ever.
ExpiryPending ==
  \A f \in expiring \ expired :
    \/ ipc = "enqueue" /\ map[icur] = f
    \/ \E t \in DpiThreads :
         \/ \E i \in 1..Len(queue[t]) :
              queue[t][i].flow = f /\ ~queue[t][i].packet
         \/ dflow[t] = f /\ dpc[t] # "release"
    \/ \E c \in CaptureThreads :
         cflow[c] = f /\ cpc[c] \in {"reset_detection", "reset_expired",
                                    "reset_expiring"}

\* A flow's entries are all with one detection thread: ndpi_flow and the other
\* fields ProcessPacket writes without a lock have one writer.
SingleDpiThread ==
  \A f \in Flows : \A t, u \in DpiThreads :
    DpiHolds(t, f) /\ DpiHolds(u, f) => t = u

-----------------------------------------------------------------------------
(* Termination                                                             *)

\* "Exiting, no remaining capture threads." (ReapCaptureThreads): unless it is
\* told to, the agent terminates only when every capture thread has ended.
ExitsWithoutSources ==
  [][terminate' /\ ~terminate => \A c \in CaptureThreads : Ended(c)]_vars

\* Once it is told to terminate, or its last source has ended, the agent gets
\* every flow expired and purged and leaves ndInstance::Entry: the exit
\* waits for status.flows == 0, which takes the detection threads' part in
\* the expiry, the instance thread's walks and exact counting.
ShutdownCompletes == terminate ~> (ipc = "exited" \/ crashed)

\* ExpireFlow only ever marks a flow once and leaves the rest to a detection
\* thread: the mark is always followed by the expiry of the flow, or taken
\* back by a reset.
ExpiryCompletes ==
  \A f \in Flows :
    f \in expiring ~> (f \in expired \/ f \notin expiring \/ crashed)
-----------------------------------------------------------------------------
(* Refinement                                                              *)

LifeOf(d) == IF map[d] = NULL THEN "absent"
             ELSE IF map[d] \in expired THEN "expired" ELSE "live"

Table ==
  INSTANCE FlowTable WITH
    life <- [d \in Digests |-> LifeOf(d)],
    held <- {d \in Digests : map[d] # NULL /\ InUse(map[d])},
    doomed <- {d \in Digests : ipc = "erase" /\ icur = d}

\* The three kinds of threads together implement the abstract flow table: seen
\* from outside, a digest's flow is created, expires, may be revived by a DNS
\* reset, and is purged by ProcessFlows only when nobody uses it and it was
\* found expired in the same visit, since when nobody new has got hold of it;
\* never does one object replace another.
ImplementsFlowTable == Table!TableSpec
=============================================================================
