---------------------------- MODULE PacketCapture ----------------------------
(***************************************************************************)
(* The way of a packet from the kernel to its flow, on one interface: the  *)
(* back ends (nd-capture-tpv3.cpp, nd-capture-nfq.cpp, nd-capture-pcap.cpp)*)
(* which copy packets, ProcessPacket in nd-capture.cpp, which dissects     *)
(* them and finds the flow, and the packet statistics, which the capture   *)
(* threads count and the instance thread collects at every update          *)
(* (ProcessUpdate in nd-instance.cpp).                                     *)
(***************************************************************************)
EXTENDS Integers, Sequences, FiniteSets

CONSTANTS
  Threads,     \* capture threads of the interface (fan-out, queues)
  Traces,      \* capture type -> the sequences of packets that may arrive
  RingBlocks,  \* rb_blocks
  BlockSize,   \* packets that fit in a block of the ring
  SocketSize,  \* packets that fit in the buffer of a socket
  NULL

CaptureTypes == {"pcap", "offline", "tpv3", "nfq"}

\* "beyond" is how many lengths of its headers reach beyond what was
\* captured: each is counted as a discard, and the dissection goes on.
\* "reject" names the layer whose tests end the dissection; "silent" is an
\* encapsulation of DLT_NULL that is not known, which is not even counted.
Port == 0..65535
Packet == [src : Nat, dst : Nat, sport : Port, dport : Port,
           proto : {"tcp", "udp", "icmp"}, flags : {"", "syn", "synack"},
           vlan : Nat, beyond : Nat, filtered : BOOLEAN,
           reject : {"", "silent", "link", "net"}]

\* The digests of flows
Key == [device : Threads \cup {"interface"}, vlan : Nat,
        proto : {"tcp", "udp", "icmp"}, lower : Nat \X Nat,
        upper : Nat \X Nat]

ASSUME CaptureAssumption ==
  /\ Threads # {} /\ IsFiniteSet(Threads)
  /\ DOMAIN Traces = CaptureTypes
  /\ \A c \in CaptureTypes : \A tr \in Traces[c] : tr \in Seq(Packet)
  /\ RingBlocks \in Nat \ {0} /\ BlockSize \in Nat \ {0}
  /\ SocketSize \in Nat \ {0}
  /\ NULL \notin Threads \cup {"update"} \cup Key /\ "update" \notin Threads

VARIABLES
  type,        \* capture_type of the interface
  \* The kernel
  trace,       \* the packets that arrive; a packet's place in it is its name
  arrived,     \* how many have arrived
  lost,        \* those that found no room
  ring,        \* the packets in each block of a TPACKET_V3 ring
  status,      \* block_status: whether "kernel" or "user" owns the block
  kblock,      \* the block the kernel fills
  sock,        \* packets waiting at a socket or in a file
  drops,       \* tp_drops, ps_drop
  overrun,     \* whether the next recvfrom reports ENOBUFS
  \* The capture threads
  pc,
  lock,        \* holder of the thread's mutex
  it_block,    \* the next block to look at
  block,       \* the block being copied
  copied,      \* packets of it that have been looked at
  pkt_queue,
  reg,         \* counters read and not written back yet
  stats,
  dropped,     \* overruns an NFQUEUE thread has counted
  pcs_last,    \* ps_drop as of the last update
  vlan_id,     \* of the thread's flow template
  flows,       \* digest -> origin
  log,         \* history: the packets processed
  \* The instance thread
  upc,
  todo,        \* threads this update has not asked yet
  asked,       \* the thread it is asking
  pkt_stats,   \* of the interface
  pkt_stats_global

kernelVars == <<trace, arrived, lost, ring, status, kblock, sock, drops,
                overrun>>
copyVars == <<it_block, block, copied, pkt_queue, reg>>
flowVars == <<vlan_id, flows, log>>
updateVars == <<upc, todo, asked, pkt_stats, pkt_stats_global>>
vars == <<type, kernelVars, pc, lock, copyVars, stats, dropped, pcs_last,
          flowVars, updateVars>>

Blocks == 0..RingBlocks - 1

-----------------------------------------------------------------------------
\* The number a little-endian machine sees in the two bytes of a port
Wire(port) == (port % 256) * 256 + port \div 256

\* Whether the sender becomes the lower end.  For equal addresses the ports
\* decide, compared as they came off the wire.
SenderLower(p) ==
  \/ p.src < p.dst
  \/ p.src = p.dst /\ Wire(p.sport) < Wire(p.dport)

\* Mutant: ports are taken as they come, whichever address is the lower one.
HashPorts(device, vlan, p) ==
  [device |-> device, vlan |-> vlan, proto |-> p.proto,
   lower |-> <<IF SenderLower(p) THEN p.src ELSE p.dst, p.sport>>,
   upper |-> <<IF SenderLower(p) THEN p.dst ELSE p.src, p.dport>>]

\* ndFlow::Hash over what ProcessPacket has put into the template
Hash(device, vlan, p) ==
  LET sender == <<p.src, p.sport>>
      receiver == <<p.dst, p.dport>>
  IN  [device |-> device, vlan |-> vlan, proto |-> p.proto,
       lower |-> IF SenderLower(p) THEN sender ELSE receiver,
       upper |-> IF SenderLower(p) THEN receiver ELSE sender]

\* The tag of an NFQUEUE thread has its instance number, so that no two
\* threads share a flow; the instances of a TPACKET_V3 fan-out share theirs.
Device(t) == IF type = "nfq" THEN t ELSE "interface"

\* The first guess is the side seen first, then the side with the higher
\* port, then what SYN and ACK say.  Only the comparison of the addresses says
\* which end sent the packet: for equal addresses the upper end is taken for
\* the sender, although the ports may have made it the lower one.
Origin(p, k) ==
  LET sender == IF p.src < p.dst THEN "lower" ELSE "upper"
      other == IF p.src < p.dst THEN "upper" ELSE "lower"
  IN  CASE p.flags = "syn" -> sender
        [] p.flags = "synack" -> other
        [] OTHER ->
             IF p.proto # "icmp" /\ k.lower[2] # k.upper[2]
             THEN IF k.lower[2] < k.upper[2] THEN "upper" ELSE "lower"
             ELSE sender

-----------------------------------------------------------------------------
\* ndPacketStats

Counters == {"raw", "ip", "discard", "filtered", "dropped", "flow_dropped"}

\* The first of the threads of an interface in their vector
FirstOf(S) == CHOOSE t \in S : TRUE

NoStats == [c \in Counters |-> 0]

\* operator+=, which leaves out the dropped flows
Plus(a, b) ==
  [c \in Counters |-> IF c = "flow_dropped" THEN a[c] ELSE a[c] + b[c]]

Count(s, raw, ip, discard, flow_dropped) ==
  [s EXCEPT !.raw = @ + raw, !.ip = @ + ip, !.discard = @ + discard,
            !.flow_dropped = @ + flow_dropped]

-----------------------------------------------------------------------------
Init ==
  /\ type \in CaptureTypes
  /\ trace \in Traces[type]
  /\ arrived = 0 /\ lost = {}
  /\ ring = [t \in Threads |-> [b \in Blocks |-> <<>>]]
  /\ status = [t \in Threads |-> [b \in Blocks |-> "kernel"]]
  /\ kblock = [t \in Threads |-> 0]
  /\ sock = [t \in Threads |-> <<>>]
  /\ drops = [t \in Threads |-> 0]
  /\ overrun = [t \in Threads |-> FALSE]
  \* An interface has one pcap thread, which begins by opening it.
  /\ pc = [t \in Threads |->
             CASE type \in {"tpv3", "nfq"} -> "next"
               [] t = FirstOf(Threads) -> "closed"
               [] OTHER -> "none"]
  /\ lock = [t \in Threads |-> NULL]
  /\ it_block = [t \in Threads |-> 0]
  /\ block = [t \in Threads |-> 0]
  /\ copied = [t \in Threads |-> 0]
  /\ pkt_queue = [t \in Threads |-> <<>>]
  /\ reg = [t \in Threads |-> NULL]
  /\ stats = [t \in Threads |-> NoStats]
  /\ dropped = [t \in Threads |-> 0]
  /\ pcs_last = [t \in Threads |-> 0]
  /\ vlan_id = [t \in Threads |-> 0]
  /\ flows = <<>>
  /\ log = <<>>
  /\ upc = "idle" /\ todo = {} /\ asked = NULL
  /\ pkt_stats = NoStats /\ pkt_stats_global = NoStats

Goto(t, from, to) == pc[t] = from /\ pc' = [pc EXCEPT ![t] = to]

Live(t) == pc[t] \notin {"none", "ended", "closed"}

-----------------------------------------------------------------------------
\* The kernel

NextBlock(b) == (b + 1) % RingBlocks

\* A filter of libpcap is applied before a packet is buffered.
Reaches(p) == type \in {"pcap", "offline"} => ~p.filtered

\* A packet goes to the open block of the ring, which is handed over once it
\* is full; if the next block is not back yet the packet is lost.
ArriveRing(t, i) ==
  LET b == kblock[t]
      content == Append(ring[t][b], i)
      full == Len(content) = BlockSize
  IN  /\ IF status[t][b] = "kernel"
         THEN /\ ring' = [ring EXCEPT ![t][b] = content]
              /\ status' = [status EXCEPT ![t][b] =
                              IF full THEN "user" ELSE @]
              /\ kblock' = [kblock EXCEPT ![t] =
                              IF full THEN NextBlock(@) ELSE @]
              /\ UNCHANGED <<lost, drops>>
         ELSE /\ lost' = lost \cup {i}
              /\ drops' = [drops EXCEPT ![t] = @ + 1]
              /\ UNCHANGED <<ring, status, kblock>>
      /\ UNCHANGED <<sock, overrun>>

\* A packet goes to the buffer of a socket; a file waits to be read.
ArriveSocket(t, i) ==
  /\ IF Len(sock[t]) < SocketSize
     THEN /\ sock' = [sock EXCEPT ![t] = Append(@, i)]
          /\ UNCHANGED <<lost, drops, overrun>>
     ELSE /\ type # "offline"
          /\ lost' = lost \cup {i}
          /\ IF type = "nfq"
             THEN overrun' = [overrun EXCEPT ![t] = TRUE] /\ UNCHANGED drops
             ELSE drops' = [drops EXCEPT ![t] = @ + 1] /\ UNCHANGED overrun
          /\ UNCHANGED sock
  /\ UNCHANGED <<ring, status, kblock>>

Arrive(t) ==
  LET i == arrived + 1 IN
  /\ Live(t)
  /\ i <= Len(trace)
  /\ arrived' = i
  /\ CASE ~Reaches(trace[i]) ->
            UNCHANGED <<lost, ring, status, kblock, sock, drops, overrun>>
       [] Reaches(trace[i]) /\ type = "tpv3" -> ArriveRing(t, i)
       [] OTHER -> ArriveSocket(t, i)
  /\ UNCHANGED <<type, trace, pc, lock, copyVars, stats, dropped, pcs_last,
                 flowVars, updateVars>>

\* tp_retire_blk_tov is over: a block that is not full is handed over.
Retire(t) ==
  LET b == kblock[t] IN
  /\ Live(t)
  /\ status[t][b] = "kernel" /\ ring[t][b] # <<>>
  /\ status' = [status EXCEPT ![t][b] = "user"]
  /\ kblock' = [kblock EXCEPT ![t] = NextBlock(@)]
  /\ UNCHANGED <<type, trace, arrived, lost, ring, sock, drops, overrun, pc,
                 lock, copyVars, stats, dropped, pcs_last, flowVars,
                 updateVars>>

-----------------------------------------------------------------------------
\* ndCaptureTPv3::Entry

\* Mutant: the iterator stays on its block.
NextStays(t) ==
  /\ type = "tpv3"
  /\ Goto(t, "next", "copy")
  /\ status[t][it_block[t]] = "user"
  /\ block' = [block EXCEPT ![t] = it_block[t]]
  /\ copied' = [copied EXCEPT ![t] = 0]
  /\ UNCHANGED <<type, kernelVars, lock, it_block, pkt_queue, reg, stats,
                 dropped, pcs_last, flowVars, updateVars>>

\* ndPacketRing::Next
NextReady(t) ==
  LET b == it_block[t] IN
  /\ type = "tpv3"
  /\ Goto(t, "next", "copy")
  /\ status[t][b] = "user"
  /\ it_block' = [it_block EXCEPT ![t] = NextBlock(@)]
  /\ block' = [block EXCEPT ![t] = b]
  /\ copied' = [copied EXCEPT ![t] = 0]
  /\ UNCHANGED <<type, kernelVars, lock, pkt_queue, reg, stats, dropped,
                 pcs_last, flowVars, updateVars>>

Uncopied(t) == SubSeq(ring[t][block[t]], copied[t] + 1,
                      Len(ring[t][block[t]]))

\* ProcessPackets with CopyPacket.  A filtered packet is counted without the
\* thread's lock: the counters are read here and written in CountFiltered.
CopyPacket(t) ==
  /\ pc[t] = "copy" /\ Uncopied(t) # <<>>
  /\ LET i == Head(Uncopied(t)) IN
     IF trace[i].filtered
     THEN /\ pc' = [pc EXCEPT ![t] = "count"]
          /\ reg' = [reg EXCEPT ![t] = stats[t]]
          /\ UNCHANGED <<copied, pkt_queue>>
     ELSE /\ pkt_queue' = [pkt_queue EXCEPT ![t] = Append(@, i)]
          /\ copied' = [copied EXCEPT ![t] = @ + 1]
          /\ UNCHANGED <<pc, reg>>
  /\ UNCHANGED <<type, kernelVars, lock, it_block, block, stats, dropped,
                 pcs_last, flowVars, updateVars>>

CountFiltered(t) ==
  /\ Goto(t, "count", "copy")
  /\ stats' = [stats EXCEPT ![t] =
       [@ EXCEPT !.filtered = reg[t].filtered + 1,
                 !.discard = reg[t].discard + 1]]
  /\ reg' = [reg EXCEPT ![t] = NULL]
  /\ copied' = [copied EXCEPT ![t] = @ + 1]
  /\ UNCHANGED <<type, kernelVars, lock, it_block, block, pkt_queue, dropped,
                 pcs_last, flowVars, updateVars>>

\* Mutant: the block goes back before its last packet is copied.
CopiedButOne(t) == Len(Uncopied(t)) <= 1

Copied(t) == Uncopied(t) = <<>>

Release(t) ==
  /\ Copied(t)
  /\ Goto(t, "copy", IF pkt_queue[t] = <<>> THEN "next" ELSE "lock")
  /\ status' = [status EXCEPT ![t][block[t]] = "kernel"]
  /\ ring' = [ring EXCEPT ![t][block[t]] = <<>>]
  /\ UNCHANGED <<type, trace, arrived, lost, kblock, sock, drops, overrun,
                 lock, copyVars, stats, dropped, pcs_last, flowVars,
                 updateVars>>

-----------------------------------------------------------------------------
\* ndCaptureNFQueue::Entry and ndCapturePcap::Entry

\* recvfrom with the callback that copies the packet and sends the verdict,
\* or pcap_next_ex
Receive(t) ==
  /\ Goto(t, "next", "lock")
  /\ sock[t] # <<>> /\ ~overrun[t]
  /\ pkt_queue' = [pkt_queue EXCEPT ![t] = <<Head(sock[t])>>]
  /\ sock' = [sock EXCEPT ![t] = Tail(@)]
  /\ UNCHANGED <<type, trace, arrived, lost, ring, status, kblock, drops,
                 overrun, lock, it_block, block, copied, reg, stats, dropped,
                 pcs_last, flowVars, updateVars>>

\* The verdict cannot be sent: the loop is left with the packet queued.
ReceiveFails(t) ==
  /\ type = "nfq"
  /\ Goto(t, "next", "ended")
  /\ sock[t] # <<>> /\ ~overrun[t]
  /\ pkt_queue' = [pkt_queue EXCEPT ![t] = <<Head(sock[t])>>]
  /\ sock' = [sock EXCEPT ![t] = Tail(@)]
  /\ UNCHANGED <<type, trace, arrived, lost, ring, status, kblock, drops,
                 overrun, lock, it_block, block, copied, reg, stats, dropped,
                 pcs_last, flowVars, updateVars>>

\* ENOBUFS: "dropped" is read and, without the lock, written back.
Overrun(t) ==
  /\ Goto(t, "next", "overrun")
  /\ overrun[t]
  /\ overrun' = [overrun EXCEPT ![t] = FALSE]
  /\ reg' = [reg EXCEPT ![t] = dropped[t]]
  /\ UNCHANGED <<type, trace, arrived, lost, ring, status, kblock, sock,
                 drops, lock, it_block, block, copied, pkt_queue, stats,
                 dropped, pcs_last, flowVars, updateVars>>

CountOverrun(t) ==
  /\ Goto(t, "overrun", "next")
  /\ dropped' = [dropped EXCEPT ![t] = reg[t] + 1]
  /\ reg' = [reg EXCEPT ![t] = NULL]
  /\ UNCHANGED <<type, kernelVars, lock, it_block, block, copied, pkt_queue,
                 stats, pcs_last, flowVars, updateVars>>

\* An interface that fails is closed, with what waits in the buffer, and
\* opened again; libpcap then counts from zero.
PcapClose(t) ==
  /\ type = "pcap"
  /\ Goto(t, "next", "closed")
  /\ sock' = [sock EXCEPT ![t] = <<>>]
  /\ drops' = [drops EXCEPT ![t] = 0]
  /\ UNCHANGED <<type, trace, arrived, lost, ring, status, kblock, overrun,
                 lock, copyVars, stats, dropped, pcs_last, flowVars,
                 updateVars>>

OpenCapture(t) ==
  /\ Goto(t, "closed", "next")
  /\ UNCHANGED <<type, kernelVars, lock, copyVars, stats, dropped, pcs_last,
                 flowVars, updateVars>>

\* ShouldTerminate, or an error of select
End(t) ==
  /\ pc[t] \in {"next", "closed"}
  /\ pc' = [pc EXCEPT ![t] = "ended"]
  /\ UNCHANGED <<type, kernelVars, lock, copyVars, stats, dropped, pcs_last,
                 flowVars, updateVars>>

-----------------------------------------------------------------------------
\* ProcessPacket, for every packet of the queue, with the thread's lock held

LockThread(t) ==
  /\ Goto(t, "lock", "process")
  /\ lock[t] = NULL
  /\ lock' = [lock EXCEPT ![t] = t]
  /\ UNCHANGED <<type, kernelVars, copyVars, stats, dropped, pcs_last,
                 flowVars, updateVars>>

\* replay_delay: the lock is given up to sleep until the packet is due.
Delay(t) ==
  /\ type = "offline"
  /\ Goto(t, "process", "delay")
  /\ pkt_queue[t] # <<>>
  /\ lock' = [lock EXCEPT ![t] = NULL]
  /\ UNCHANGED <<type, kernelVars, copyVars, stats, dropped, pcs_last,
                 flowVars, updateVars>>

Delayed(t) ==
  /\ Goto(t, "delay", "due")
  /\ lock[t] = NULL
  /\ lock' = [lock EXCEPT ![t] = t]
  /\ UNCHANGED <<type, kernelVars, copyVars, stats, dropped, pcs_last,
                 flowVars, updateVars>>

\* What every way through ProcessPacket has in common: the packet leaves the
\* queue, and the history has it with its digest, if it got that far.
Processed(t, key, admitted) ==
  /\ pc[t] \in {"process", "due"} /\ pkt_queue[t] # <<>>
  /\ pc' = [pc EXCEPT ![t] = "process"]
  /\ pkt_queue' = [pkt_queue EXCEPT ![t] = Tail(@)]
  /\ log' = Append(log, [thread |-> t, id |-> Head(pkt_queue[t]), key |-> key,
                         admitted |-> admitted])
  /\ UNCHANGED <<type, kernelVars, lock, it_block, block, copied, reg,
                 dropped, pcs_last, updateVars>>

\* Discarded by the link layer's tests, before a VLAN tag is looked for
RejectLink(t) ==
  /\ Processed(t, NULL, FALSE)
  /\ trace[Head(pkt_queue[t])].reject \in {"silent", "link"}
  /\ stats' = [stats EXCEPT ![t] =
       Count(@, 1, 0, IF trace[Head(pkt_queue[t])].reject = "link" THEN 1
                      ELSE 0, 0)]
  /\ UNCHANGED <<vlan_id, flows>>

\* The template keeps the VLAN of the last tagged packet.
Vlan(t, p) == IF p.vlan # 0 THEN p.vlan ELSE vlan_id[t]

\* Discarded by the tests of a tunnel, IP, TCP or UDP header, fragments
\* included
RejectNet(t) ==
  LET p == trace[Head(pkt_queue[t])] IN
  /\ Processed(t, NULL, FALSE)
  /\ p.reject = "net"
  /\ stats' = [stats EXCEPT ![t] = Count(@, 1, 0, p.beyond + 1, 0)]
  /\ vlan_id' = [vlan_id EXCEPT ![t] = Vlan(t, p)]
  /\ UNCHANGED flows

\* A new flow that max_flows or syn_scan_protection does not admit
DropFlow(t) ==
  LET p == trace[Head(pkt_queue[t])]
      k == Hash(Device(t), Vlan(t, p), p)
  IN  /\ Processed(t, k, FALSE)
      /\ p.reject = "" /\ k \notin DOMAIN flows
      /\ stats' = [stats EXCEPT ![t] = Count(@, 1, 0, p.beyond + 1, 1)]
      /\ vlan_id' = [vlan_id EXCEPT ![t] = Vlan(t, p)]
      /\ UNCHANGED flows

\* A packet of a flow, found or created
CountFlow(t) ==
  LET p == trace[Head(pkt_queue[t])]
      k == Hash(Device(t), Vlan(t, p), p)
  IN  /\ Processed(t, k, TRUE)
      /\ p.reject = ""
      /\ stats' = [stats EXCEPT ![t] = Count(@, 1, 1, p.beyond, 0)]
      /\ vlan_id' = [vlan_id EXCEPT ![t] = Vlan(t, p)]
      /\ flows' = [f \in DOMAIN flows \cup {k} |->
                     IF f \in DOMAIN flows THEN flows[f] ELSE Origin(p, k)]

UnlockThread(t) ==
  /\ pkt_queue[t] = <<>>
  /\ Goto(t, "process", "next")
  /\ lock' = [lock EXCEPT ![t] = NULL]
  /\ UNCHANGED <<type, kernelVars, copyVars, stats, dropped, pcs_last,
                 flowVars, updateVars>>

-----------------------------------------------------------------------------
\* ProcessUpdate: the statistics of every thread are added up and cleared.

captureVars == <<type, trace, arrived, lost, ring, status, kblock, sock,
                 overrun, pc, copyVars, flowVars>>

Update ==
  /\ upc = "idle"
  /\ upc' = "lock"
  /\ todo' = {t \in Threads : pc[t] # "none"}
  /\ pkt_stats' = NoStats
  /\ UNCHANGED <<captureVars, drops, lock, stats, dropped, pcs_last, asked,
                 pkt_stats_global>>

\* Mutant: the thread is asked without its lock.
LockUnchecked ==
  /\ upc = "lock" /\ todo # {}
  /\ upc' = "get"
  /\ asked' = FirstOf(todo)
  /\ UNCHANGED <<captureVars, drops, lock, stats, dropped, pcs_last, todo,
                 pkt_stats, pkt_stats_global>>

LockForStats ==
  /\ upc = "lock" /\ todo # {}
  /\ upc' = "get"
  /\ asked' = FirstOf(todo)
  /\ lock[FirstOf(todo)] = NULL
  /\ lock' = [lock EXCEPT ![FirstOf(todo)] = "update"]
  /\ UNCHANGED <<captureVars, drops, stats, dropped, pcs_last, todo,
                 pkt_stats, pkt_stats_global>>

\* GetCaptureStats of a back end.  TPACKET_V3: reading the kernel's counter
\* clears it.  libpcap: the difference to the last time.  NFQUEUE: the
\* counter replaces that of the interface.
GetCaptureStats ==
  LET t == asked IN
  /\ upc = "get"
  /\ upc' = "add"
  /\ CASE type = "tpv3" ->
            /\ stats' = [stats EXCEPT ![t].dropped = drops[t]]
            /\ drops' = [drops EXCEPT ![t] = 0]
            /\ UNCHANGED <<pcs_last, pkt_stats>>
       [] type = "pcap" /\ pc[t] # "closed" ->
            /\ stats' = [stats EXCEPT ![t].dropped =
                           drops[t] - IF pcs_last[t] <= drops[t]
                                      THEN pcs_last[t] ELSE 0]
            /\ pcs_last' = [pcs_last EXCEPT ![t] = drops[t]]
            /\ UNCHANGED <<drops, pkt_stats>>
       [] type = "nfq" ->
            /\ pkt_stats' = [pkt_stats EXCEPT !.dropped = dropped[t]]
            /\ UNCHANGED <<stats, drops, pcs_last>>
       [] OTHER -> UNCHANGED <<stats, drops, pcs_last, pkt_stats>>
  /\ UNCHANGED <<captureVars, lock, dropped, todo, asked, pkt_stats_global>>

\* AddAndReset, first half; NFQUEUE has just cleared its counter
AddStats ==
  /\ upc = "add"
  /\ upc' = "reset"
  /\ pkt_stats' = Plus(pkt_stats, stats[asked])
  /\ dropped' = [dropped EXCEPT ![asked] = 0]
  /\ UNCHANGED <<captureVars, drops, lock, stats, pcs_last, todo, asked,
                 pkt_stats_global>>

ResetStats ==
  /\ upc = "reset"
  /\ upc' = "lock"
  /\ stats' = [stats EXCEPT ![asked] = NoStats]
  /\ lock' = [lock EXCEPT ![asked] = NULL]
  /\ todo' = todo \ {asked}
  /\ asked' = NULL
  /\ UNCHANGED <<captureVars, drops, dropped, pcs_last, pkt_stats,
                 pkt_stats_global>>

Updated ==
  /\ upc = "lock" /\ todo = {}
  /\ upc' = "idle"
  /\ pkt_stats_global' = Plus(pkt_stats_global, pkt_stats)
  /\ pkt_stats' = NoStats
  /\ UNCHANGED <<captureVars, drops, lock, stats, dropped, pcs_last, todo,
                 asked>>

-----------------------------------------------------------------------------
Kernel(t) == Arrive(t) \/ Retire(t)

Capture(t) ==
  \/ NextReady(t) \/ CopyPacket(t) \/ CountFiltered(t) \/ Release(t)
  \/ Receive(t) \/ Overrun(t) \/ CountOverrun(t) \/ OpenCapture(t)
  \/ LockThread(t) \/ Delay(t) \/ Delayed(t) \/ UnlockThread(t)
  \/ RejectLink(t) \/ RejectNet(t) \/ DropFlow(t) \/ CountFlow(t)

Fail(t) == ReceiveFails(t) \/ PcapClose(t) \/ End(t)

Instance ==
  \/ Update \/ GetCaptureStats \/ AddStats \/ ResetStats \/ Updated
  \/ LockForStats

Next == Instance \/ \E t \in Threads : Kernel(t) \/ Capture(t) \/ Fail(t)

Spec == Init /\ [][Next]_vars

\* Threads are scheduled, the kernel hands a block over after the timeout,
\* and the mutex goes to a capture thread in the end: the instance thread
\* holds it for an instant of an update interval.
FairSpec ==
  /\ Spec
  /\ WF_vars(Instance)
  /\ \A t \in Threads :
       /\ WF_vars(Retire(t))
       /\ SF_vars(Capture(t))

-----------------------------------------------------------------------------
\* The places a packet of thread t can be at, each with the packet: it has
\* been processed (1), has been copied (2), is still in the block that is
\* being copied (3), in a block of the ring that is so many blocks ahead of
\* the iterator (4), or at the socket (5).
Copying(t) == pc[t] \in {"copy", "count"}

Ahead(t, b) ==
  IF b >= it_block[t] THEN b - it_block[t] ELSE b + RingBlocks - it_block[t]

At(stage, ahead, n, id) ==
  [stage |-> stage, ahead |-> ahead, n |-> n, id |-> id]

Held(t) ==
  UNION {{At(1, 0, n, log[n].id) : n \in {m \in DOMAIN log :
                                            log[m].thread = t}},
         {At(2, 0, n, pkt_queue[t][n]) : n \in DOMAIN pkt_queue[t]},
         {At(3, 0, n, ring[t][block[t]][n]) :
            n \in {m \in DOMAIN ring[t][block[t]] :
                     Copying(t) /\ m > copied[t]}},
         UNION {{At(4, Ahead(t, b), n, ring[t][b][n]) :
                   n \in DOMAIN ring[t][b]} :
                b \in {c \in Blocks : ~(Copying(t) /\ c = block[t])}},
         {At(5, 0, n, sock[t][n]) : n \in DOMAIN sock[t]}}

Before(p, q) ==
  \/ p.stage < q.stage
  \/ p.stage = q.stage /\ p.ahead < q.ahead
  \/ p.stage = q.stage /\ p.ahead = q.ahead /\ p.n < q.n

\* A capture thread processes the packets of its ring or socket in the order
\* of their arrival, none twice and none left out but those that found no
\* room, although the kernel fills the blocks of the ring while the thread
\* copies others.  (libpcap loses what it has buffered when it is closed.)
OnceInOrder ==
  /\ \A t \in Threads : \A p, q \in Held(t) : Before(p, q) => p.id < q.id
  /\ type # "pcap" =>
       {i \in 1..arrived : ~trace[i].filtered} \ lost
         \subseteq {p.id : p \in UNION {Held(t) : t \in Threads}}

\* The sum of the values of f, counted one by one
Total(f) == Cardinality(UNION {{x} \X (1..f[x]) : x \in DOMAIN f})

\* The value of a counter over all that was, is being or will be reported
Reported(c) ==
  pkt_stats_global[c] + pkt_stats[c]
  + Total([t \in Threads |-> IF upc = "reset" /\ t = asked THEN 0
                             ELSE stats[t][c]])

Discards(e) ==
  LET p == trace[e.id] IN
  CASE p.reject = "silent" -> 0
    [] p.reject = "link" -> 1
    [] OTHER -> p.beyond + IF e.admitted THEN 0 ELSE 1

\* The reports of all updates add up to what the threads have counted: every
\* packet processed is in one of them, every discard too (but for the filter
\* of TPACKET_V3, whose counters are not protected), and every packet that a
\* ring had no room for.  libpcap may lose drops when it is opened again.
StatsExact ==
  /\ Reported("raw") = Len(log)
  /\ Reported("ip") = Cardinality({n \in DOMAIN log : log[n].admitted})
  /\ type # "tpv3" => Reported("discard") =
       Total([n \in DOMAIN log |-> Discards(log[n])])
  /\ type = "tpv3" => Reported("dropped") + Total(drops) = Cardinality(lost)
  /\ type = "pcap" => Reported("dropped") <= Cardinality(lost)

SameConnection(p, q) ==
  /\ p.vlan = q.vlan /\ p.proto = q.proto
  /\ {<<p.src, p.sport>>, <<p.dst, p.dport>>} =
     {<<q.src, q.sport>>, <<q.dst, q.dport>>}

\* The log's entry n is the packet that made its flow.
MadeFlow(n) ==
  /\ log[n].admitted
  /\ \A m \in 1..n - 1 : ~(log[m].admitted /\ log[m].key = log[n].key)

\* A flow whose first packet is one of a TCP handshake has the client as its
\* origin, whichever of the two packets is seen first, but for one case in
\* which it has the server: the addresses are equal, and the sender's port, as
\* read from the wire, is the smaller one.
HandshakeOrigin ==
  \A n \in DOMAIN log :
    LET k == log[n].key
        p == trace[log[n].id]
        client == IF p.flags = "syn" THEN <<p.src, p.sport>>
                                     ELSE <<p.dst, p.dport>>
        mistaken == p.src = p.dst /\ Wire(p.sport) < Wire(p.dport)
    IN  MadeFlow(n) /\ p.flags # "" =>
          k \in DOMAIN flows /\ (k[flows[k]] = client <=> ~mistaken)

\* Thread t has seen tagged packets only or none.
Uniform(t) ==
  \A m, n \in DOMAIN log :
    log[m].thread = t /\ log[n].thread = t =>
      (trace[log[m].id].vlan = 0 <=> trace[log[n].id].vlan = 0)

\* Packets belong to one flow if and only if they belong to one connection,
\* whatever the direction, provided that a thread sees tagged packets only or
\* none: the template is not cleared, and an untagged packet that follows a
\* tagged one inherits its VLAN.  The origin of a flow that starts with a
\* handshake is the client, unless both ends have the same address.
FlowPerConnection ==
  /\ HandshakeOrigin
  /\ (\A t \in Threads : Uniform(t)) =>
       \A m, n \in DOMAIN log :
         /\ log[m].key # NULL /\ log[n].key # NULL
         /\ Device(log[m].thread) = Device(log[n].thread)
         => (log[m].key = log[n].key <=>
               SameConnection(trace[log[m].id], trace[log[n].id]))

\* No packet waits for ever for a thread that goes on.
Drained ==
  \A t \in Threads :
    []<>(Live(t) => /\ pkt_queue[t] = <<>> /\ sock[t] = <<>>
                    /\ \A b \in Blocks : ring[t][b] = <<>>)
=============================================================================
