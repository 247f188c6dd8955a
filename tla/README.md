# A TLA+ model of the Netify agent

The Netify agent (`netifyd`) captures packets, groups them into flows, runs
deep packet inspection (nDPI) on the first packets of every flow and reports
the flows to plugins. It is a C++ program of a dozen cooperating threads. This
directory holds TLA+ models of its parts, the TLC runs that check them on small
instances, and TLAPS proofs of the properties that matter most for every
instance. Paths below are relative to the repository.

## 1. Inventory

| Part | State | Operations | Interacts with |
|---|---|---|---|
| Capture back ends (`nd-capture-pcap.cpp`, `-tpv3.cpp`, `-nfq.cpp`) | ring and its iterator, sockets, drop counters | Entry, Next, CopyPacket, OpenCapture, GetCaptureStats | kernel, capture thread, instance thread |
| Capture threads (`nd-capture.cpp`) | flow template, statistics, round-robin `dpi_thread_id` | ProcessPacket, ProcessDNSPacket | flow map, packet queues, DNS hint cache |
| Packet statistics (`nd-packet.hpp`) | counters of a thread, an interface, the agent | counting, AddAndReset | capture threads, ProcessUpdate |
| Flow map (`nd-flow-map.cpp`) | buckets of digest -> flow, a mutex per bucket | Lookup (may return locked), Insert, Acquire, Release | capture threads, instance thread |
| Flow (`nd-flow.cpp`, `nd-flow.hpp`) | atomic flags, counters, `ndpi_flow`, `dpi_thread_id` | copy, Hash, Reset, Release | shared by all threads through `shared_ptr` |
| Detection threads (`nd-detection.cpp`) | packet queue, condition variable | QueuePacket, ProcessPacketQueue, ProcessFlow | flows, both caches, conntrack, plugins |
| Instance thread (`nd-instance.cpp`) | `status`, termination flags | update, expiry and purge, reap, shutdown, reload | all of them; timers and signals by IPC |
| Main thread (`netifyd.cpp`), threads and IPC (`nd-thread.cpp`) | flags, socket pair | signals, Create, Terminate, Join, SendIPC, RecvIPC | every thread |
| Flow hash cache (`nd-fhc.cpp`) | LRU list and hash map | Push, Pop | detection threads |
| DNS hint cache (`nd-dhc.cpp`) | address digest -> deadline, host | Insert, Lookup, Purge | capture, detection and instance thread |
| Plugins (`nd-plugin.cpp`) | maps of plugins under a mutex, two queues per sink | dispatch and broadcast, QueuePayload, PullPayloadQueue, Reap, Destroy | instance, capture, detection and plugin threads |
| Connection tracking (`nd-conntrack.cpp`) | id -> digest, digest -> flow | dump, NEW, UPDATE, DESTROY, UpdateFlow, PurgeFlows | kernel events, detection threads |
| API manager (`nd-napi.cpp`) | token, requests, results | Update, bootstrap, download | instance thread, HTTP, reload |
| Interfaces and configuration (`nd-config.cpp`, `nd-instance.cpp`) | interfaces, threads, recorded addresses | LoadInterfaces, ReloadCaptureThreads | capture threads, address types |
| Netlink (`nd-netlink.cpp`), address types (`nd-addr.cpp`) | local addresses and networks | Refresh, ProcessEvent, AddAddress, RemoveAddress, Classify | kernel, capture and detection threads |
| Applications, categories (`nd-apps.cpp`, `nd-category.cpp`) | maps of definitions | Load, Find, Lookup | detection threads, reload |

What is hard about it:

* **Sharing a flow.** Three kinds of threads read and write its flags without a
  lock, pass references to it through queues, and one of them destroys it when
  `use_count()` says that nobody else refers to it. Expiry is a hand-shake
  between the instance thread and a detection thread that a capture thread may
  undo half-way (the reset of a DNS flow), and the exit waits for all of it.
* **Following somebody else's state**: the kernel's ring, connection table and
  addresses, the files of the API server, the configuration file. Each changes
  while it is read, and messages about it are lost, late or doubled.
* **Ending.** Signals, timers, reloads, failing plugins and sources that end all
  meet in one IPC socket, and the order in which threads are stopped, joined and
  deleted is spread over four files.
* **Counting** with one mutex held here and not there.

The complete list of such places, each with its line and the properties aimed at
it, is under `hazards` in `PROJECT.json`.

What makes each part correct: a packet is processed once, in order, and counted
once; the two directions of a connection are one flow; a flow in use is never
destroyed and is the only one of its digest; a flow marked expiring does expire;
`status.flows` is exact; the agent exits when told to and destroys nothing that
is still used; the caches, the connection table and the local addresses stay
consistent, bounded and fresh; payloads reach their sinks in order and once;
files are replaced by newer ones only, and the agent ends up running with them.

## 2. Modules

| Module | Contents |
|---|---|
| `PacketCapture`, `MCPacketCapture`, `PacketCaptureProofs` | back ends, dissection up to the digest, packet statistics; the MC module has the traffic |
| `FlowLifecycle`, `MCFlowLifecycle`, `FlowLifecycleProofs` | flow map, flow flags, capture, detection and instance threads |
| `FlowTable` | what the flow map promises, implemented by `FlowLifecycle` |
| `FlowHashCache`, `MCFlowHashCache`, `CacheProofs` | the flow hash cache; the MC module records the order of use as a relation |
| `DnsHintCache`, `MCDnsHintCache`, `CacheProofs` | the DNS hint cache; the MC module records the time of the last use, and which uses were before a restart |
| `AgentControl`, `MCAgentControl`, `AgentControlProofs` | main thread, IPC, reload, shutdown, destruction, detection threads' queues |
| `InterfaceReload`, `MCInterfaceReload`, `InterfaceReloadProofs` | configuration, capture threads per interface, local addresses, Netlink |
| `Plugins`, `MCPlugins`, `PluginsProofs` | plugin manager and sink queues |
| `Conntrack`, `MCConntrack`, `ConntrackProofs` | connection tracking |
| `NapiManager`, `NapiManagerProofs` | API manager and reload of its files |

`PacketCapture` ends where `FlowLifecycle` begins: what the former appends to
`log` with a digest is an arriving packet of the latter. `AgentControl` looks at
the same instance and detection threads as `FlowLifecycle` with flows reduced to
where they are, and at the same reload as `InterfaceReload` with interfaces
reduced to their names.

### PacketCapture

One interface with the threads of its fan-out or queues. A packet is a record of
what its headers say; its name is its place in `trace`. The kernel's half of a
TPACKET_V3 ring (`ArriveRing`, `Retire`) fills blocks in turn, hands a block over
when it is full or after the time-out, and drops a packet when the next block is
not back; the thread's half is `NextReady`, `CopyPacket`, `Release`. Sockets of
libpcap and NFQUEUE are queues of bounded length; an overrun is a drop count for
one and an `ENOBUFS` for the other. Then all back ends take the thread's mutex,
run `ProcessPacket` for every queued packet, and release it. `RejectLink`,
`RejectNet`, `DropFlow` and `CountFlow` are the ways through `ProcessPacket`;
`Delay` is the replay delay, which gives up the mutex in the middle of it.
`ProcessUpdate` is `Update`, then `LockForStats`, `GetCaptureStats`, `AddStats`
and `ResetStats` for every thread, then `Updated`. Where the code increments a
counter without the mutex (`CopyPacket`/`CountFiltered`, `Overrun`/
`CountOverrun`), the read and the write are two steps.

Abstractions: a header is well formed, too short in one of its lengths
(`beyond`, counted and then ignored, as in the code), or rejected by a layer
(`reject`). The two ends of a packet are ordered as the code does, by address and
for equal addresses by port as read off the wire (`Wire`, on a little-endian
machine), and the origin of a flow by address alone. Counters that always move with `raw`, `ip` or `discard` (bytes,
protocols) are left out. GTP tunnels, DNS and the MAC address in the digest of
DHCP broadcasts are left out.

### FlowLifecycle

One step touches shared state once. A capture thread's `cpc` names its place in
`ProcessPacket`:

    idle -> locked -> update -> check -> enqueue -> idle      a flow that exists
            locked -> insert -> count -> update               a new flow
                      update -> reset_* -> check              a DNS query on a complete flow
                                check -> assign -> enqueue    the first packet for detection

`locked`, `insert` and `count` hold the bucket's mutex: the code keeps it from
`Lookup(digest, true)` to `Release`. A detection thread's `dpc` names its place
in the loop body of `ProcessPacketQueue`; the two conditions there are actions
of their own because other threads change the flags between them. The instance
thread's `ipc` and `ijobs` stand for the IPC loop of `Entry` and the calls that
an IPC message makes: `join` and `destroy` are the two halves of
`DestroyCaptureThreads`, `update` is `ProcessFlows`, `exit` is the return. A
walk acquires one bucket after the other; the order within a bucket is any
(`unordered_map`).

Flags are sets of flows (`complete`, `init`, `expiring`, `expired`, `known`,
`ndpi`), and `idle` is the set of flows that are past their TTL by the clock
the walk has read. `InUse(f)` is `use_count() > 1`: references are held by
capture threads (`cflow`), queues, and detection threads (`dflow`). A new flow
copies a template with `ts_last_seen = 0`, so it is idle until its first packet
was counted, after the bucket was released. The walk loads `expired`
(`FindExpired`) and then `use_count()` (`PurgeFlow` or `KeepFlow`), and capture
and detection threads may take steps in between.

Abstractions: an arriving packet has one of the digests its thread can see
(`Sees`: the same for fan-out instances, whose tag is the same interface name).
What nDPI and `ProcessFlow` find is a choice between the protocol staying
unknown, becoming known, and the detection being complete. A flow's counters,
origin and metadata are left out. `--run-without-sources` is off. Reload, plugins and the rest
of the exit are in `AgentControl`.

**FlowTable** is the abstract specification: per digest, a flow is created in
somebody's hands, held and let go, expires, and is revived only while held. It is
purged only after it was found expired (`Doom`) and when not held, and from the
finding on it gets into no new hands (`doomed`). That is all the code promises: a
capture thread that had the flow when it was found expired may reset it, queue it,
and see it let go of before `use_count()` is loaded, and it is then purged alive.
The mapping (`Table` in `FlowLifecycle`) reads `life` off the map and the
`expired` flag, `held` off `InUse`, and `doomed` off the walk's place.

### FlowHashCache

`index` is the list, `lookup` the keys of the hash map; the iterator of a key
is its place in the list, which is well defined as long as `Consistent` holds.
A thread's `PopHit`, `PopMiss` and `AfterMiss` are the calls of
`ProcessFlow`, with the mutex free between the miss and the push. `ProcessFlow`
pushes only when the metadata digest equals the lower digest.

### DnsHintCache

`map_ar` maps an address to a deadline and a host. `Tick` lets a second pass,
provided that the last `ProcessUpdate` was less than `Interval` ago: that is
the update timer, and the assumption that the instance thread keeps up with
it. Addresses are those classified as `atOTHER`; `Insert` rejects all others
and `ProcessFlow` looks no others up. `Restart` empties the cache: nothing calls
`Load`, although the manual says that the cache is primed on start-up
(`src/doc/netifyd.conf.5.in:57`). The MC module keeps the times of use over a
restart, and excludes the addresses that were not used since (`forgotten`) from
`KeptForTtl`, which is therefore a promise of one run of the agent only.

### AgentControl

The main thread takes pending signals and sends them into the instance thread's
socket, which takes `IpcSize` messages and loses the rest. The instance thread
handles RELOAD, TERMINATE and UPDATE; a second TERMINATE forces the exit. A
reload creates and joins capture threads by set differences. Creating them may
fail, with threads left in no map (`leaked`), and `LoadInterfaces` may throw: in
the loop nobody catches that, the thread ends on the spot (`thrown`), and the map
of its capture threads goes with it (`leaked` again). At the start of `Entry`
exceptions are caught and lead to its regular end, and a failure to create threads
to its immediate return (`Start`). A reload after TERMINATE may create threads
again (`revived`). Of a flow it only matters where it is: with nobody (`idle`), in a
queue, or being processed (`busy`); `status.flows` is 0 when `Mapped` is empty. A
detection thread tests, waits with a time-out, drains its queue, tests for
termination and drains once more. When the instance thread has ended, `main` goes
through `~ndInstance`: the conntrack thread goes before the detection threads are
joined.

### InterfaceReload

Everything here is done by the instance thread, between changes of the files and
of the kernel. Files are different at every reload: `Section` is what was read of
an interface, which for files that do not parse to the end may be nothing. A
reload compares settings, deletes, creates, and removes and adds addresses, in the
order of the code (`ReloadedLocal`, `ReloadedAddrs`, `ReloadedThread`). A section
for an interface of the command line adds its addresses to those there are.
`made` tells a thread from its successor. When creating threads fails, those that
were `started` are in no map (`orphans`) and the agent ends; so it does when
`LoadCaptureType` throws (`ReadFails`).

Netlink receives some of the messages on the socket (`buffered`), applies one after
the other and receives again until the socket is empty (phase `netlink`), while
the kernel adds more. An error message (`NULL`) drops what is behind it in the
buffer. `lost` remembers that something was dropped or the socket full. An
address of the kernel that has a broadcast address (`BroadcastOf`) is applied as
the code does: the broadcast address and its type take the place of the address.
The address itself never becomes local, and the broadcast address is not local any
more if it was.

### Plugins

The manager's mutex has an owner; `Reap` walks the maps without it and takes it
to erase, as the code does. A processor dispatches a payload to one sink or to
all (copies for all but the last); pushing to a sink and waking it are two steps,
and a sink unlocks its queue before it waits, so wake-ups are lost.
`PullPayloadQueue` is taken apart into its two loops (`PullDrop`, `PullMove`);
while a sink is in them (`pulling`) it has its mutex and nothing is pushed.
Payloads are numbered when their processor has the manager's mutex, which is the
order in which all sinks get them. `Total` counts the bytes of a queue, which is
what `plq_size` is to equal. Plugins may end by themselves. The
plugins' own loops are external, modelled from the interface they are given.

### Conntrack

A connection is an id, a digest and whether its addresses are translated. The
digest is made of the protocol and the reply's addresses and ports; it does not
say whether these are the original ones, so of two connections with one digest
(`Natted`), one after the other, one may be translated and the other not. Live
connections have different digests if their protocol has ports. Those of ICMP and
GRE (`Portless`) have ports 0 in `Hash`, and connections between the same two
addresses have one digest at the same time: the NEW of the second replaces the
flow of the first, an UPDATE of either overwrites it, and a DESTROY of either
deletes it.

The kernel's table changes during the dump and after. Up to `MaxFaults` times an
event is lost, or a DESTROY that could not be delivered comes late. The events
that were on the socket when the dump ended (`backlog`) are applied to maps that
may be ahead of them; one that is still there when the first purge is due, a TTL
(900 seconds) later, counts as late. The agent's two maps are updated as the code
does, event by event, `PurgeFlows` after an event when its time has come. An
UPDATE finds a flow through its id, which may have been used again. Events have
all attributes (the kernel's do, those of the reply included), and the agent sees
one conntrack zone. `translated` is the history `NatJustified` refers to.

### NapiManager

File contents are numbered by publication, with "no file", "empty" and "partial"
below. Every request is a thread that ends on its own time; `Update` looks at the
ended ones only, installs what is `Installable`, asks for the reload when a round
is over, and starts the next when `Due`. Transfers, copies and the creation of
threads may fail, `MaxFaults` times. A copy that fails leaves the old file; disks
that fill up half-way are left out.

## 3. Runs

`tlc -workers 2 -config <run>.cfg <module>`; each ends within five minutes.

| Run | Instance | What it shows |
|---|---|---|
| `capture` | 2 threads of each back end, up to 3 packets out of 14 kinds, ring of 2 blocks of 2, sockets of 1 | `OnceInOrder`: every packet that found room is processed once, in order. `StatsExact`: the reports of all updates add up to what happened. `FlowPerConnection`: one flow per connection, with the client of a handshake as its origin, except between equal addresses where the ports decide otherwise. `Drained`: no packet waits for ever |
| `fl_fanout` | 2 fan-out threads, 2 digests in one of 2 buckets, `max_flows` 1, DNS resets, signals, ending sources | `ReferencedIsMapped`: no flow in use is purged. `InsertNeverFails` ("Flow exists in map!  Impossible!"). `ExpiryPending`: a flow marked expiring always has an entry on its way, also with concurrent resets. `FlowsCounted`: `status.flows` is exact |
| `fl_shutdown` | 1 capture, 2 detection threads, 2 packets per flow, `auto_flow_expiry` off | `ShutdownCompletes`, `ExpiryCompletes`: a signal forces all flows to expire, the end of the source forces none and the flows go as they become idle. `SingleDpiThread`: one detection thread per flow, if one capture thread sees it. `ImplementsFlowTable`: the refinement, with the two loads before a purge |
| `fhc` | 2 threads, 5 digests, 4 places | `Consistent`, `Bounded`, `PurgesOldest` |
| `dhc` | 2 addresses, TTL 3, interval 2, 8 seconds | `KeptForTtl` within one run of the agent, `StaleBounded` |
| `control` | 1 interface, 1 detection thread, socket of 2, 1 HUP, 2 TERM, 2 flows | `ConntrackUnused`, `NothingDropped`, `ExitCompletes`, `PacketsProcessed` |
| `ifaces` | 2 interfaces, one from the command line, 2 settings, 3 IPv4 addresses of which one is the broadcast address of another, an IPv6 address, socket of 2 | `ThreadsConfigured`, `UnchangedKept`, `RecordedLocal`, `KernelLocal` |
| `plugins` | 1 processor, 2 sinks, queue of 1 byte, 2 payloads of which the first may be too long, 1 failure | `QueueBounded`, `InOrder`, `OneOwner`, `PayloadsMove`; `NoDeletedPlugin`, `ProcessorsFirst`, `ExitCompletes` |
| `conntrack` | 2 ids, 2 digests of which one has no ports and the other may be translated, socket of 3, TTL 1, 1 fault | `Keyed`, `NatJustified`, `AgreesWithKernel`, `StaleBounded` |
| `napi` | 2 files in 2 versions, 2 tokens, 1 fault | `LoadPending`, `RetrySoon`, `OnlyNewer`, `Converges` |

Runs that are expected to fail, each refuting a statement of the repository
(quoted under `findings` in `PROJECT.json`):

| Run | Counterexample |
|---|---|
| `fl_null` | `ExpireFlow` sees an incomplete flow; a detection thread completes it and frees `ndpi_flow`; the entry without a packet then makes `ProcessFlow` dereference it |
| `fl_reap` | `ReapCaptureThreads` counts interfaces down by threads: one ended fan-out thread of two ends the agent |

**Bounds.** `MaxQueue` stops the arrival of packets while a queue is full; the
entries of the instance thread and of packets under way come on top, so queues
of length three and more occur. Two flow objects and two digests let a flow be
purged and its digest be reborn as another object while old references could
still exist. The two digests share a bucket, the case in which threads meet, and
the other bucket is walked while they insert. One packet per flow
(`MaxDetectionPkts = 1`) is used where the number of packets plays no part, two
where the first and the last must differ. The hash cache is filled, purged and
refilled (5 digests, 4 places, 2 purged at a time); the DNS hint cache passes its
TTL twice. In `capture`, three packets fill a block, begin the next and, with two
blocks, wrap the ring's iterator when blocks are retired early; sockets of one
overrun at once; all pairs of packet kinds meet through the simplest back end,
which suffices for dissection because its only memory is the template of the
packet before. In `control` a socket of two messages is full after a timer and a
signal. In `conntrack` two ids and two digests are enough for an id to be used
again for the other digest and for a digest to come back under the other id;
one digest stands for TCP connections, some translated and some not, the other
for pings, which may share it (that pings may be translated too is left to the
proofs: it makes the state space four times as large);
three events let a connection end, its id be used again and that connection end,
all during the dump. (With two events on the socket
`AgreesWithKernel` held without the condition on the backlog; with three, a purge
between two of them takes the id of a flow whose DESTROY is yet to come.)
In `plugins` a queue limit of one payload is exceeded at once, and the second
sink is what makes a broadcast copy. In `napi` two versions let a file be
published between HEAD and GET, two tokens let one be rejected.

**Fairness.** In all models, threads that can run are weakly fair: the kernel
schedules them. Beyond that:

* `fl_shutdown`: the update timer is periodic (`IpcUpdate`). Strong fairness of a
  `StartWalk` in which all mapped flows are idle, after all capture threads have
  ended, says that time passes: nothing renews `ts_last_seen` any more, so every
  TTL is over at some update. Nothing is assumed about packets, signals, or
  sources ending.
* `capture`: a capture thread is strongly fair because it shares its mutex with
  the instance thread, which takes it for an instant once per update interval; the
  kernel retires blocks. Packets need not arrive.
* `control`: the timer goes on; `pthread_cond_timedwait` times out, so a lost
  wake-up delays by a second; `PurgeAll` is the passing of time as above. Signals
  need not arrive, sources need not end.
* `plugins`: processors and the instance thread compete for the manager's mutex
  and are strongly fair; a plugin that is told to terminate ends. Sinks wait with
  a time-out.
* `napi`: the clock and the UPDATE_NAPI timer go on, and curl ends every transfer
  within its time-out. The server need not answer well: faults are bounded in
  number, not in time.

**Symmetry** is used in invariant runs only: flow objects, fan-out threads and the
digests of one bucket are interchangeable, and so are connection ids.

`CHECK_DEADLOCK FALSE` is in the runs whose system ends: `control`, `plugins`,
`napi`, and `ifaces`, where the agent ends with a failed reload.

## 4. Proofs

`tlapm <module>.tla` checks each of the eight proof modules within a few minutes.

**FlowLifecycle**, for any number of digests, flows, capture and detection
threads and buckets, any limits and options, from `ConstantsAssumption` (the
digests and capture threads are finite sets, `NULL` and the instance thread are
distinct from the rest, `HashToBucket` maps into the buckets):

* `LifecycleInvariant`: `LifecycleInv` is inductive. `ReferencedIsMapped` is not
  by itself: that a purged flow has no references and that an inserted digest is
  free depend on what each thread knows at its program counter (`CaptureState`,
  `WalkState`), which holds because of the bucket locks (`Locking`) and because
  a flow is filed under its own digest only (`FlowsKeyed`). A purge is safe as
  the only way to get a first new reference to a mapped flow is a look-up, which
  needs the lock that the walk holds; every other new reference copies an old
  one. One lemma per kind of thread, one step per action, one leaf per conjunct
  that the action can disturb; the rest is the lemma `Frame`.
* `TypeCorrect`, `ReferencesSafe`, `InsertionSafe` follow.
* `CountingCorrect`: `FlowsCounted` from the invariant and the cardinalities of
  the mapped digests and of the capture threads at `count`.
* `LimitRespected`: `FlowLimit` needs the threads that passed the test and have
  not counted yet (`Admitted`): `nflows` plus their number stays below
  `MaxFlows` plus the number of capture threads.
* `MarkNeverLost` (`ExpiryPending`) by induction on top of `LifecycleInv`: one
  lemma per thread follows who has the duty of a marked flow, from the walk that
  marks it through the queue to the detection thread, past a reset in the middle.
* `OneDetectionThread` (`SingleDpiThread`) has a hypothesis, `OneSource`: no two
  capture threads see one digest. The digest has the interface's tag in it, and a
  fan-out by hash sends a connection to one thread; where it does not, the
  property is false (section 6). `OwnerInv` says that the entries of a flow are
  with its own thread and that `dpi_thread_id` is stored once.
* `ImplementsTable` (`ImplementsFlowTable`) is the refinement of `FlowTable`,
  step by step: each action, with the invariants above, is one of the table's
  steps or a stutter (`QuietStep`, `UseStep`, `ExpireStep`, `ReviveStep`,
  `CreateStep`, `FindStep`, `KeepStep`, `PurgeStep`). It also needs that a flow
  with the `expired` flag is in the map under its digest (`ExpiredHomed`). That
  nobody new gets hold of a doomed flow follows from the bucket's lock, which the
  walk keeps from one load to the other.

**PacketCapture**, for any number of capture threads, any number and size of the
ring's blocks, any size of the sockets and any traffic, from `CaptureAssumption`
(finitely many threads, at least one block, packets whose fields are numbers, and
a `NULL` that is neither a thread nor a digest):

* `CaptureInvariant`: `CaptureInv` is inductive, with `CaptureTypeCorrect`. It has
  a layer for each property, proved one after the other on top of the types and of
  who holds a thread's mutex at which program counter (`Control`).
* `PacketsOnceInOrder` (`OnceInOrder`). The ring comes first: which blocks are the
  thread's (`BlockOwners`: those from the iterator to the kernel's block, all of
  them when the ring is full, and the one being copied), and that only the
  kernel's block of the others has packets (`KernelBlocks`). Then `StageOrder`: the
  packets of a thread's log are below those of its queue, these below those of the
  block being copied, these below those of the other blocks, which ascend with
  their distance from the iterator. Comparing stages avoids an induction over the
  log. A step moves a packet from one stage to the next (`StageArriveRing`,
  `StageNextReady`, `StageCopy`, `StageRelease`, `StageReceive`, `StageProcess`) or
  leaves the stages alone (`StageStill`). `NoneLeftOut` says that no step loses a
  packet, but that of the filter and the closing of libpcap's socket.
* `ReportsExact` (`StatsExact`). `Total` counts the elements of a set of units, so
  that what a thread adds to a sum follows from the cardinality of a union
  (`TotalAdd`, `TotalChange`) instead of an induction. `CountInv` is kept as a
  capture thread never counts while an update has its counters in hand
  (`ProcessCounts` with `Control`). The drops need that a thread's `dropped` is
  zero until it is asked (`StatsClear`), and for libpcap the drops that no update
  has read yet (`Unreported` in `DropInv`): closing the interface forgets them, so
  that the reports are a lower bound only.
* `ConnectionsAreFlows` (`FlowPerConnection`). `KeyInv` says where the VLAN of a
  digest comes from: from the packet or, if that has none, from a tagged packet
  that the thread processed before. `HashSame` is the lemma that two digests are
  equal if and only if the packets have the same two ends, in either direction;
  `FlowInv` ties a flow to the packet that made it and `OriginIs` to its client, or
  to its server where equal addresses are ordered by their ports; `WireOrder` says
  that swapping the bytes of ports confuses no two of them.

**FlowHashCache**, for any cache size, divisor and number of threads:
`CacheConsistent` and `CacheBounded`, which are inductive together, as the purge
test reads the size of the hash map and the purge pops from the list; and the
action property `OldestPurged` (`PurgesOldest`), because the list has the digests
in the order of their last use (`UseOrder`), of which the MC module keeps a
history.

**DnsHintCache**, for any TTL and update interval: `HintsKept`, for hints used since
the last restart, and `HintsNotStale`, from an invariant that ties a deadline to the time of the last
use and says that the last update left nothing overdue.

**NapiManager**, for any TTL and any number of versions, tokens and faults:
`NapiInvariant` with `NapiTypeCorrect`, `InstalledIsLoaded` (`LoadPending`),
`TokenRetried` (`RetrySoon`) and `FilesOnlyNewer` (`OnlyNewer`). `LoadPending`
needs that a download in flight belongs to a round whose results are still
missing (`OneRound`), so that no installation meets an old result. `OnlyNewer`
needs that a download's digest is that of the file and what it received whole is
at least as new (`NotBehind`), which needs that the server never falls behind the
file (`ServerNewest`).

**Conntrack**, for any ids, digests, TTL and events: `ConntrackInvariant` with
`ConntrackTypeCorrect`, `FlowsKeyed` (`Keyed`), `NatFlagsJustified`
(`NatJustified`) and `StaleForgotten` (`StaleBounded`). `NatJustified` needs that
what connections, events and flows say of a translation was once true of a
connection with their digest (`NatKnown`);
`StaleBounded` needs that what the last purge left had not expired then, and that
the next purge is at most a TTL and a tenth away (`Fresh`).
`MapsAgree` (`AgreesWithKernel`) follows the kernel's table through the events on
the socket: there is a sequence of tables, one before each event and the last the
kernel's own, in which connections leave with a DESTROY, enter with a NEW, and
enter only after those with their id, or with their addresses and ports, have left
(`History`); connections without ports need not have. The maps
are related to the first of these tables (`Synced`): an id or a flow is the
table's, or an event of the backlog will make it so or take it away. A flow serves
a connection if it has its id and, with ports, knows of its translation
(`Serves`); that an id has its flow (`FlowsThere`) is not true without ports. One lemma
per kind of event shows that the relation moves on to the next table; the rest is
that a purge meets no backlog (`Timely`). The history is carried along in the
invariant as such, since what a sequence of events does to a table cannot be
proved here by induction over the sequence.

**AgentControl**, for any interfaces, detection threads, flows, signals and size
of the socket: `ControlInvariant` with `ControlTypeCorrect`,
`ConntrackDeletedUnused` (`ConntrackUnused`) and `NoEntryDropped`
(`NothingDropped`). Both are about the end of the agent, and what makes them true
happened long before: that the loop is left cleanly only when no flow is left
(`Emptied`), that no capture thread runs from `Terminate()` on (`Stopped`,
`LeakedLast`: a reload that leaves threads behind, or an exception, is the last
thing that happens in the loop), and that detection threads end after the main thread's loop, which
ends after the instance thread (`Order`).

**InterfaceReload**, for any interfaces, settings, addresses and size of the
socket: `InterfaceInvariant` with `ReloadConfigures` (`ThreadsConfigured`),
`RecordedAddressesLocal` (`RecordedLocal`), `KernelAddressesLocal`
(`KernelLocal`) and the action property `ReloadKeepsUnchanged` (`UnchangedKept`).
`KernelLocal` is about the moments at which the socket is empty; in between, what
the table lacks is on its way (`KernelUnderWay`). It is about `Plain` addresses,
which have no broadcast address and are none (`PlainAddresses`).

**Plugins**, for any processors and sinks, any payload lengths and queue limit:
`PluginInvariant` with `PluginsTypeCorrect`, `SinkQueueBounded` (`QueueBounded`),
`PayloadsInOrder` (`InOrder`), `PayloadOneOwner` (`OneOwner`),
`NoCallAfterDelete` (`NoDeletedPlugin`) and `EntryStopsProcessors`
(`ProcessorsFirst`). `QueueBounded` rests on lemmas about `Total` (what appending
and removing a payload does to the bytes of a queue), `InOrder` on the numbers of
all queued payloads being below the one being dispatched (`Numbered`), `OneOwner`
on copies being named for their sink and on the original going to the last one
(`Owned`), and `NoDeletedPlugin` on who holds the manager's mutex at which program
counter (`MutexHeld`, `Reaping`).

Only model-checked: liveness under fairness, which is out of the prover's reach
(`ShutdownCompletes`, `ExpiryCompletes`, `PayloadsMove`, `ExitCompletes`,
`PacketsProcessed`, `Converges`, `Drained`). Every invariant and every action
property of the passing runs is a theorem. The two properties of the runs that
are expected to fail are refuted on their instance.

## 5. Mutants

For every property of a passing run `PROJECT.json` names a mutation of the
model, the way the code could plausibly be wrong, under which the property
fails: the operators marked *Mutant* next to the definition they replace.

## 6. What the models leave to be said

Places where a property above had to be stated with an exception, or that were
met while modelling. They follow from the code as it stands; where no document
of the repository promises otherwise there is no run for them.

* *Capture.* The template's `vlan_id` is never cleared: an untagged packet after a
  tagged one gets its VLAN in the digest (`nd-capture.cpp:438`; hence the
  condition in `FlowPerConnection`). TPACKET_V3 counts filtered packets without
  the thread's mutex (`nd-capture-tpv3.cpp:145`), so an update in between is
  undone. NFQUEUE assigns the interface's `capture_dropped` instead of adding to
  it, so the last queue's count replaces the others', and its own counter is
  incremented without the mutex (`nd-capture-nfq.cpp:345`). `operator+=` of
  `ndPacketStats` leaves out `flow.dropped` (`nd-packet.hpp:121`): no report has
  it. Lengths beyond the capture length are counted as discards and the dissection
  goes on (`nd-capture.cpp:409`), so such a packet can be both discarded and part
  of a flow. When libpcap is opened again, drops since the last update are not
  reported. `tcp_last_seq` is stored only when a sequence number is not above it.
  When both ends of a connection have the same address, the ends are ordered by
  their ports, as read off the wire (`nd-capture.cpp:864`), but the origin is taken
  from the addresses alone (`nd-capture.cpp:1058`): the server becomes the origin
  when the sender of the first packet of the handshake has the lower port.
* *Flows.* From `max_detection_pkts = 256` on the 8-bit `detection_packets` wraps
  before the limit (`nd-flow.hpp:156`). `ProcessFlows` resets interval counters
  that a capture thread is adding to, and `risks.clear()` in `Reset` races
  `ProcessRisks`. A flow that is reset between the loads of `expired` and
  `use_count()` (`nd-instance.cpp:2464`) may be purged although it is not expired any
  more. With fan-out, two instances may assign different detection
  threads to one flow.
* *Caches.* `purge_divisor` above `cache_size` rounds to no purge at all
  (`Bounded` excludes it). `Load` and `Save` of both caches have no caller
  (`nd-instance.cpp:1616`), so the DNS cache is not primed on start-up, as
  `src/doc/netifyd.conf.5.in:57` says it is.
* *Control.* On a forced exit, after a failed reload or an ended plugin,
  `thread_conntrack` is deleted while detection threads may still use it. A reload
  of a changed configuration after TERMINATE starts capture threads again. When
  `CreateCaptureThreads` throws, threads already started are in no map; when
  `LoadInterfaces` throws in a reload (an invalid `capture_type`,
  `nd-config.cpp:953`), the instance thread ends without its final steps and all
  capture threads are in no map. A TERM that meets a full IPC socket is lost.
* *Interfaces.* An address that comes with `IFA_BROADCAST` is replaced by its
  broadcast address (`nd-netlink.cpp:269`), so IPv4 addresses of ordinary interfaces
  are not local by Netlink. An error or overrun message drops the rest of the buffer
  (`nd-netlink.cpp:164`). A file that does not parse takes away the threads of the
  interfaces it no longer yields. Addresses of a changed interface become local
  only at the next reload. IPv4 addresses of interfaces are never removed from the
  table (`nd-addr.cpp:548`), IPv6 ones may be removed while the kernel still has
  them.
* *Plugins.* After a failed reload the processors are not stopped first, and
  `Destroy` can wait for one that waits for the mutex it holds.
* *Conntrack.* Connections of protocols without ports (ICMP, GRE) between the same
  addresses share a digest: the flow is that of the connection that came last, and
  goes when any of them ends (`nd-conntrack.cpp:256`). A late DESTROY deletes the flow of a newer connection with the same
  id. If events from the time of the dump were still waiting at the first purge, it
  could take an id from a flow, which the DESTROY to come would then not find; such
  a flow stays until it expires. `Update` throws with the map's mutex held when an
  event lacks an attribute.
* *API.* Without a local file only HEAD is performed and an empty file is installed
  first; the file comes a round later. A stale bootstrap answer can bring a rejected
  token back.

## 7. Not modelled, and the plan

Left out, with the reason:

* vendored and generated code: `nlohmann/json.hpp` (24,674 lines), the parser and
  scanner of flow criteria (`nd-flow-expr.cpp`, `nd-flow-criteria.c`, 6,900 lines),
  `pcap-compat`, the radix tree, SHA-1. Together they are more than half of the
  lines of the repository's sources, so no model of the agent's own logic can stand
  for a large share of them;
* tables of constants (`nd-protos.hpp`, `nd-risks.hpp`, `nd-apps.hpp`);
* pure functions on strings and bytes: `Classify`, look-ups of applications by
  domain and network, DNS packets, JSON output, file and `/proc` utilities;
* nDPI and the glue around it;
* command line, daemonising and the status file.

What is left of the plan, in this order:

1. `FlowStats`: interval counters reset while they are incremented.
2. `AddrTypes`: classification against a longest-prefix reference over a small
   address space.
