----------------------------- MODULE Conntrack -----------------------------
(***************************************************************************)
(* Connection tracking (nd-conntrack.cpp): the agent's copy of the kernel's*)
(* connection table.  The conntrack thread opens the event socket, dumps   *)
(* the table, and then applies NEW, UPDATE and DESTROY events to two maps, *)
(* from connection id to digest and from digest to flow; detection threads *)
(* look flows up by digest to learn whether their addresses are translated.*)
(*                                                                         *)
(* The kernel keeps changing its table all the time.  It drops events when *)
(* the socket is full (NETLINK_NO_ENOBUFS hides this), and retries DESTROY *)
(* events it could not deliver, which then come late.                      *)
(***************************************************************************)
EXTENDS Integers, Sequences, FiniteSets

CONSTANTS
  Ids,        \* connection ids, which the kernel uses again
  Digests,    \* digests of a connection's protocol and its reply's addresses
              \* and ports
  Portless,   \* digests of protocols without ports (ICMP, GRE)
  Natted,     \* digests with addresses that the kernel may translate
  Ttl,        \* _ND_CT_FLOW_TTL
  Slack,      \* _ND_CT_FLOW_TTL / 10
  MaxFaults,  \* bound: events that are lost or come late
  MaxEvents,  \* bound: events waiting on the socket
  MaxTime,    \* bound: the clock
  NULL

ASSUME ConntrackAssumption ==
  /\ Ttl \in Nat \ {0} /\ Slack \in Nat
  /\ MaxEvents \in Nat /\ MaxTime \in Nat /\ MaxFaults \in Nat
  /\ Portless \subseteq Digests /\ Natted \subseteq Digests
  /\ NULL \notin Digests

VARIABLES
  \* The kernel
  conns,       \* id -> the connection
  events,      \* the event socket
  faults,      \* how many events were lost or came late
  backlog,     \* how many of the events are older than the end of the dump
  \* The conntrack thread
  pc,          \* "dump", "run", or "after" an event
  to_dump,     \* ids the dump has yet to come to
  ct_id_map,   \* id -> digest
  ct_flow_map, \* digest -> ndConntrackFlow
  next_purge,  \* nd_ct_last_flow_purge_ttl
  \* Detection threads
  ip_nat,      \* digests of flows flagged ip_nat
  translated,  \* history: digests of translated connections there have been
  now          \* nd_time_monotonic()

kernelVars == <<conns, events, faults, backlog>>
mapVars == <<ct_id_map, ct_flow_map>>
vars ==
  <<kernelVars, pc, to_dump, mapVars, next_purge, ip_nat, translated, now>>

-----------------------------------------------------------------------------
\* A connection is translated if its reply's addresses are not the original
\* ones; its digest does not tell.
Conn == {ct \in [digest : Digests, nat : BOOLEAN] :
           ct.nat => ct.digest \in Natted}

Event ==
  [type : {"NEW", "UPDATE"}, id : Ids, ct : Conn]
    \cup [type : {"DESTROY"}, id : Ids, ct : {NULL}]

Flow == [id : Ids, digest : Digests, nat : BOOLEAN, updated_at : Nat]

ASSUME NullAssumption == NULL \notin Conn \cup Flow

TypeOK ==
  /\ conns \in [Ids -> Conn \cup {NULL}]
  /\ events \in Seq(Event)
  /\ ip_nat \subseteq Digests /\ translated \subseteq Digests
  /\ faults \in Nat /\ backlog \in Nat
  /\ pc \in {"dump", "run", "after"}
  /\ to_dump \subseteq Ids
  /\ ct_id_map \in [Ids -> Digests \cup {NULL}]
  /\ ct_flow_map \in [Digests -> Flow \cup {NULL}]
  /\ next_purge \in Nat /\ now \in Nat

-----------------------------------------------------------------------------
(* The kernel                                                              *)

\* An event is put on the socket, or lost
Notify(e) ==
  \/ /\ Len(events) < MaxEvents
     /\ events' = Append(events, e)
     /\ UNCHANGED faults
  \/ /\ faults < MaxFaults
     /\ faults' = faults + 1
     /\ UNCHANGED events

\* No two connections have the same addresses and ports, if they have ports
Free(d) ==
  d \in Portless \/ \A i \in Ids : conns[i] # NULL => conns[i].digest # d

KernelNew(i, ct) ==
  /\ conns[i] = NULL /\ Free(ct.digest)
  /\ conns' = [conns EXCEPT ![i] = ct]
  /\ Notify([type |-> "NEW", id |-> i, ct |-> ct])
  /\ translated' = translated \cup (IF ct.nat THEN {ct.digest} ELSE {})
  /\ UNCHANGED <<backlog, pc, to_dump, mapVars, next_purge, ip_nat, now>>

\* The state of a connection changes; its addresses and ports do not
KernelUpdate(i) ==
  /\ conns[i] # NULL
  /\ Notify([type |-> "UPDATE", id |-> i, ct |-> conns[i]])
  /\ UNCHANGED <<conns, backlog, pc, to_dump, mapVars, next_purge, ip_nat,
                 translated, now>>

KernelDestroy(i) ==
  /\ conns[i] # NULL
  /\ conns' = [conns EXCEPT ![i] = NULL]
  /\ Notify([type |-> "DESTROY", id |-> i, ct |-> NULL])
  /\ UNCHANGED <<backlog, pc, to_dump, mapVars, next_purge, ip_nat,
                 translated, now>>

\* A DESTROY event that could not be delivered is sent again later
KernelRetry ==
  /\ faults < MaxFaults /\ Len(events) > 1 /\ Head(events).type = "DESTROY"
  /\ events' = Append(Tail(events), Head(events))
  /\ faults' = faults + 1
  /\ UNCHANGED <<conns, backlog, pc, to_dump, mapVars, next_purge, ip_nat,
                 translated, now>>

\* Time passes; the dump takes less than a second.  An event from the time of
\* the dump that is still on the socket when the first purge is due, a TTL
\* later, is late.
Tick ==
  /\ now < MaxTime /\ pc # "dump"
  /\ now' = now + 1
  /\ faults' = IF backlog > 0 /\ now >= next_purge THEN faults + 1 ELSE faults
  /\ UNCHANGED <<conns, events, backlog, pc, to_dump, mapVars, next_purge,
                 ip_nat, translated>>

-----------------------------------------------------------------------------
(* The conntrack thread: ProcessConntrackEvent                             *)

\* ndConntrackFlow::Update: the addresses and ports of the event, which Hash
\* makes the digest of.  The id stays the one the flow was made with.
Update(i, ct) ==
  [id |-> i, digest |-> ct.digest, nat |-> ct.nat, updated_at |-> now]

\* A flow that was there under the digest is replaced
EventNew(i, ct) ==
  /\ ct_id_map' = [ct_id_map EXCEPT ![i] = ct.digest]
  /\ ct_flow_map' = [ct_flow_map EXCEPT ![ct.digest] = Update(i, ct)]

\* Mutant: the flow stays where it was when its digest changes
EventUpdateInPlace(i, ct) ==
  LET d == ct_id_map[i] flow == ct_flow_map[d] IN
  IF d = NULL THEN UNCHANGED mapVars
  ELSE IF flow = NULL
  THEN /\ ct_id_map' = [ct_id_map EXCEPT ![i] = NULL]
       /\ UNCHANGED ct_flow_map
  ELSE /\ ct_flow_map' = [ct_flow_map EXCEPT ![d] = Update(flow.id, ct)]
       /\ UNCHANGED ct_id_map

\* The flow under the id's digest, whichever connection made it, is updated
\* and moves to its new digest.  An id whose flow is gone is forgotten.
EventUpdate(i, ct) ==
  LET d == ct_id_map[i] flow == ct_flow_map[d] IN
  IF d = NULL THEN UNCHANGED mapVars
  ELSE IF flow = NULL
  THEN /\ ct_id_map' = [ct_id_map EXCEPT ![i] = NULL]
       /\ UNCHANGED ct_flow_map
  ELSE /\ ct_flow_map' = [ct_flow_map EXCEPT ![d] = NULL,
                                             ![ct.digest] = Update(flow.id, ct)]
       /\ ct_id_map' = [ct_id_map EXCEPT ![i] = ct.digest]

\* Mutant: the id is not forgotten
EventDestroyFlow(i) ==
  /\ UNCHANGED ct_id_map
  /\ ct_flow_map' = IF ct_id_map[i] = NULL THEN ct_flow_map
                    ELSE [ct_flow_map EXCEPT ![ct_id_map[i]] = NULL]

\* The flow under the id's digest, whichever connection made it, is deleted
EventDestroy(i) ==
  /\ ct_id_map' = [ct_id_map EXCEPT ![i] = NULL]
  /\ ct_flow_map' = IF ct_id_map[i] = NULL THEN ct_flow_map
                    ELSE [ct_flow_map EXCEPT ![ct_id_map[i]] = NULL]

\* DumpConntrackTable: a connection that is there is taken for a new one
DumpEntry(i) ==
  /\ pc = "dump" /\ i \in to_dump
  /\ IF conns[i] = NULL THEN UNCHANGED mapVars ELSE EventNew(i, conns[i])
  /\ to_dump' = to_dump \ {i}
  /\ UNCHANGED <<kernelVars, pc, next_purge, ip_nat, translated, now>>

\* Entry begins when the table has been dumped
DumpEnd ==
  /\ pc = "dump" /\ to_dump = {}
  /\ pc' = "run"
  /\ next_purge' = now + Ttl
  /\ backlog' = Len(events)
  /\ UNCHANGED <<conns, events, faults, to_dump, mapVars, ip_nat,
                 translated, now>>

ProcessConntrackEvent ==
  /\ pc = "run" /\ events # <<>>
  /\ LET e == Head(events) IN
       CASE e.type = "NEW"     -> EventNew(e.id, e.ct)
         [] e.type = "UPDATE"  -> EventUpdate(e.id, e.ct)
         [] e.type = "DESTROY" -> EventDestroy(e.id)
  /\ events' = Tail(events)
  /\ backlog' = IF backlog = 0 THEN 0 ELSE backlog - 1
  /\ pc' = "after"
  /\ UNCHANGED <<conns, faults, to_dump, next_purge, ip_nat, translated, now>>

\* Mutant: a flow expires only after its last second
HasExpiredLate(flow) == flow.updated_at + Ttl < now

HasExpired(flow) == flow.updated_at + Ttl <= now

Expired ==
  {d \in Digests : ct_flow_map[d] # NULL /\ HasExpired(ct_flow_map[d])}

\* Each takes its own id with it
PurgeFlows ==
  LET ids == {ct_flow_map[d].id : d \in Expired} IN
  /\ ct_flow_map' = [d \in Digests |->
                       IF d \in Expired THEN NULL ELSE ct_flow_map[d]]
  /\ ct_id_map' = [i \in Ids |-> IF i \in ids THEN NULL ELSE ct_id_map[i]]

\* The rest of nd_ct_event_callback
AfterEvent ==
  /\ pc = "after"
  /\ pc' = "run"
  /\ IF now > next_purge
     THEN PurgeFlows /\ next_purge' = now + Ttl + Slack
     ELSE UNCHANGED <<mapVars, next_purge>>
  /\ UNCHANGED <<kernelVars, to_dump, ip_nat, translated, now>>

-----------------------------------------------------------------------------
(* Detection threads                                                       *)

\* UpdateFlow, for a flow whose addresses and ports make the digest d
UpdateFlow(d) ==
  /\ pc # "dump" /\ ct_flow_map[d] # NULL
  /\ ct_flow_map' = [ct_flow_map EXCEPT ![d].updated_at = now]
  /\ ip_nat' = IF ct_flow_map[d].nat THEN ip_nat \cup {d} ELSE ip_nat
  /\ UNCHANGED <<kernelVars, pc, to_dump, ct_id_map, next_purge, translated,
                 now>>

-----------------------------------------------------------------------------
Init ==
  /\ conns \in [Ids -> Conn \cup {NULL}]
  /\ \A i, j \in Ids :
       i # j /\ conns[i] # NULL /\ conns[j] # NULL =>
         conns[i].digest # conns[j].digest \/ conns[i].digest \in Portless
  /\ events = <<>> /\ faults = 0 /\ backlog = 0
  /\ pc = "dump" /\ to_dump = Ids
  /\ ct_id_map = [i \in Ids |-> NULL]
  /\ ct_flow_map = [d \in Digests |-> NULL]
  /\ next_purge = 0 /\ ip_nat = {} /\ now = 0
  /\ translated = {d \in Digests :
                     \E i \in Ids : conns[i] = [digest |-> d, nat |-> TRUE]}

KernelStep ==
  \/ \E i \in Ids :
       \/ \E ct \in Conn : KernelNew(i, ct)
       \/ KernelUpdate(i) \/ KernelDestroy(i)
  \/ KernelRetry

Next ==
  \/ KernelStep \/ Tick
  \/ (\E i \in Ids : DumpEntry(i)) \/ DumpEnd
  \/ ProcessConntrackEvent \/ AfterEvent
  \/ \E d \in Digests : UpdateFlow(d)

Spec == Init /\ [][Next]_vars

-----------------------------------------------------------------------------
\* A flow is in the map once, under its own digest, whatever events are lost
\* or late: it is found by that digest only, and deleted once.
Keyed ==
  \A d \in Digests : ct_flow_map[d] # NULL => ct_flow_map[d].digest = d

\* A flow is flagged ip_nat only if there was a translated connection with just
\* its addresses and ports, even when ids are used again and an UPDATE meets
\* the flow of another connection.
NatJustified == ip_nat \subseteq translated

\* As long as no event is lost or late, and whatever changes while the table
\* is dumped, the maps agree with the kernel once all events are applied: every
\* flow is a live connection's, under its id.  With ports, it also knows
\* whether it is translated, and every id has its flow; without, connections
\* share a flow, which the NEW of another replaces, an UPDATE overwrites and a
\* DESTROY deletes.  (A connection may be missing: PurgeFlows forgets the ones
\* that are idle.)  Events from the time of the dump are applied to maps that
\* are ahead of them; a purge in between would take an id from the flow that
\* its DESTROY has yet to find.
AgreesWithKernel ==
  pc = "run" /\ events = <<>> /\ faults = 0 =>
    /\ \A d \in Digests : ct_flow_map[d] # NULL =>
         LET flow == ct_flow_map[d] ct == conns[flow.id] IN
         /\ ct_id_map[flow.id] = d
         /\ ct # NULL /\ ct.digest = d
         /\ d \notin Portless => flow.nat = ct.nat
    /\ \A i \in Ids : ct_id_map[i] \notin Portless \cup {NULL} =>
         /\ ct_flow_map[ct_id_map[i]] # NULL
         /\ ct_flow_map[ct_id_map[i]].id = i

\* What a lost or late event leaves behind is not served for ever: after an
\* event, no flow is left that was unused for two TTLs and a tenth.
StaleBounded ==
  pc = "after" /\ now <= next_purge =>
    \A d \in Digests : ct_flow_map[d] # NULL =>
      now - ct_flow_map[d].updated_at < 2 * Ttl + Slack
=============================================================================
