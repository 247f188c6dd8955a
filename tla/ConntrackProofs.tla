-------------------------- MODULE ConntrackProofs --------------------------
(***************************************************************************)
(* Proofs about Conntrack: type correctness, and that the agent's copy of  *)
(* the connection table files flows under their own digests (Keyed), flags *)
(* only translated connections (NatJustified), forgets what a lost or late *)
(* event left behind (StaleBounded) and agrees with the kernel's table as  *)
(* long as no event is lost or late (AgreesWithKernel), for any ids,       *)
(* digests, TTL and any events.                                            *)
(***************************************************************************)
EXTENDS Conntrack, TLAPS

\* If something is translated, there was such a connection.
Justified(ct) == ct.nat => ct.digest \in translated

\* Whatever is known of a connection being translated comes from the kernel.
NatKnown ==
  /\ \A i \in Ids : conns[i] # NULL => Justified(conns[i])
  /\ \A n \in 1..Len(events) :
       events[n].type # "DESTROY" => Justified(events[n].ct)
  /\ \A d \in Digests : ct_flow_map[d] # NULL => Justified(ct_flow_map[d])

\* A purge is never further away than a TTL and a tenth, and what the last
\* one left in the map had not expired then.
Fresh ==
  /\ pc = "dump" =>
       \A d \in Digests : ct_flow_map[d] # NULL =>
         ct_flow_map[d].updated_at = now
  /\ pc # "dump" =>
       /\ next_purge <= now + Ttl + Slack
       /\ \A d \in Digests : ct_flow_map[d] # NULL =>
            next_purge < ct_flow_map[d].updated_at + 2 * Ttl + Slack

ConnInv == TypeOK /\ Keyed /\ NatKnown /\ NatJustified /\ Fresh

-----------------------------------------------------------------------------
LEMMA SeqFacts ==
  ASSUME NEW S, NEW q \in Seq(S)
  PROVE  /\ \A x \in S : Append(q, x) \in Seq(S)
         /\ q # <<>> => Head(q) \in S /\ Tail(q) \in Seq(S)
         /\ Len(q) > 1 => q # <<>>
OBVIOUS

LEMMA AppendFacts ==
  ASSUME NEW q \in Seq(Event), NEW e \in Event
  PROVE  /\ Len(q) \in Nat /\ Len(Append(q, e)) = Len(q) + 1
         /\ \A n \in 1..Len(q) : Append(q, e)[n] = q[n]
         /\ Append(q, e)[Len(q) + 1] = e
OBVIOUS

LEMMA TailFacts ==
  ASSUME NEW q \in Seq(Event), q # <<>>
  PROVE  /\ Len(q) \in Nat \ {0} /\ Len(Tail(q)) = Len(q) - 1
         /\ Head(q) = q[1] /\ Head(q) \in Event
         /\ \A n \in 1..Len(Tail(q)) : Tail(q)[n] = q[n + 1]
OBVIOUS

\* What the maps hold is either made of the event at hand or was there.
FlowOk(flow, d) ==
  /\ flow \in Flow
  /\ flow.digest = d
  /\ Justified(flow)
  /\ pc = "dump" => flow.updated_at = now
  /\ pc # "dump" => next_purge < flow.updated_at + 2 * Ttl + Slack

LEMMA UpdateOk ==
  ASSUME ConnInv, NEW i \in Ids, NEW ct \in Conn, Justified(ct)
  PROVE  FlowOk(Update(i, ct), ct.digest)
<1> USE ConntrackAssumption
<1>1. Update(i, ct) \in Flow
  BY DEF Update, Flow, Conn, ConnInv, TypeOK
<1>2. now \in Nat /\ next_purge \in Nat
  BY DEF ConnInv, TypeOK
<1> QED
  BY <1>1, <1>2 DEF FlowOk, Update, Justified, ConnInv, Fresh

LEMMA MapOk ==
  ASSUME ConnInv, NEW d \in Digests, ct_flow_map[d] # NULL
  PROVE  FlowOk(ct_flow_map[d], d)
BY DEF FlowOk, ConnInv, TypeOK, Keyed, NatKnown, Fresh

\* The three kinds of events keep the maps well typed and their flows as
\* they have to be.
MapsOk ==
  /\ ct_id_map' \in [Ids -> Digests \cup {NULL}]
  /\ ct_flow_map' \in [Digests -> Flow \cup {NULL}]
  /\ \A d \in Digests : ct_flow_map'[d] # NULL => FlowOk(ct_flow_map'[d], d)

LEMMA NewOk ==
  ASSUME ConnInv, NEW i \in Ids, NEW ct \in Conn, Justified(ct),
         EventNew(i, ct)
  PROVE  MapsOk
<1>1. FlowOk(Update(i, ct), ct.digest) /\ ct.digest \in Digests
  BY UpdateOk DEF Conn
<1>2. ct_flow_map' \in [Digests -> Flow \cup {NULL}]
  BY <1>1 DEF EventNew, ConnInv, TypeOK, FlowOk
<1>3. ct_id_map' \in [Ids -> Digests \cup {NULL}]
  BY <1>1 DEF EventNew, ConnInv, TypeOK
<1>4. ASSUME NEW d \in Digests, ct_flow_map'[d] # NULL
      PROVE  FlowOk(ct_flow_map'[d], d)
  <2>1. CASE d = ct.digest
    BY <1>1, <2>1 DEF EventNew, ConnInv, TypeOK
  <2>2. CASE d # ct.digest
    BY <1>4, <2>2, MapOk DEF EventNew, ConnInv, TypeOK
  <2> QED BY <2>1, <2>2
<1> QED
  BY <1>2, <1>3, <1>4 DEF MapsOk

LEMMA SameOk ==
  ASSUME ConnInv, UNCHANGED mapVars
  PROVE  MapsOk
<1>1. ct_flow_map' = ct_flow_map /\ ct_id_map' = ct_id_map
  BY DEF mapVars
<1> QED
  BY <1>1, MapOk DEF MapsOk, ConnInv, TypeOK

LEMMA UpdateEventOk ==
  ASSUME ConnInv, NEW i \in Ids, NEW ct \in Conn, Justified(ct),
         EventUpdate(i, ct)
  PROVE  MapsOk
<1> DEFINE d == ct_id_map[i]
           flow == ct_flow_map[d]
<1> PICK c \in Digests : c = ct.digest
  BY DEF Conn
<1>1. CASE d = NULL
  BY <1>1, SameOk DEF EventUpdate
<1>2. CASE d # NULL /\ flow = NULL
  <2>1. /\ ct_flow_map' = ct_flow_map
        /\ ct_id_map' = [ct_id_map EXCEPT ![i] = NULL]
    BY <1>2 DEF EventUpdate
  <2> QED
    BY <2>1, MapOk DEF MapsOk, ConnInv, TypeOK
<1>3. CASE d # NULL /\ flow # NULL
  <2>1. d \in Digests /\ flow \in Flow
    BY <1>3 DEF ConnInv, TypeOK
  <2>2. flow.id \in Ids
    BY <2>1 DEF Flow
  <2>3. FlowOk(Update(flow.id, ct), c)
    BY <2>2, UpdateOk
  <2>4. /\ ct_flow_map' = [[ct_flow_map EXCEPT ![d] = NULL]
                             EXCEPT ![c] = Update(flow.id, ct)]
        /\ ct_id_map' = [ct_id_map EXCEPT ![i] = c]
    BY <1>3 DEF EventUpdate
  <2>5. ct_flow_map' \in [Digests -> Flow \cup {NULL}]
    BY <2>1, <2>3, <2>4 DEF ConnInv, TypeOK, FlowOk
  <2>6. ct_id_map' \in [Ids -> Digests \cup {NULL}]
    BY <2>4 DEF ConnInv, TypeOK
  <2>7. ASSUME NEW e \in Digests, ct_flow_map'[e] # NULL
        PROVE  FlowOk(ct_flow_map'[e], e)
    <3>1. CASE e = c
      BY <2>3, <2>4, <3>1 DEF ConnInv, TypeOK
    <3>2. CASE e # c
      <4>1. ct_flow_map'[e] = ct_flow_map[e]
        BY <2>1, <2>4, <2>7, <3>2 DEF ConnInv, TypeOK
      <4> QED BY <2>7, <4>1, MapOk
    <3> QED BY <3>1, <3>2
  <2> QED
    BY <2>5, <2>6, <2>7 DEF MapsOk
<1> QED
  BY <1>1, <1>2, <1>3

LEMMA DestroyOk ==
  ASSUME ConnInv, NEW i \in Ids, EventDestroy(i)
  PROVE  MapsOk
<1>1. ct_id_map' \in [Ids -> Digests \cup {NULL}]
  BY DEF EventDestroy, ConnInv, TypeOK
<1>2. ct_flow_map' \in [Digests -> Flow \cup {NULL}]
  BY DEF EventDestroy, ConnInv, TypeOK
<1>3. ASSUME NEW d \in Digests, ct_flow_map'[d] # NULL
      PROVE  ct_flow_map'[d] = ct_flow_map[d]
  BY <1>3 DEF EventDestroy, ConnInv, TypeOK
<1> QED
  BY <1>1, <1>2, <1>3, MapOk DEF MapsOk

\* From there the invariant follows for the steps that change the maps and
\* neither the clock nor the next purge.
LEMMA MapsInv ==
  ASSUME ConnInv, MapsOk, UNCHANGED <<ip_nat, translated, next_purge, now>>,
         pc' # "dump" <=> pc # "dump", pc' \in {"dump", "run", "after"},
         conns' = conns, faults' = faults, to_dump' \subseteq Ids,
         events' = events \/ (events # <<>> /\ events' = Tail(events)),
         backlog' \in Nat
  PROVE  ConnInv'
<1> PICK L : L = Len(events)
  OBVIOUS
<1>e. /\ L \in Nat /\ events' \in Seq(Event)
      /\ \A n \in 1..Len(events') : \E m \in 1..L : events'[n] = events[m]
  <2>1. events \in Seq(Event) /\ L \in Nat
    BY DEF ConnInv, TypeOK
  <2>2. CASE events' = events
    <3>1. Len(events') = L /\ \A n \in 1..L : events'[n] = events[n]
      BY <2>2
    <3> QED BY <2>1, <2>2, <3>1
  <2>3. CASE events # <<>> /\ events' = Tail(events)
    <3>1. /\ L \in Nat \ {0} /\ Len(events') = L - 1
          /\ \A n \in 1..(L - 1) : events'[n] = events[n + 1]
      BY <2>1, <2>3, TailFacts
    <3>2. \A n \in 1..(L - 1) : n + 1 \in 1..L
      BY <3>1
    <3> QED BY <2>1, <2>3, <3>1, <3>2, SeqFacts
  <2> QED BY <2>2, <2>3
<1>1. TypeOK'
  BY <1>e DEF ConnInv, TypeOK, MapsOk
<1>2. Keyed' /\ NatKnown'
  BY <1>e DEF MapsOk, FlowOk, Keyed, ConnInv, NatKnown, Justified
<1>3. NatJustified'
  BY DEF ConnInv, NatJustified
<1>4. Fresh'
  BY DEF MapsOk, FlowOk, ConnInv, Fresh
<1> QED
  BY <1>1, <1>2, <1>3, <1>4 DEF ConnInv

-----------------------------------------------------------------------------
LEMMA InitInv == Init => ConnInv
<1> SUFFICES ASSUME Init PROVE ConnInv
  OBVIOUS
<1>1. conns \in [Ids -> Conn \cup {NULL}] /\ events \in Seq(Event)
  BY DEF Init
<1>2. \A d \in Digests : ct_flow_map[d] = NULL
  BY DEF Init
<1>3. TypeOK
  BY <1>1 DEF Init, TypeOK
<1>4. Keyed /\ Fresh
  BY <1>2 DEF Init, Keyed, Fresh
<1>6. NatKnown
  <2>1. ASSUME NEW i \in Ids, conns[i] # NULL, conns[i].nat
        PROVE  conns[i].digest \in translated
    <3> PICK ct \in Conn : ct = conns[i]
      BY <1>1, <2>1
    <3>1. /\ ct.digest \in Digests
          /\ ct = [digest |-> ct.digest, nat |-> TRUE]
      BY <2>1 DEF Conn
    <3> QED BY <3>1 DEF Init
  <2>2. 1..Len(events) = {}
    BY DEF Init
  <2> QED BY <1>2, <2>1, <2>2 DEF NatKnown, Justified
<1>5. NatJustified
  BY DEF Init, NatJustified
<1> QED
  BY <1>3, <1>4, <1>5, <1>6 DEF ConnInv

LEMMA KernelInv ==
  ASSUME ConnInv, KernelStep
  PROVE  ConnInv'
<1> PICK L : L = Len(events)
  OBVIOUS
<1>0. events \in Seq(Event) /\ faults \in Nat /\ L \in Nat
  BY DEF ConnInv, TypeOK
<1>1. ASSUME conns' \in [Ids -> Conn \cup {NULL}],
             events' \in Seq(Event), faults' \in Nat,
             translated \subseteq translated', translated' \subseteq Digests,
             \A i \in Ids : conns'[i] # NULL => Justified(conns[i])',
             \A n \in 1..Len(events') :
               events'[n].type # "DESTROY" => Justified(events[n].ct)',
             UNCHANGED <<backlog, pc, to_dump, mapVars, next_purge, ip_nat,
                         now>>
      PROVE  ConnInv'
  BY <1>1 DEF ConnInv, TypeOK, mapVars, Keyed, NatKnown, NatJustified, Fresh,
              Justified
\* An event that is justified comes to those that are.
<1>2. ASSUME NEW e \in Event, Notify(e), translated \subseteq translated',
             e.type # "DESTROY" => (e.ct.nat => e.ct.digest \in translated')
      PROVE  /\ events' \in Seq(Event) /\ faults' \in Nat
             /\ \A n \in 1..Len(events') :
                  events'[n].type # "DESTROY" => Justified(events[n].ct)'
  <2>1. \A n \in 1..L :
          events[n].type # "DESTROY" =>
            (events[n].ct.nat => events[n].ct.digest \in translated')
    BY <1>2 DEF ConnInv, NatKnown, Justified
  <2>2. CASE events' = events /\ faults' = faults + 1
    BY <1>0, <2>1, <2>2 DEF Justified
  <2>3. CASE events' = Append(events, e) /\ faults' = faults
    <3>1. /\ Len(events') = L + 1 /\ events'[L + 1] = e
          /\ \A n \in 1..L : events'[n] = events[n]
      BY <1>0, <2>3, AppendFacts
    <3>2. \A n \in 1..(L + 1) : n \in 1..L \/ n = L + 1
      BY <1>0
    <3>3. events' \in Seq(Event)
      BY <1>0, <2>3, SeqFacts
    <3> QED BY <1>0, <1>2, <2>1, <2>3, <3>1, <3>2, <3>3 DEF Justified
  <2> QED BY <1>2, <2>2, <2>3 DEF Notify
<1>3. ASSUME NEW i \in Ids, NEW ct \in Conn, KernelNew(i, ct)
      PROVE  ConnInv'
  <2> PICK e : e = [type |-> "NEW", id |-> i, ct |-> ct]
    OBVIOUS
  <2>1. e \in Event /\ e.ct = ct
    BY DEF Event
  <2>2. /\ translated \subseteq translated' /\ translated' \subseteq Digests
        /\ ct.nat => ct.digest \in translated'
    BY <1>3 DEF KernelNew, Conn, ConnInv, TypeOK
  <2>3. /\ conns' = [conns EXCEPT ![i] = ct]
        /\ conns \in [Ids -> Conn \cup {NULL}] /\ Notify(e)
        /\ UNCHANGED <<backlog, pc, to_dump, mapVars, next_purge, ip_nat, now>>
    BY <1>3 DEF KernelNew, ConnInv, TypeOK
  <2>4. /\ conns' \in [Ids -> Conn \cup {NULL}]
        /\ \A j \in Ids : conns'[j] # NULL => Justified(conns[j])'
    BY <2>2, <2>3 DEF ConnInv, NatKnown, Justified
  <2>5. /\ events' \in Seq(Event) /\ faults' \in Nat
        /\ \A n \in 1..Len(events') :
             events'[n].type # "DESTROY" => Justified(events[n].ct)'
    BY <1>2, <2>1, <2>2, <2>3
  <2> QED BY <1>1, <2>2, <2>3, <2>4, <2>5
<1>4. ASSUME NEW i \in Ids, KernelUpdate(i)
      PROVE  ConnInv'
  <2> PICK e : e = [type |-> "UPDATE", id |-> i, ct |-> conns[i]]
    OBVIOUS
  <2>1. e \in Event /\ e.ct = conns[i] /\ conns[i] # NULL
    BY <1>4 DEF KernelUpdate, Event, ConnInv, TypeOK
  <2>2. /\ translated' = translated /\ conns' = conns /\ Notify(e)
        /\ UNCHANGED <<backlog, pc, to_dump, mapVars, next_purge, ip_nat, now>>
    BY <1>4 DEF KernelUpdate
  <2>3. /\ \A j \in Ids : conns'[j] # NULL => Justified(conns[j])'
        /\ conns \in [Ids -> Conn \cup {NULL}] /\ translated \subseteq Digests
    BY <2>2 DEF ConnInv, TypeOK, NatKnown, Justified
  <2>4. e.ct.nat => e.ct.digest \in translated'
    BY <2>1, <2>2 DEF ConnInv, NatKnown, Justified
  <2>5. /\ events' \in Seq(Event) /\ faults' \in Nat
        /\ \A n \in 1..Len(events') :
             events'[n].type # "DESTROY" => Justified(events[n].ct)'
    BY <1>2, <2>1, <2>2, <2>4
  <2> QED BY <1>1, <2>2, <2>3, <2>5
<1>5. ASSUME NEW i \in Ids, KernelDestroy(i)
      PROVE  ConnInv'
  <2> PICK e : e = [type |-> "DESTROY", id |-> i, ct |-> NULL]
    OBVIOUS
  <2>1. e \in Event /\ e.type = "DESTROY"
    BY DEF Event
  <2>2. /\ translated' = translated /\ conns' = [conns EXCEPT ![i] = NULL]
        /\ Notify(e)
        /\ UNCHANGED <<backlog, pc, to_dump, mapVars, next_purge, ip_nat, now>>
    BY <1>5 DEF KernelDestroy
  <2>3. /\ \A j \in Ids : conns'[j] # NULL => Justified(conns[j])'
        /\ conns' \in [Ids -> Conn \cup {NULL}]
        /\ translated \subseteq Digests
    BY <2>2 DEF ConnInv, TypeOK, NatKnown, Justified
  <2>4. /\ events' \in Seq(Event) /\ faults' \in Nat
        /\ \A n \in 1..Len(events') :
             events'[n].type # "DESTROY" => Justified(events[n].ct)'
    BY <1>2, <2>1, <2>2
  <2> QED BY <1>1, <2>2, <2>3, <2>4
<1>6. ASSUME KernelRetry
      PROVE  ConnInv'
  <2> PICK t, e : t = Tail(events) /\ e = Head(events)
    OBVIOUS
  <2>1. events # <<>> /\ L > 1
    BY <1>0, <1>6, SeqFacts DEF KernelRetry
  <2>2. /\ e \in Event /\ t \in Seq(Event) /\ Len(t) = L - 1
        /\ \A n \in 1..(L - 1) : t[n] = events[n + 1]
    BY <1>0, <2>1, SeqFacts, TailFacts
  <2>3. /\ events' = Append(t, e) /\ e.type = "DESTROY" /\ conns' = conns
        /\ faults' = faults + 1 /\ translated' = translated
        /\ UNCHANGED <<backlog, pc, to_dump, mapVars, next_purge, ip_nat, now>>
    BY <1>6 DEF KernelRetry
  <2>4. /\ Len(events') = L /\ events'[L] = e /\ events' \in Seq(Event)
        /\ \A n \in 1..(L - 1) : events'[n] = t[n]
    <3>1. (L - 1) + 1 = L
      BY <1>0
    <3> QED BY <2>2, <2>3, <3>1, AppendFacts, SeqFacts
  <2>5. \A n \in 1..L : n = L \/ (n \in 1..(L - 1) /\ n + 1 \in 1..L)
    BY <1>0
  <2>6. \A n \in 1..L : events'[n].type # "DESTROY" => Justified(events[n].ct)'
    BY <2>2, <2>3, <2>4, <2>5 DEF ConnInv, NatKnown, Justified
  <2>7. /\ \A j \in Ids : conns'[j] # NULL => Justified(conns[j])'
        /\ conns \in [Ids -> Conn \cup {NULL}] /\ translated \subseteq Digests
    BY <2>3 DEF ConnInv, TypeOK, NatKnown, Justified
  <2>8. faults' \in Nat
    BY <1>0, <2>3
  <2> QED BY <1>1, <2>3, <2>4, <2>6, <2>7, <2>8
<1> QED
  BY <1>3, <1>4, <1>5, <1>6 DEF KernelStep

LEMMA TickInv ==
  ASSUME ConnInv, Tick
  PROVE  ConnInv'
BY ConntrackAssumption
DEF Tick, ConnInv, TypeOK, kernelVars, mapVars, Keyed, NatKnown,
    Justified, NatJustified, Fresh

LEMMA DumpInv ==
  ASSUME ConnInv, (\E i \in Ids : DumpEntry(i)) \/ DumpEnd
  PROVE  ConnInv'
<1>1. ASSUME NEW i \in Ids, DumpEntry(i) PROVE ConnInv'
  <2>1. MapsOk
    <3>1. CASE conns[i] = NULL
      BY <1>1, <3>1, SameOk DEF DumpEntry
    <3>2. CASE conns[i] # NULL
      <4>1. conns[i] \in Conn /\ Justified(conns[i])
        BY <3>2 DEF ConnInv, TypeOK, NatKnown
      <4> QED BY <1>1, <3>2, <4>1, NewOk DEF DumpEntry
    <3> QED BY <3>1, <3>2
  <2>2. /\ conns' = conns /\ events' = events /\ faults' = faults
        /\ to_dump' \subseteq Ids /\ backlog' \in Nat /\ pc' = pc
        /\ UNCHANGED <<ip_nat, translated, next_purge, now>>
    BY <1>1 DEF DumpEntry, kernelVars, ConnInv, TypeOK
  <2>3. pc' \in {"dump", "run", "after"} /\ (pc' # "dump" <=> pc # "dump")
    BY <2>2 DEF ConnInv, TypeOK
  <2>4. events' = events \/ (events # <<>> /\ events' = Tail(events))
    BY <2>2
  <2> QED
    BY <2>1, <2>2, <2>3, <2>4, MapsInv
<1>2. CASE DumpEnd
  <2>1. TypeOK'
    BY <1>2, ConntrackAssumption
    DEF DumpEnd, ConnInv, TypeOK, kernelVars, mapVars
  <2>2. Fresh'
    <3>1. ASSUME NEW d \in Digests, ct_flow_map[d] # NULL
          PROVE  now + Ttl < ct_flow_map[d].updated_at + 2 * Ttl + Slack
      BY <1>2, <3>1, ConntrackAssumption DEF DumpEnd, ConnInv, TypeOK, Fresh
    <3> QED
      BY <1>2, <3>1, ConntrackAssumption
      DEF DumpEnd, mapVars, ConnInv, TypeOK, Fresh
  <2> QED
    BY <1>2, <2>1, <2>2
    DEF DumpEnd, mapVars, ConnInv, Keyed, NatKnown, Justified, NatJustified
<1> QED
  BY <1>1, <1>2

LEMMA EventInv ==
  ASSUME ConnInv, ProcessConntrackEvent
  PROVE  ConnInv'
<1> DEFINE e == Head(events)
<1>1. e \in Event /\ Tail(events) \in Seq(Event)
  BY SeqFacts DEF ProcessConntrackEvent, ConnInv, TypeOK
<1>2. /\ e.id \in Ids /\ e.type \in {"NEW", "UPDATE", "DESTROY"}
      /\ e.type # "DESTROY" => e.ct \in Conn /\ Justified(e.ct)
  <2>1. Len(events) \in Nat \ {0} /\ e = events[1]
    BY TailFacts DEF ProcessConntrackEvent, ConnInv, TypeOK
  <2> QED BY <1>1, <2>1 DEF Event, ConnInv, NatKnown
<1>3. MapsOk
  <2>1. CASE e.type = "NEW"
    BY <1>2, <2>1, NewOk DEF ProcessConntrackEvent
  <2>2. CASE e.type = "UPDATE"
    BY <1>2, <2>2, UpdateEventOk DEF ProcessConntrackEvent
  <2>3. CASE e.type = "DESTROY"
    BY <1>2, <2>3, DestroyOk DEF ProcessConntrackEvent
  <2> QED BY <1>2, <2>1, <2>2, <2>3
<1>4. /\ to_dump' \subseteq Ids /\ backlog' \in Nat
      /\ events # <<>> /\ events' = Tail(events)
  BY <1>1 DEF ProcessConntrackEvent, ConnInv, TypeOK
<1> QED
  BY <1>3, <1>4, MapsInv DEF ProcessConntrackEvent

LEMMA AfterInv ==
  ASSUME ConnInv, AfterEvent
  PROVE  ConnInv'
<1> USE ConntrackAssumption
<1>1. CASE now > next_purge
  <2>1. \A d \in Digests : ct_flow_map'[d] # NULL =>
          /\ ct_flow_map'[d] = ct_flow_map[d]
          /\ now < ct_flow_map[d].updated_at + Ttl
    <3> SUFFICES ASSUME NEW d \in Digests, ct_flow_map'[d] # NULL
                 PROVE  /\ ct_flow_map'[d] = ct_flow_map[d]
                        /\ now < ct_flow_map[d].updated_at + Ttl
      OBVIOUS
    <3>1. d \notin Expired /\ ct_flow_map'[d] = ct_flow_map[d]
      BY <1>1 DEF AfterEvent, PurgeFlows
    <3>2. ct_flow_map[d] \in Flow /\ now \in Nat
      BY <3>1 DEF ConnInv, TypeOK
    <3>3. ct_flow_map[d].updated_at \in Nat
      BY <3>2 DEF Flow
    <3> QED
      BY <3>1, <3>2, <3>3 DEF Expired, HasExpired
  <2>2. ct_flow_map' \in [Digests -> Flow \cup {NULL}]
    BY <1>1 DEF AfterEvent, PurgeFlows, ConnInv, TypeOK
  <2>3. ct_id_map' \in [Ids -> Digests \cup {NULL}]
    BY <1>1 DEF AfterEvent, PurgeFlows, ConnInv, TypeOK
  <2>4. TypeOK'
    BY <1>1, <2>2, <2>3 DEF AfterEvent, ConnInv, TypeOK, kernelVars
  <2>5. Keyed' /\ NatKnown' /\ NatJustified'
    BY <2>1
    DEF AfterEvent, kernelVars, ConnInv, Keyed, NatKnown, Justified,
        NatJustified
  <2>6. Fresh'
    <3>1. /\ pc' = "run" /\ now' = now /\ now \in Nat
          /\ next_purge' = now + Ttl + Slack
      BY <1>1 DEF AfterEvent, ConnInv, TypeOK
    <3>2. ASSUME NEW d \in Digests, ct_flow_map'[d] # NULL
          PROVE  next_purge' < ct_flow_map'[d].updated_at + 2 * Ttl + Slack
      <4>1. ct_flow_map[d].updated_at \in Nat
        BY <2>1, <3>2 DEF ConnInv, TypeOK, Flow
      <4> QED BY <2>1, <3>1, <3>2, <4>1
    <3> QED BY <3>1, <3>2 DEF Fresh
  <2> QED
    BY <2>4, <2>5, <2>6 DEF ConnInv
<1>2. CASE ~(now > next_purge)
  BY <1>2 DEF AfterEvent, kernelVars, mapVars, ConnInv, TypeOK, Keyed,
              NatKnown, Justified, NatJustified, Fresh
<1> QED
  BY <1>1, <1>2

LEMMA FlowInv ==
  ASSUME ConnInv, NEW d \in Digests, UpdateFlow(d)
  PROVE  ConnInv'
<1> USE ConntrackAssumption
<1> DEFINE flow == ct_flow_map[d]
           renewed == [flow EXCEPT !.updated_at = now]
<1>1. /\ FlowOk(flow, d)
      /\ ct_flow_map' = [ct_flow_map EXCEPT ![d] = renewed]
  BY MapOk DEF UpdateFlow
<1>2. /\ renewed \in Flow /\ renewed.updated_at = now
      /\ renewed.digest = flow.digest /\ renewed.nat = flow.nat
  BY <1>1 DEF FlowOk, Flow, ConnInv, TypeOK
<1>3. FlowOk(renewed, d)
  BY <1>1, <1>2 DEF FlowOk, Justified, ConnInv, TypeOK, Fresh
<1>4. MapsOk
  <2>1. ct_flow_map' \in [Digests -> Flow \cup {NULL}]
    BY <1>1, <1>2 DEF ConnInv, TypeOK
  <2>2. ct_id_map' \in [Ids -> Digests \cup {NULL}]
    BY DEF UpdateFlow, ConnInv, TypeOK
  <2>3. ASSUME NEW e \in Digests, ct_flow_map'[e] # NULL
        PROVE  FlowOk(ct_flow_map'[e], e)
    <3>1. CASE e = d
      BY <1>1, <1>3, <3>1 DEF ConnInv, TypeOK
    <3>2. CASE e # d
      BY <1>1, <2>3, <3>2, MapOk DEF ConnInv, TypeOK
    <3> QED BY <3>1, <3>2
  <2> QED BY <2>1, <2>2, <2>3 DEF MapsOk
<1>5. ip_nat' \subseteq translated /\ ip_nat' \subseteq Digests
  <2>1. flow.nat => d \in translated
    BY <1>1 DEF FlowOk, Justified
  <2> QED
    BY <2>1 DEF UpdateFlow, ConnInv, TypeOK, NatJustified
<1>6. Keyed' /\ NatKnown'
  BY <1>4
  DEF MapsOk, FlowOk, Keyed, ConnInv, NatKnown, Justified, UpdateFlow,
      kernelVars
<1>7. Fresh'
  BY <1>4 DEF MapsOk, FlowOk, UpdateFlow, ConnInv, Fresh
<1>8. TypeOK'
  BY <1>4, <1>5 DEF MapsOk, UpdateFlow, kernelVars, ConnInv, TypeOK
<1> QED
  BY <1>5, <1>6, <1>7, <1>8 DEF ConnInv, NatJustified, UpdateFlow

-----------------------------------------------------------------------------
\* The inductive invariant of connection tracking: whatever the kernel sends,
\* and with ids used again, every flow is filed under its own digest, knows
\* whether its addresses are translated, and was used since the last purge
\* but one.
THEOREM ConntrackInvariant == Spec => []ConnInv
<1>1. ConnInv /\ [Next]_vars => ConnInv'
  <2> SUFFICES ASSUME ConnInv, [Next]_vars PROVE ConnInv'
    OBVIOUS
  <2>1. CASE UNCHANGED vars
    BY <2>1 DEF vars, kernelVars, mapVars, ConnInv, TypeOK, Keyed, NatKnown,
                Justified, NatJustified, Fresh
  <2>2. CASE Next
    BY <2>2, KernelInv, TickInv, DumpInv, EventInv, AfterInv, FlowInv DEF Next
  <2> QED BY <2>1, <2>2
<1> QED
  BY <1>1, InitInv, PTL DEF Spec

\* The maps of the conntrack thread stay well typed: an id that is in the map
\* has a digest, and a flow all its fields.
THEOREM ConntrackTypeCorrect == Spec => []TypeOK
BY ConntrackInvariant, PTL DEF ConnInv

\* A flow is in ct_flow_map once, under its own digest, whatever events are
\* lost or late, and however ids are used again.
THEOREM FlowsKeyed == Spec => []Keyed
BY ConntrackInvariant, PTL DEF ConnInv

\* UpdateFlow flags a flow ip_nat only if there was a translated connection
\* with just its addresses and ports: what the flow it finds says of them was
\* said by the kernel, of a connection with this digest.
THEOREM NatFlagsJustified == Spec => []NatJustified
BY ConntrackInvariant, PTL DEF ConnInv

\* What a lost or late event leaves behind is gone after two TTLs and a
\* tenth, once an event makes the thread purge.
THEOREM StaleForgotten == Spec => []StaleBounded
<1>1. ConnInv => StaleBounded
  <2> SUFFICES ASSUME ConnInv, pc = "after", now <= next_purge,
                      NEW d \in Digests, ct_flow_map[d] # NULL
               PROVE  now - ct_flow_map[d].updated_at < 2 * Ttl + Slack
    BY DEF StaleBounded
  <2>1. ct_flow_map[d].updated_at \in Nat /\ now \in Nat /\ next_purge \in Nat
    BY DEF ConnInv, TypeOK, Flow
  <2>2. next_purge < ct_flow_map[d].updated_at + 2 * Ttl + Slack
    BY DEF ConnInv, Fresh
  <2> QED BY <2>1, <2>2, ConntrackAssumption
<1> QED
  BY <1>1, ConntrackInvariant, PTL
-----------------------------------------------------------------------------
(* Agreement with the kernel.  The invariant follows the kernel's table    *)
(* through the events on the socket.                                       *)

Table == [Ids -> Conn \cup {NULL}]

IdMap == [Ids -> Digests \cup {NULL}]

Has(T, i, d) == T[i] # NULL /\ T[i].digest = d

\* No two connections of a table have the same addresses and ports
OneEach(T) ==
  \A i, j \in Ids, d \in Digests \ Portless :
    Has(T, i, d) /\ Has(T, j, d) => i = j

\* What an event says of the table before it and of the one after it
Applied(e, before, after) ==
  /\ e.type = "NEW" => before[e.id] = NULL
  /\ e.type = "UPDATE" => before[e.id] = e.ct
  /\ after = [before EXCEPT ![e.id] = e.ct]

Creates(m, i, d) ==
  events[m].type = "NEW" /\ events[m].id = i /\ events[m].ct.digest = d

Destroys(m, i) == events[m].type = "DESTROY" /\ events[m].id = i

\* K is the kernel's table as it was before each event on the socket, and is
\* now
Chained(K) ==
  /\ K \in [1..(Len(events) + 1) -> Table]
  /\ K[Len(events) + 1] = conns
  /\ \A n \in 1..Len(events) : Applied(events[n], K[n], K[n + 1])
  /\ \A n \in 1..(Len(events) + 1) : OneEach(K[n])

\* A connection leaves the table with a DESTROY
Leaves(K) ==
  \A p \in 1..(Len(events) + 1), i \in Ids :
    K[p][i] # NULL /\ conns[i] # K[p][i] =>
      \E m \in p..Len(events) : Destroys(m, i)

\* and enters it with a NEW,
Enters(K) ==
  \A p \in 1..(Len(events) + 1), i \in Ids :
    conns[i] # NULL =>
      \/ K[p][i] = conns[i]
      \/ \E m \in p..Len(events) : Creates(m, i, conns[i].digest)

\* before which those that had its id or its addresses and ports have left.
Makes(K) ==
  \A n \in 1..Len(events), p \in 1..(Len(events) + 1), i \in Ids :
    /\ p <= n /\ events[n].type = "NEW"
    /\ \/ /\ Has(K[p], i, events[n].ct.digest)
          /\ events[n].ct.digest \notin Portless
       \/ events[n].id = i /\ K[p][i] # NULL
    => \E m \in p..(n - 1) : Destroys(m, i)

History(K) == Chained(K) /\ Leaves(K) /\ Enters(K) /\ Makes(K)

\* The events that were on the socket when the dump ended, or are there while
\* it goes on: the maps may be ahead of them.
Window == IF pc = "dump" THEN Len(events) ELSE backlog

\* An event of the window, from the n-th on
WillCreate(n, i, d) == \E m \in n..Window : Creates(m, i, d)
WillDestroy(n, i) == \E m \in n..Window : Destroys(m, i)

\* How the maps are related to the table B that the n-th event changes: what
\* is wrong in them some event of the window will put right.
IdsSynced(n, B, ids) ==
  \A i \in Ids :
    ids[i] # NULL => Has(B, i, ids[i]) \/ WillCreate(n, i, ids[i])

\* The flow is the connection's; with ports, it tells if it is translated.
Serves(flow, h, B, d) ==
  flow.id = h /\ (d \notin Portless => flow.nat = B[h].nat)

FlowsSynced(n, B, ids, flows) ==
  \A d \in Digests : flows[d] # NULL =>
    \/ \E k \in Ids : WillCreate(n, k, d)
    \/ \E h \in Ids : /\ Has(B, h, d) /\ ids[h] = d
                      /\ Serves(flows[d], h, B, d) \/ WillDestroy(n, h)

\* With ports, no other connection takes the flow of an id.
FlowsThere(n, ids, flows) ==
  \A i \in Ids : ids[i] \notin Portless \cup {NULL} =>
    \/ flows[ids[i]] # NULL
    \/ WillCreate(n, i, ids[i]) \/ WillDestroy(n, i)

Synced(n, B, ids, flows) ==
  /\ IdsSynced(n, B, ids)
  /\ FlowsSynced(n, B, ids, flows)
  /\ FlowsThere(n, ids, flows)

\* No purge before the window is empty; the dump visits each id once.
Timely ==
  /\ pc # "dump" => backlog <= Len(events)
  /\ pc # "dump" /\ backlog > 0 => now <= next_purge
  /\ pc = "dump" => \A i \in to_dump : ct_id_map[i] = NULL

AgreeInv ==
  faults = 0 =>
    /\ Timely
    /\ \E K : History(K) /\ Synced(1, K[1], ct_id_map, ct_flow_map)

-----------------------------------------------------------------------------
\* A kernel step puts its event at the end of the history.
LEMMA AppendHistory ==
  ASSUME TypeOK, NEW K, History(K), NEW e \in Event,
         events' = Append(events, e), conns' \in Table,
         Applied(e, conns, conns'), OneEach(conns'),
         e.type = "NEW" => Free(e.ct.digest)
  PROVE  \E J : History(J)' /\ J[1] = K[1]
<1> PICK L : L = Len(events)
  OBVIOUS
<1> PICK J : J = [n \in 1..(L + 2) |-> IF n = L + 2 THEN conns' ELSE K[n]]
  OBVIOUS
<1>1. /\ L \in Nat /\ Len(events') = L + 1 /\ events'[L + 1] = e
      /\ \A n \in 1..L : events'[n] = events[n]
  BY AppendFacts DEF TypeOK
<1>2. J[L + 2] = conns' /\ \A n \in 1..(L + 1) : J[n] = K[n]
  BY <1>1
<1>3. /\ e.id \in Ids /\ e.type \in {"NEW", "UPDATE", "DESTROY"}
      /\ IF e.type = "DESTROY" THEN e.ct = NULL
         ELSE e.ct # NULL /\ e.ct \in Conn /\ e.ct.digest \in Digests
  BY NullAssumption DEF Event, Conn
<1>4. /\ \A m \in 1..L, i \in Ids : Destroys(m, i) => Destroys(m, i)'
      /\ \A m \in 1..L, i \in Ids, d \in Digests :
           Creates(m, i, d) => Creates(m, i, d)'
  BY <1>1 DEF Destroys, Creates
<1>5. Chained(J)'
  <2>1. /\ K \in [1..(L + 1) -> Table] /\ K[L + 1] = conns
        /\ \A n \in 1..L : Applied(events[n], K[n], K[n + 1])
        /\ \A n \in 1..(L + 1) : OneEach(K[n])
    BY DEF History, Chained
  <2>2. J \in [1..(L + 2) -> Table]
    BY <1>1, <2>1
  <2>3. ASSUME NEW n \in 1..(L + 1)
        PROVE  Applied(events'[n], J[n], J[n + 1])
    <3>1. CASE n = L + 1
      <4>1. n + 1 = L + 2 /\ n \in 1..(L + 1)
        BY <1>1, <3>1
      <4> QED BY <1>1, <1>2, <2>1, <3>1, <4>1
    <3>2. CASE n # L + 1
      <4>1. n \in 1..L /\ n + 1 \in 1..(L + 1) /\ n \in 1..(L + 1)
        BY <1>1, <3>2
      <4> QED BY <1>1, <1>2, <2>1, <4>1
    <3> QED BY <3>1, <3>2
  <2>4. ASSUME NEW n \in 1..(L + 2)
        PROVE  OneEach(J[n])
    <3>1. n = L + 2 \/ n \in 1..(L + 1)
      BY <1>1
    <3> QED BY <1>2, <2>1, <3>1
  <2>5. Len(events') + 1 = L + 2
    BY <1>1
  <2> QED
    <3>1. (J \in [1..(Len(events) + 1) -> Table])'
      BY <2>2, <2>5 DEF Table
    <3>2. (J[Len(events) + 1] = conns)'
      BY <1>2, <2>5
    <3>3. (\A n \in 1..Len(events) : Applied(events[n], J[n], J[n + 1]))'
      BY <1>1, <2>3 DEF Applied
    <3>4. (\A n \in 1..(Len(events) + 1) : OneEach(J[n]))'
      BY <2>4, <2>5 DEF OneEach
    <3> QED BY <3>1, <3>2, <3>3, <3>4 DEF Chained
<1>6. \A p \in 1..(L + 1), i \in Ids :
        K[p][i] # NULL /\ conns'[i] # K[p][i] =>
          \E m \in p..(L + 1) : Destroys(m, i)'
  <2> SUFFICES ASSUME NEW p \in 1..(L + 1), NEW i \in Ids,
                      K[p][i] # NULL, conns'[i] # K[p][i]
               PROVE  \E m \in p..(L + 1) : Destroys(m, i)'
    OBVIOUS
  <2>1. CASE conns[i] = K[p][i]
    <3>1. e.id = i /\ e.type = "DESTROY"
      BY <1>3, <2>1 DEF Applied, Table, TypeOK
    <3>2. L + 1 \in p..(L + 1) /\ Destroys(L + 1, i)'
      BY <1>1, <3>1 DEF Destroys
    <3> QED BY <3>2
  <2>2. CASE conns[i] # K[p][i]
    <3>1. PICK m \in p..L : Destroys(m, i)
      BY <2>2 DEF History, Leaves
    <3>2. m \in 1..L /\ m \in p..(L + 1)
      BY <1>1
    <3> QED BY <1>4, <3>1, <3>2
  <2> QED BY <2>1, <2>2
<1>7. Leaves(J)'
  <2> SUFFICES ASSUME NEW p \in 1..(L + 2), NEW i \in Ids,
                      J[p][i] # NULL, conns'[i] # J[p][i]
               PROVE  \E m \in p..(L + 1) : Destroys(m, i)'
    BY <1>1 DEF Leaves
  <2>1. p \in 1..(L + 1)
    BY <1>1, <1>2
  <2> QED BY <1>2, <1>6, <2>1
<1>8. Enters(J)'
  <2> SUFFICES ASSUME NEW p \in 1..(L + 2), NEW i \in Ids, NEW d,
                      conns'[i] # NULL, d = conns'[i].digest,
                      J[p][i] # conns'[i]
               PROVE  \E m \in p..(L + 1) : Creates(m, i, d)'
    BY <1>1 DEF Enters, Creates
  <2>1. p \in 1..(L + 1) /\ J[p] = K[p]
    BY <1>1, <1>2
  <2>2. CASE e.id = i /\ e.type = "NEW"
    <3>1. d = e.ct.digest
      BY <1>3, <2>2 DEF Applied, Table, TypeOK
    <3>2. Creates(L + 1, i, d)' /\ L + 1 \in p..(L + 1)
      BY <1>1, <2>1, <2>2, <3>1 DEF Creates
    <3> QED BY <3>2
  <2>3. CASE ~(e.id = i /\ e.type = "NEW")
    <3>1. conns'[i] = conns[i]
      BY <1>3, <2>3 DEF Applied, Table, TypeOK
    <3>4. d \in Digests
      BY <3>1 DEF TypeOK, Conn
    <3>2. PICK m \in p..L : Creates(m, i, d)
      BY <2>1, <3>1 DEF History, Enters
    <3>3. m \in 1..L /\ m \in p..(L + 1)
      BY <1>1, <2>1
    <3> QED BY <1>4, <3>2, <3>3, <3>4
  <2> QED BY <2>2, <2>3
<1>9. Makes(J)'
  <2> SUFFICES ASSUME NEW n \in 1..(L + 1), NEW p \in 1..(L + 2),
                      NEW i \in Ids, p <= n, events'[n].type = "NEW",
                      \/ /\ Has(J[p], i, events'[n].ct.digest)
                         /\ events'[n].ct.digest \notin Portless
                      \/ events'[n].id = i /\ J[p][i] # NULL
               PROVE  \E m \in p..(n - 1) : Destroys(m, i)'
    BY <1>1 DEF Makes, Has
  <2>1. p \in 1..(L + 1) /\ J[p] = K[p]
    BY <1>1, <1>2
  <2>2. CASE n # L + 1
    <3>1. n \in 1..L /\ events'[n] = events[n]
      BY <1>1, <2>2
    <3>2. PICK m \in p..(n - 1) : Destroys(m, i)
      BY <2>1, <3>1 DEF History, Makes
    <3>3. m \in 1..L
      BY <1>1, <3>1, <2>1
    <3> QED BY <1>4, <3>2, <3>3
  <2>3. CASE n = L + 1
    <3>1. events'[n] = e
      BY <1>1, <2>3
    <3>2. K[p][i] # NULL /\ conns[i] # K[p][i]
      <4>1. /\ conns[e.id] = NULL
            /\ \/ e.ct.digest \in Portless
               \/ \A j \in Ids :
                    conns[j] # NULL => conns[j].digest # e.ct.digest
        BY <3>1 DEF Applied, Free
      <4> QED BY <1>3, <2>1, <3>1, <4>1 DEF Has
    <3>3. PICK m \in p..L : Destroys(m, i)
      BY <2>1, <3>2 DEF History, Leaves
    <3>4. m \in 1..L /\ m \in p..(n - 1)
      BY <1>1, <2>1, <2>3
    <3> QED BY <1>4, <3>3, <3>4
  <2> QED BY <2>2, <2>3
<1>10. J[1] = K[1]
  BY <1>1, <1>2
<1> QED
  BY <1>5, <1>7, <1>8, <1>9, <1>10 DEF History

\* The thread takes the first event from it.
LEMMA PopHistory ==
  ASSUME TypeOK, NEW K, History(K), events # <<>>,
         events' = Tail(events), conns' = conns
  PROVE  \E J : History(J)' /\ J[1] = K[2]
<1> PICK L : L = Len(events)
  OBVIOUS
<1> PICK J : J = [n \in 1..L |-> K[n + 1]]
  OBVIOUS
<1>1. /\ L \in Nat \ {0} /\ Len(events') = L - 1
      /\ \A n \in 1..(L - 1) : events'[n] = events[n + 1]
  BY TailFacts DEF TypeOK
<1>2. Len(events') + 1 = L /\ J[1] = K[2]
  BY <1>1
<1>3. /\ \A m \in 2..L, i \in Ids : Destroys(m, i) => Destroys(m - 1, i)'
      /\ \A m \in 2..L, i \in Ids, d \in Digests :
           Creates(m, i, d) => Creates(m - 1, i, d)'
  <2>1. ASSUME NEW m \in 2..L PROVE events'[m - 1] = events[m]
    <3>1. m - 1 \in 1..(L - 1) /\ (m - 1) + 1 = m
      BY <1>1
    <3> QED BY <1>1, <3>1
  <2> QED BY <2>1 DEF Destroys, Creates
<1>4. Chained(J)'
  <2>1. /\ K \in [1..(L + 1) -> Table] /\ K[L + 1] = conns
        /\ \A n \in 1..L : Applied(events[n], K[n], K[n + 1])
        /\ \A n \in 1..(L + 1) : OneEach(K[n])
    BY DEF History, Chained
  <2>2. \A n \in 1..L : n + 1 \in 1..(L + 1) /\ J[n] = K[n + 1]
    BY <1>1
  <2>3. J \in [1..L -> Table] /\ \A n \in 1..L : OneEach(J[n])
    BY <2>1, <2>2
  <2>4. J[L] = conns'
    BY <1>1, <2>1, <2>2
  <2>5. ASSUME NEW n \in 1..(L - 1)
        PROVE  Applied(events'[n], J[n], J[n + 1])
    <3>1. n \in 1..L /\ n + 1 \in 1..L
      BY <1>1
    <3> QED BY <1>1, <2>1, <2>2, <3>1
  <2> QED
    <3>1. (J \in [1..(Len(events) + 1) -> Table])'
      BY <1>2, <2>3 DEF Table
    <3>2. (J[Len(events) + 1] = conns)'
      BY <1>2, <2>4
    <3>3. (\A n \in 1..Len(events) : Applied(events[n], J[n], J[n + 1]))'
      BY <1>1, <2>5 DEF Applied
    <3>4. (\A n \in 1..(Len(events) + 1) : OneEach(J[n]))'
      BY <1>2, <2>3 DEF OneEach
    <3> QED BY <3>1, <3>2, <3>3, <3>4 DEF Chained
<1>5. ASSUME NEW p \in 1..L
      PROVE  p + 1 \in 1..(L + 1) /\ J[p] = K[p + 1]
  BY <1>1
<1>6. ASSUME NEW p \in 1..L, NEW m \in (p + 1)..L
      PROVE  m \in 2..L /\ m - 1 \in p..(L - 1)
  BY <1>1
<1>7. Leaves(J)'
  <2> SUFFICES ASSUME NEW p \in 1..L, NEW i \in Ids,
                      J[p][i] # NULL, conns'[i] # J[p][i]
               PROVE  \E m \in p..(L - 1) : Destroys(m, i)'
    BY <1>1, <1>2 DEF Leaves
  <2>1. PICK m \in (p + 1)..L : Destroys(m, i)
    BY <1>5 DEF History, Leaves
  <2> QED BY <1>3, <1>6, <2>1
<1>8. Enters(J)'
  <2>1. ASSUME NEW p \in 1..L, NEW i \in Ids,
               conns'[i] # NULL, J[p][i] # conns'[i]
        PROVE  \E m \in p..(L - 1) :
                 /\ events'[m].type = "NEW" /\ events'[m].id = i
                 /\ events'[m].ct.digest = conns'[i].digest
    <3>1. PICK d \in Digests : d = conns[i].digest
      BY <2>1 DEF TypeOK, Conn
    <3>2. PICK m \in (p + 1)..L : Creates(m, i, d)
      BY <1>5, <2>1, <3>1 DEF History, Enters
    <3>3. Creates(m - 1, i, d)' /\ m - 1 \in p..(L - 1)
      BY <1>3, <1>6, <3>2
    <3> QED BY <3>1, <3>3 DEF Creates
  <2>2. Len(events') = L - 1 /\ Len(events') + 1 = L
    BY <1>1, <1>2
  <2> QED BY <2>1, <2>2 DEF Enters, Creates
<1>9. Makes(J)'
  <2> SUFFICES ASSUME NEW n \in 1..(L - 1), NEW p \in 1..L,
                      NEW i \in Ids, p <= n, events'[n].type = "NEW",
                      \/ /\ Has(J[p], i, events'[n].ct.digest)
                         /\ events'[n].ct.digest \notin Portless
                      \/ events'[n].id = i /\ J[p][i] # NULL
               PROVE  \E m \in p..(n - 1) : Destroys(m, i)'
    BY <1>1, <1>2 DEF Makes, Has
  <2>1. n + 1 \in 1..L /\ events'[n] = events[n + 1] /\ p + 1 <= n + 1
    BY <1>1
  <2>2. PICK m \in (p + 1)..((n + 1) - 1) : Destroys(m, i)
    BY <1>5, <2>1 DEF History, Makes
  <2>3. m \in 2..L /\ m - 1 \in p..(n - 1)
    BY <1>1
  <2> QED BY <1>3, <2>2, <2>3
<1> QED
  BY <1>2, <1>4, <1>7, <1>8, <1>9 DEF History

-----------------------------------------------------------------------------
\* What keeps the events of the window, and which digests have flows of which
\* ids, keeps the maps as they have to be.
LEMMA SyncedKept ==
  ASSUME NEW B, Synced(1, B, ct_id_map, ct_flow_map), ct_id_map' = ct_id_map,
         \A d \in Digests : /\ ct_flow_map'[d] = NULL <=> ct_flow_map[d] = NULL
                            /\ ct_flow_map[d] # NULL =>
                                 /\ ct_flow_map'[d].id = ct_flow_map[d].id
                                 /\ ct_flow_map'[d].nat = ct_flow_map[d].nat,
         ct_id_map \in IdMap,
         \A m \in 1..Window : m \in 1..Window' /\ events'[m] = events[m]
  PROVE  Synced(1, B, ct_id_map, ct_flow_map)'
<1>1. /\ \A i \in Ids, d \in Digests :
           WillCreate(1, i, d) => WillCreate(1, i, d)'
      /\ \A i \in Ids : WillDestroy(1, i) => WillDestroy(1, i)'
  BY DEF WillCreate, WillDestroy, Creates, Destroys
<1>2. \A i \in Ids : ct_id_map[i] # NULL => ct_id_map[i] \in Digests
  BY DEF IdMap
<1>3. \A i \in Ids : ct_id_map[i] # NULL =>
        (WillCreate(1, i, ct_id_map[i]) => WillCreate(1, i, ct_id_map[i])')
  BY <1>1, <1>2 DEF WillCreate, Creates
<1>4. IdsSynced(1, B, ct_id_map)'
  BY <1>3 DEF Synced, IdsSynced, Has
<1>5. FlowsSynced(1, B, ct_id_map, ct_flow_map)'
  BY <1>1 DEF Synced, FlowsSynced, Has, Serves
<1>6. FlowsThere(1, ct_id_map, ct_flow_map)'
  BY <1>1, <1>2, <1>3 DEF Synced, FlowsThere
<1> QED
  BY <1>4, <1>5, <1>6 DEF Synced

\* A connection that has the id, or the addresses and ports, of one the
\* window creates is destroyed first.
LEMMA Excluded ==
  ASSUME TypeOK, NEW K, History(K), Window \in Nat, Window <= Len(events),
         NEW n \in Nat \ {0}, n <= Len(events) + 1,
         NEW k \in Ids, NEW i \in Ids, NEW d \in Digests,
         WillCreate(n, k, d),
         (Has(K[n], i, d) /\ d \notin Portless) \/ (k = i /\ K[n][i] # NULL)
  PROVE  WillDestroy(n, i)
<1>1. PICK c \in n..Window : Creates(c, k, d)
  BY DEF WillCreate
<1>2. Len(events) \in Nat
  BY DEF TypeOK
<1>3. c \in 1..Len(events) /\ n \in 1..(Len(events) + 1) /\ n <= c
  BY <1>2
<1>4. PICK m \in n..(c - 1) : Destroys(m, i)
  BY <1>1, <1>3 DEF Creates, History, Makes
<1>5. m \in n..Window
  BY <1>3
<1> QED
  BY <1>4, <1>5 DEF WillDestroy

-----------------------------------------------------------------------------
(* The three kinds of events.  B is the table before the event, A the one  *)
(* after it.                                                               *)

\* The event e is the first of the window, or the window is empty
First(e) ==
  /\ \A i \in Ids, d \in Digests : WillCreate(1, i, d) =>
       WillCreate(2, i, d) \/ (e.type = "NEW" /\ e.id = i /\ e.ct.digest = d)
  /\ \A i \in Ids : WillDestroy(1, i) =>
       WillDestroy(2, i) \/ (e.type = "DESTROY" /\ e.id = i)

\* What Excluded says of the table A
Exclusive(A) ==
  \A k, i \in Ids, d \in Digests :
    /\ WillCreate(2, k, d)
    /\ (Has(A, i, d) /\ d \notin Portless) \/ (k = i /\ A[i] # NULL)
    => WillDestroy(2, i)

LEMMA NewSynced ==
  ASSUME ConnInv, NEW e \in Event, e.type = "NEW", First(e),
         NEW B \in Table, NEW A \in Table, OneEach(A), Applied(e, B, A),
         Synced(1, B, ct_id_map, ct_flow_map), EventNew(e.id, e.ct),
         Justified(e.ct)
  PROVE  Synced(2, A, ct_id_map', ct_flow_map')
<1> PICK i0 \in Ids, et \in Conn : i0 = e.id /\ et = e.ct
  BY DEF Event
<1> PICK ct \in Digests : ct = et.digest
  BY DEF Conn
<1>1. /\ NULL \notin Digests /\ B[i0] = NULL
      /\ A[i0] = et /\ \A i \in Ids : i # i0 => A[i] = B[i]
      /\ Has(A, i0, ct)
  BY ConntrackAssumption, NullAssumption DEF Applied, Table, Has
<1>2. /\ ct_id_map'[i0] = ct
      /\ \A i \in Ids : i # i0 => ct_id_map'[i] = ct_id_map[i]
      /\ \A i \in Ids : ct_id_map[i] # NULL => ct_id_map[i] \in Digests
  BY DEF EventNew, ConnInv, TypeOK
<1>3. /\ ct_flow_map'[ct] # NULL /\ ct_flow_map'[ct].id = i0
      /\ ct_flow_map'[ct].nat = et.nat
      /\ \A d \in Digests : d # ct => ct_flow_map'[d] = ct_flow_map[d]
  <2>1. Update(i0, et) \in Flow
    BY UpdateOk DEF FlowOk
  <2>2. ct_flow_map' = [ct_flow_map EXCEPT ![ct] = Update(i0, et)]
    BY DEF EventNew
  <2> QED
    BY <2>1, <2>2, NullAssumption DEF Update, ConnInv, TypeOK
<1>4. /\ \A i \in Ids, d \in Digests :
           WillCreate(1, i, d) /\ (i # i0 \/ d # ct) => WillCreate(2, i, d)
      /\ \A i \in Ids : WillDestroy(1, i) => WillDestroy(2, i)
  BY DEF First
<1>5. IdsSynced(2, A, ct_id_map')
  BY <1>1, <1>2, <1>4 DEF Synced, IdsSynced, Has
<1>6. FlowsSynced(2, A, ct_id_map', ct_flow_map')
  <2> SUFFICES ASSUME NEW d \in Digests, ct_flow_map'[d] # NULL
               PROVE  \/ \E k \in Ids : WillCreate(2, k, d)
                      \/ \E h \in Ids :
                           /\ Has(A, h, d) /\ ct_id_map'[h] = d
                           /\ \/ Serves(ct_flow_map'[d], h, A, d)
                              \/ WillDestroy(2, h)
    BY DEF FlowsSynced
  <2>1. CASE d = ct
    BY <1>1, <1>2, <1>3, <2>1 DEF Serves
  <2>2. CASE d # ct
    <3>1. CASE \E k \in Ids : WillCreate(1, k, d)
      BY <1>4, <2>2, <3>1
    <3>2. CASE ~\E k \in Ids : WillCreate(1, k, d)
      <4>1. PICK h \in Ids : /\ Has(B, h, d) /\ ct_id_map[h] = d
                             /\ \/ Serves(ct_flow_map[d], h, B, d)
                                \/ WillDestroy(1, h)
        BY <1>3, <2>2, <3>2 DEF Synced, FlowsSynced
      <4>2. h # i0 /\ A[h] = B[h]
        BY <1>1, <4>1 DEF Has
      <4> QED BY <1>2, <1>3, <1>4, <2>2, <4>1, <4>2 DEF Has, Serves
    <3> QED BY <3>1, <3>2
  <2> QED BY <2>1, <2>2
<1>7. FlowsThere(2, ct_id_map', ct_flow_map')
  BY <1>1, <1>2, <1>3, <1>4 DEF Synced, FlowsThere
<1> QED
  BY <1>5, <1>6, <1>7 DEF Synced

LEMMA DestroySynced ==
  ASSUME ConnInv, NEW e \in Event, e.type = "DESTROY", First(e),
         NEW B \in Table, NEW A \in Table, OneEach(B), Applied(e, B, A),
         Exclusive(A),
         Synced(1, B, ct_id_map, ct_flow_map), EventDestroy(e.id)
  PROVE  Synced(2, A, ct_id_map', ct_flow_map')
<1> PICK i0 \in Ids : i0 = e.id
  BY DEF Event
<1>1. NULL \notin Digests /\ \A i \in Ids : i # i0 => A[i] = B[i]
  BY ConntrackAssumption DEF Applied, Table
<1>2. /\ ct_id_map'[i0] = NULL
      /\ \A i \in Ids : i # i0 => ct_id_map'[i] = ct_id_map[i]
      /\ \A i \in Ids : ct_id_map[i] # NULL => ct_id_map[i] \in Digests
  BY DEF EventDestroy, ConnInv, TypeOK
<1>3. \A d \in Digests :
        ct_flow_map'[d] = IF d = ct_id_map[i0] THEN NULL ELSE ct_flow_map[d]
  BY <1>1 DEF EventDestroy, ConnInv, TypeOK
<1>4. /\ \A i \in Ids, d \in Digests :
           WillCreate(1, i, d) => WillCreate(2, i, d)
      /\ \A i \in Ids : WillDestroy(1, i) /\ i # i0 => WillDestroy(2, i)
  BY DEF First
<1>5. IdsSynced(2, A, ct_id_map')
  BY <1>1, <1>2, <1>4 DEF Synced, IdsSynced, Has
<1>6. FlowsSynced(2, A, ct_id_map', ct_flow_map')
  <2> SUFFICES ASSUME NEW d \in Digests, ct_flow_map'[d] # NULL
               PROVE  \/ \E k \in Ids : WillCreate(2, k, d)
                      \/ \E h \in Ids :
                           /\ Has(A, h, d) /\ ct_id_map'[h] = d
                           /\ \/ Serves(ct_flow_map'[d], h, A, d)
                              \/ WillDestroy(2, h)
    BY DEF FlowsSynced
  <2>1. d # ct_id_map[i0] /\ ct_flow_map'[d] = ct_flow_map[d]
    BY <1>3
  <2>2. CASE \E k \in Ids : WillCreate(1, k, d)
    BY <1>4, <2>2
  <2>3. CASE ~\E k \in Ids : WillCreate(1, k, d)
    <3>1. PICK h \in Ids : /\ Has(B, h, d) /\ ct_id_map[h] = d
                           /\ \/ Serves(ct_flow_map[d], h, B, d)
                              \/ WillDestroy(1, h)
      BY <2>1, <2>3 DEF Synced, FlowsSynced
    <3>2. h # i0 /\ A[h] = B[h]
      BY <1>1, <2>1, <3>1
    <3> QED BY <1>2, <1>4, <2>1, <3>1, <3>2 DEF Has, Serves
  <2> QED BY <2>2, <2>3
<1>7. FlowsThere(2, ct_id_map', ct_flow_map')
  <2> SUFFICES ASSUME NEW i \in Ids, NEW x, x = ct_id_map'[i], x # NULL,
                      x \notin Portless, ct_flow_map'[x] = NULL,
                      ~WillCreate(2, i, x)
               PROVE  WillDestroy(2, i)
    BY DEF FlowsThere
  <2>1. i # i0 /\ x = ct_id_map[i] /\ x \in Digests
    BY <1>2
  <2>2. CASE ct_flow_map[x] = NULL
    BY <1>4, <2>1, <2>2 DEF Synced, FlowsThere
  <2>3. CASE ct_flow_map[x] # NULL
    <3>1. x = ct_id_map[i0]
      BY <1>3, <2>1, <2>3
    <3>2. Has(B, i, x)
      BY <1>4, <2>1 DEF Synced, IdsSynced
    <3>3. ~Has(B, i0, x)
      BY <2>1, <3>2 DEF OneEach
    <3>4. WillCreate(2, i0, x)
      BY <1>4, <2>1, <3>1, <3>3 DEF Synced, IdsSynced
    <3>5. Has(A, i, x)
      BY <1>1, <2>1, <3>2 DEF Has
    <3> QED BY <2>1, <3>4, <3>5 DEF Exclusive
  <2> QED BY <2>2, <2>3
<1> QED
  BY <1>5, <1>6, <1>7 DEF Synced

LEMMA UpdateSynced ==
  ASSUME ConnInv, NEW e \in Event, e.type = "UPDATE", First(e),
         NEW B \in Table, NEW A \in Table, OneEach(B), Applied(e, B, A),
         Exclusive(A),
         Synced(1, B, ct_id_map, ct_flow_map), EventUpdate(e.id, e.ct),
         Justified(e.ct)
  PROVE  Synced(2, A, ct_id_map', ct_flow_map')
<1> PICK i0 \in Ids, et \in Conn : i0 = e.id /\ et = e.ct
  BY DEF Event
<1> PICK ct \in Digests : ct = et.digest
  BY DEF Conn
<1> PICK x : x = ct_id_map[i0]
  OBVIOUS
<1>1. NULL \notin Digests /\ A = B /\ B[i0] = et /\ Has(B, i0, ct)
  BY ConntrackAssumption, NullAssumption DEF Applied, Table, Has
<1>2. \A i \in Ids : ct_id_map[i] # NULL => ct_id_map[i] \in Digests
  BY DEF ConnInv, TypeOK
<1>3. /\ \A i \in Ids, d \in Digests :
           WillCreate(1, i, d) => WillCreate(2, i, d)
      /\ \A i \in Ids : WillDestroy(1, i) => WillDestroy(2, i)
  BY DEF First
<1>4. Synced(2, B, ct_id_map, ct_flow_map)
  <2>1. IdsSynced(2, B, ct_id_map)
    BY <1>2, <1>3 DEF Synced, IdsSynced
  <2>2. FlowsSynced(2, B, ct_id_map, ct_flow_map)
    BY <1>3 DEF Synced, FlowsSynced
  <2>3. FlowsThere(2, ct_id_map, ct_flow_map)
    BY <1>2, <1>3 DEF Synced, FlowsThere
  <2> QED BY <2>1, <2>2, <2>3 DEF Synced
<1>5. CASE x = NULL
  <2>1. ct_id_map' = ct_id_map /\ ct_flow_map' = ct_flow_map
    BY <1>5 DEF EventUpdate, mapVars
  <2> QED BY <1>1, <1>4, <2>1
<1>6. CASE x # NULL /\ ct_flow_map[x] = NULL
  <2>1. /\ ct_flow_map' = ct_flow_map /\ ct_id_map'[i0] = NULL
        /\ \A i \in Ids : i # i0 => ct_id_map'[i] = ct_id_map[i]
    BY <1>6 DEF EventUpdate, ConnInv, TypeOK
  <2>2. IdsSynced(2, B, ct_id_map')
    BY <1>4, <2>1 DEF Synced, IdsSynced
  <2>3. FlowsSynced(2, B, ct_id_map', ct_flow_map')
    <3>1. \A d \in Digests, h \in Ids :
            ct_flow_map[d] # NULL /\ ct_id_map[h] = d => h # i0
      BY <1>6
    <3> QED BY <1>4, <2>1, <3>1 DEF Synced, FlowsSynced
  <2>4. FlowsThere(2, ct_id_map', ct_flow_map')
    BY <1>4, <2>1 DEF Synced, FlowsThere
  <2> QED BY <1>1, <2>2, <2>3, <2>4 DEF Synced
<1>7. CASE x # NULL /\ ct_flow_map[x] # NULL
  <2> PICK g \in Ids : g = ct_flow_map[x].id
    BY <1>2, <1>7 DEF ConnInv, TypeOK, Flow
  <2>1. x \in Digests
    BY <1>2, <1>7
  <2>2. /\ ct_id_map'[i0] = ct
        /\ \A i \in Ids : i # i0 => ct_id_map'[i] = ct_id_map[i]
    BY <1>7 DEF EventUpdate, ConnInv, TypeOK
  <2>3. /\ ct_flow_map'[ct] # NULL /\ ct_flow_map'[ct].id = g
        /\ ct_flow_map'[ct].nat = et.nat
        /\ x # ct => ct_flow_map'[x] = NULL
        /\ \A d \in Digests : d # ct /\ d # x =>
             ct_flow_map'[d] = ct_flow_map[d]
    <3>1. Update(g, et) \in Flow
      BY UpdateOk DEF FlowOk
    <3>2. ct_flow_map' = [[ct_flow_map EXCEPT ![x] = NULL]
                            EXCEPT ![ct] = Update(g, et)]
      BY <1>7 DEF EventUpdate
    <3>3. Update(g, et).id = g /\ Update(g, et).nat = et.nat
      BY DEF Update
    <3> QED
      BY <2>1, <3>1, <3>2, <3>3, NullAssumption DEF ConnInv, TypeOK
  <2>4. CASE x = ct
    <3>1. \A i \in Ids : ct_id_map'[i] = ct_id_map[i]
      BY <2>2, <2>4
    <3>2. \A d \in Digests :
            /\ ct_flow_map'[d] = NULL <=> ct_flow_map[d] = NULL
            /\ ct_flow_map[d] # NULL => ct_flow_map'[d].id = ct_flow_map[d].id
      BY <1>7, <2>3, <2>4
    <3>3. IdsSynced(2, B, ct_id_map')
      BY <1>4, <3>1 DEF Synced, IdsSynced
    <3>4. FlowsSynced(2, B, ct_id_map', ct_flow_map')
      <4> SUFFICES ASSUME NEW d \in Digests, ct_flow_map'[d] # NULL,
                          ~\E k \in Ids : WillCreate(2, k, d)
                   PROVE  \E h \in Ids :
                            /\ Has(B, h, d) /\ ct_id_map'[h] = d
                            /\ \/ Serves(ct_flow_map'[d], h, B, d)
                               \/ WillDestroy(2, h)
        BY DEF FlowsSynced
      <4>1. PICK h \in Ids : /\ Has(B, h, d) /\ ct_id_map[h] = d
                             /\ \/ Serves(ct_flow_map[d], h, B, d)
                                \/ WillDestroy(2, h)
        BY <1>4, <3>2 DEF Synced, FlowsSynced
      <4>2. CASE d # ct
        BY <2>3, <2>4, <3>1, <4>1, <4>2
      <4>3. CASE d = ct
        <5>1. d \notin Portless => h = i0
          BY <1>1, <4>1, <4>3 DEF OneEach
        <5>2. Serves(ct_flow_map[d], h, B, d) =>
                Serves(ct_flow_map'[d], h, B, d)
          BY <1>1, <2>3, <2>4, <4>3, <5>1 DEF Serves
        <5> QED BY <3>1, <4>1, <5>2
      <4> QED BY <4>2, <4>3
    <3>5. FlowsThere(2, ct_id_map', ct_flow_map')
      BY <1>2, <1>4, <3>1, <3>2 DEF Synced, FlowsThere
    <3> QED BY <1>1, <3>3, <3>4, <3>5 DEF Synced
  <2>5. CASE x # ct
    <3>1. WillCreate(2, i0, x)
      BY <1>1, <1>4, <1>7, <2>5 DEF Synced, IdsSynced, Has
    <3>2. WillDestroy(2, i0)
      BY <1>1, <2>1, <3>1 DEF Exclusive, Has
    <3>3. IdsSynced(2, B, ct_id_map')
      BY <1>1, <1>4, <2>2 DEF Synced, IdsSynced
    <3>4. FlowsSynced(2, B, ct_id_map', ct_flow_map')
      <4> SUFFICES ASSUME NEW d \in Digests, ct_flow_map'[d] # NULL
                   PROVE  \/ \E k \in Ids : WillCreate(2, k, d)
                          \/ \E h \in Ids :
                               /\ Has(B, h, d) /\ ct_id_map'[h] = d
                               /\ \/ Serves(ct_flow_map'[d], h, B, d)
                                  \/ WillDestroy(2, h)
        BY DEF FlowsSynced
      <4>1. CASE d = ct
        BY <1>1, <2>2, <3>2, <4>1
      <4>2. CASE d # ct
        <5>1. d # x /\ ct_flow_map'[d] = ct_flow_map[d]
          BY <2>3, <2>5, <4>2
        <5>2. CASE \E k \in Ids : WillCreate(2, k, d)
          BY <5>2
        <5>3. CASE ~\E k \in Ids : WillCreate(2, k, d)
          <6>1. PICK h \in Ids :
                  /\ Has(B, h, d) /\ ct_id_map[h] = d
                  /\ \/ Serves(ct_flow_map[d], h, B, d)
                     \/ WillDestroy(2, h)
            BY <1>4, <5>1, <5>3 DEF Synced, FlowsSynced
          <6>2. h # i0
            BY <5>1, <6>1
          <6> QED BY <2>2, <5>1, <6>1, <6>2
        <5> QED BY <5>2, <5>3
      <4> QED BY <4>1, <4>2
    <3>5. FlowsThere(2, ct_id_map', ct_flow_map')
      <4> SUFFICES ASSUME NEW i \in Ids, NEW y, y = ct_id_map'[i], y # NULL,
                          y \notin Portless, ct_flow_map'[y] = NULL,
                          ~WillCreate(2, i, y)
                   PROVE  WillDestroy(2, i)
        BY DEF FlowsThere
      <4>1. i # i0 /\ y = ct_id_map[i] /\ y \in Digests
        BY <1>2, <2>2, <2>3
      <4>2. CASE y # x
        <5>1. y # ct
          BY <2>3
        <5> QED BY <1>4, <2>3, <4>1, <4>2, <5>1 DEF Synced, FlowsThere
      <4>3. CASE y = x
        <5>1. Has(B, i, x)
          BY <1>4, <4>1, <4>3 DEF Synced, IdsSynced
        <5> QED BY <1>1, <2>1, <3>1, <4>3, <5>1 DEF Exclusive
      <4> QED BY <4>2, <4>3
    <3> QED BY <1>1, <3>3, <3>4, <3>5 DEF Synced
  <2> QED BY <2>4, <2>5
<1> QED
  BY <1>5, <1>6, <1>7

-----------------------------------------------------------------------------
(* The invariant through the steps.                                        *)

\* What AgreeInv says as long as no event was lost or late
Agrees(K) ==
  /\ Timely
  /\ History(K)
  /\ Synced(1, K[1], ct_id_map, ct_flow_map)

LEMMA WindowBound ==
  ASSUME TypeOK, Timely
  PROVE  Window \in Nat /\ Window <= Len(events) /\ Len(events) \in Nat
BY DEF TypeOK, Timely, Window

LEMMA NotifyAgrees ==
  ASSUME ConnInv, NEW K, Agrees(K), NEW e \in Event,
         events' = Append(events, e), conns' \in Table,
         Applied(e, conns, conns'), OneEach(conns'),
         e.type = "NEW" => Free(e.ct.digest),
         UNCHANGED <<backlog, pc, to_dump, mapVars, next_purge, now>>
  PROVE  AgreeInv'
<1>1. PICK J : History(J)' /\ J[1] = K[1]
  BY AppendHistory DEF Agrees, ConnInv
<1>2. /\ Window \in Nat /\ Window <= Len(events) /\ Len(events) \in Nat
      /\ Len(events') = Len(events) + 1
      /\ \A n \in 1..Len(events) : events'[n] = events[n]
  BY WindowBound, AppendFacts DEF Agrees, ConnInv, TypeOK
<1>3. Window' \in Nat /\ Window <= Window'
  BY <1>2 DEF Window, ConnInv, TypeOK
<1>4. \A m \in 1..Window : m \in 1..Window' /\ events'[m] = events[m]
  BY <1>2, <1>3
<1>5. ct_id_map' = ct_id_map /\ ct_flow_map' = ct_flow_map
  BY DEF mapVars
<1>6. ct_id_map \in IdMap
  BY DEF ConnInv, TypeOK, IdMap
<1>7. Synced(1, J[1], ct_id_map, ct_flow_map)'
  <2> PICK B : B = K[1]
    OBVIOUS
  <2>1. Synced(1, B, ct_id_map, ct_flow_map)'
    BY <1>4, <1>5, <1>6, SyncedKept DEF Agrees
  <2>2. J[1] = B
    BY <1>1
  <2> QED BY <2>1, <2>2
<1>8. Timely'
  BY <1>2, <1>5 DEF Timely, Agrees, ConnInv, TypeOK
<1> QED
  BY <1>1, <1>7, <1>8 DEF AgreeInv

LEMMA KernelAgrees ==
  ASSUME ConnInv, faults' = 0, faults = 0, NEW K, Agrees(K), KernelStep
  PROVE  AgreeInv'
<1>1. /\ conns \in Table /\ OneEach(conns)
      /\ NULL \notin Digests
  <2>1. Len(events) + 1 \in 1..(Len(events) + 1)
    BY DEF ConnInv, TypeOK
  <2> QED
    BY <2>1, ConntrackAssumption
    DEF Agrees, History, Chained, ConnInv, TypeOK, Table
<1>2. UNCHANGED <<backlog, pc, to_dump, mapVars, next_purge, now>>
  BY DEF KernelStep, KernelNew, KernelUpdate, KernelDestroy, KernelRetry
<1>3. ASSUME NEW e \in Event, Notify(e)
      PROVE  events' = Append(events, e)
  BY <1>3 DEF Notify
<1>4. ASSUME NEW i \in Ids, NEW ct \in Conn, KernelNew(i, ct)
      PROVE  AgreeInv'
  <2> PICK e : e = [type |-> "NEW", id |-> i, ct |-> ct]
    OBVIOUS
  <2>1. e \in Event /\ e.type = "NEW" /\ e.id = i /\ e.ct = ct
    BY DEF Event
  <2>2. /\ conns' = [conns EXCEPT ![i] = ct] /\ conns[i] = NULL
        /\ Free(ct.digest) /\ Notify(e)
    BY <1>4 DEF KernelNew
  <2>3. conns' \in Table /\ Applied(e, conns, conns')
    BY <1>1, <2>1, <2>2 DEF Applied, Table
  <2>4. OneEach(conns')
    BY <1>1, <2>2 DEF OneEach, Has, Free, Table
  <2> QED
    BY <1>2, <1>3, <2>1, <2>2, <2>3, <2>4, NotifyAgrees
<1>5. ASSUME NEW i \in Ids, KernelUpdate(i)
      PROVE  AgreeInv'
  <2> PICK e : e = [type |-> "UPDATE", id |-> i, ct |-> conns[i]]
    OBVIOUS
  <2>1. conns[i] \in Conn
    BY <1>1, <1>5 DEF KernelUpdate, Table
  <2>2. e \in Event /\ e.type = "UPDATE" /\ e.id = i /\ e.ct = conns[i]
    BY <2>1 DEF Event
  <2>3. conns' = conns /\ Notify(e)
    BY <1>5 DEF KernelUpdate
  <2>4. conns' \in Table /\ Applied(e, conns, conns') /\ OneEach(conns')
    BY <1>1, <2>2, <2>3 DEF Applied, Table
  <2> QED
    BY <1>2, <1>3, <2>2, <2>3, <2>4, NotifyAgrees
<1>6. ASSUME NEW i \in Ids, KernelDestroy(i)
      PROVE  AgreeInv'
  <2> PICK e : e = [type |-> "DESTROY", id |-> i, ct |-> NULL]
    OBVIOUS
  <2>1. e \in Event /\ e.type = "DESTROY" /\ e.id = i /\ e.ct = NULL
    BY DEF Event
  <2>2. conns' = [conns EXCEPT ![i] = NULL] /\ Notify(e)
    BY <1>6 DEF KernelDestroy
  <2>3. conns' \in Table /\ Applied(e, conns, conns')
    BY <1>1, <2>1, <2>2 DEF Applied, Table
  <2>4. OneEach(conns')
    BY <1>1, <2>2 DEF OneEach, Has, Table
  <2> QED
    BY <1>2, <1>3, <2>1, <2>2, <2>3, <2>4, NotifyAgrees
<1>7. ~KernelRetry
  BY DEF KernelRetry
<1> QED
  BY <1>4, <1>5, <1>6, <1>7 DEF KernelStep

\* Steps that change neither the kernel's table nor the socket
LEMMA QuietHistory ==
  ASSUME NEW K, History(K), conns' = conns, events' = events
  PROVE  History(K)'
<1>1. Chained(K)'
  BY DEF History, Chained, Applied, OneEach, Has, Table
<1>2. Leaves(K)' /\ Enters(K)' /\ Makes(K)'
  BY DEF History, Leaves, Enters, Makes, Has, Creates, Destroys
<1> QED
  BY <1>1, <1>2 DEF History

LEMMA TickAgrees ==
  ASSUME ConnInv, faults' = 0, faults = 0, NEW K, Agrees(K), Tick
  PROVE  AgreeInv'
<1>1. /\ conns' = conns /\ events' = events /\ ct_id_map' = ct_id_map
      /\ ct_flow_map' = ct_flow_map /\ pc' = pc /\ pc # "dump"
      /\ backlog' = backlog /\ next_purge' = next_purge /\ now' = now + 1
  BY DEF Tick, mapVars
<1>2. Timely'
  <2>1. backlog \in Nat /\ now \in Nat /\ next_purge \in Nat
    BY DEF ConnInv, TypeOK
  <2>2. backlog > 0 => now < next_purge
    BY <2>1 DEF Tick
  <2> QED BY <1>1, <2>1, <2>2 DEF Timely, Agrees
<1>3. ct_id_map \in IdMap
  BY DEF ConnInv, TypeOK, IdMap
<1>4. Synced(1, K[1], ct_id_map, ct_flow_map)'
  <2>1. Window' = Window
    BY <1>1 DEF Window
  <2> QED BY <1>1, <1>3, <2>1, SyncedKept DEF Agrees
<1>5. History(K)'
  BY <1>1, QuietHistory DEF Agrees
<1> QED
  BY <1>2, <1>4, <1>5 DEF AgreeInv

\* The dump files a connection that the window leaves alone or creates.
LEMMA DumpAgrees ==
  ASSUME ConnInv, NEW K, Agrees(K), NEW i \in Ids, DumpEntry(i)
  PROVE  AgreeInv'
<1>1. /\ conns' = conns /\ events' = events /\ pc' = pc /\ pc = "dump"
      /\ to_dump' = to_dump \ {i} /\ i \in to_dump
  BY DEF DumpEntry, kernelVars
<1>2. Window' = Window /\ Window = Len(events) /\ Len(events) \in Nat
  BY <1>1 DEF Window, ConnInv, TypeOK
<1>3. History(K)'
  BY <1>1, QuietHistory DEF Agrees
<1>4. ct_id_map \in IdMap /\ NULL \notin Digests
  BY ConntrackAssumption DEF ConnInv, TypeOK, IdMap
<1>5. CASE conns[i] = NULL
  <2>1. ct_id_map' = ct_id_map /\ ct_flow_map' = ct_flow_map
    BY <1>5 DEF DumpEntry, mapVars
  <2>2. Timely'
    BY <1>1, <2>1 DEF Timely, Agrees
  <2>3. Synced(1, K[1], ct_id_map, ct_flow_map)'
    BY <1>1, <1>2, <1>4, <2>1, SyncedKept DEF Agrees
  <2> QED BY <1>3, <2>2, <2>3 DEF AgreeInv
<1>6. CASE conns[i] # NULL
  <2> PICK B : B = K[1]
    OBVIOUS
  <2> PICK ct \in Conn, d \in Digests : ct = conns[i] /\ d = ct.digest
    BY <1>6 DEF ConnInv, TypeOK, Conn
  <2>1. /\ d # NULL /\ ct # NULL /\ EventNew(i, ct) /\ Justified(ct)
        /\ NULL \notin Conn
    BY <1>4, <1>6, NullAssumption DEF DumpEntry, ConnInv, NatKnown
  <2>2. /\ ct_id_map'[i] = d
        /\ \A j \in Ids : j # i => ct_id_map'[j] = ct_id_map[j]
    BY <1>4, <2>1 DEF EventNew, IdMap
  <2>3. /\ ct_flow_map'[d] # NULL /\ ct_flow_map'[d].id = i
        /\ ct_flow_map'[d].nat = ct.nat
        /\ \A x \in Digests : x # d => ct_flow_map'[x] = ct_flow_map[x]
    <3>1. Update(i, ct) \in Flow
      BY <2>1, UpdateOk DEF FlowOk
    <3>2. ct_flow_map' = [ct_flow_map EXCEPT ![d] = Update(i, ct)]
      BY <2>1 DEF EventNew
    <3> QED
      BY <2>1, <3>1, <3>2, NullAssumption DEF Update, ConnInv, TypeOK
  <2>4. ct_id_map[i] = NULL
    BY <1>1 DEF Timely, Agrees
  <2>5. (B[i] = ct /\ Has(B, i, d)) \/ WillCreate(1, i, d)
    <3>1. 1 \in 1..(Len(events) + 1)
      BY <1>2
    <3> QED
      BY <1>2, <2>1, <3>1 DEF Agrees, History, Enters, WillCreate, Has
  <2>6. \A j \in Ids : ct_id_map[j] # NULL => ct_id_map[j] \in Digests
    BY <1>4 DEF IdMap
  <2>7. Synced(1, B, ct_id_map', ct_flow_map')
    <3>1. Synced(1, B, ct_id_map, ct_flow_map)
      BY DEF Agrees
    <3>2. IdsSynced(1, B, ct_id_map')
      BY <2>2, <2>5, <3>1 DEF Synced, IdsSynced
    <3>3. FlowsSynced(1, B, ct_id_map', ct_flow_map')
      <4> SUFFICES ASSUME NEW x \in Digests, ct_flow_map'[x] # NULL
                   PROVE  \/ \E k \in Ids : WillCreate(1, k, x)
                          \/ \E h \in Ids :
                               /\ Has(B, h, x) /\ ct_id_map'[h] = x
                               /\ \/ Serves(ct_flow_map'[x], h, B, x)
                                  \/ WillDestroy(1, h)
        BY DEF FlowsSynced
      <4>1. CASE x = d
        BY <2>2, <2>3, <2>5, <4>1 DEF Serves
      <4>2. CASE x # d
        <5>1. CASE \E k \in Ids : WillCreate(1, k, x)
          BY <5>1
        <5>2. CASE ~\E k \in Ids : WillCreate(1, k, x)
          <6>1. PICK h \in Ids :
                  /\ Has(B, h, x) /\ ct_id_map[h] = x
                  /\ \/ Serves(ct_flow_map[x], h, B, x)
                     \/ WillDestroy(1, h)
            BY <2>3, <3>1, <4>2, <5>2 DEF Synced, FlowsSynced
          <6>2. h # i
            BY <1>4, <2>4, <6>1
          <6> QED BY <2>2, <2>3, <4>2, <6>1, <6>2
        <5> QED BY <5>1, <5>2
      <4> QED BY <4>1, <4>2
    <3>4. FlowsThere(1, ct_id_map', ct_flow_map')
      BY <2>1, <2>2, <2>3, <2>6, <3>1 DEF Synced, FlowsThere
    <3> QED BY <3>2, <3>3, <3>4 DEF Synced
  <2>8. Synced(1, B, ct_id_map, ct_flow_map)'
    BY <1>1, <1>2, <2>7
    DEF Synced, IdsSynced, FlowsSynced, FlowsThere, Has, Serves, WillCreate,
        WillDestroy, Creates, Destroys
  <2>9. Timely'
    BY <1>1, <2>2 DEF Timely, Agrees, ConnInv, TypeOK
  <2> QED BY <1>3, <2>8, <2>9 DEF AgreeInv
<1> QED
  BY <1>5, <1>6

LEMMA DumpEndAgrees ==
  ASSUME ConnInv, NEW K, Agrees(K), DumpEnd
  PROVE  AgreeInv'
<1>1. /\ conns' = conns /\ events' = events /\ ct_id_map' = ct_id_map
      /\ ct_flow_map' = ct_flow_map /\ pc = "dump" /\ pc' = "run"
      /\ backlog' = Len(events) /\ now' = now /\ next_purge' = now + Ttl
  BY DEF DumpEnd, mapVars
<1>2. Window' = Window
  BY <1>1 DEF Window
<1>3. Timely'
  BY <1>1, ConntrackAssumption DEF Timely, ConnInv, TypeOK
<1>4. ct_id_map \in IdMap
  BY DEF ConnInv, TypeOK, IdMap
<1>5. Synced(1, K[1], ct_id_map, ct_flow_map)'
  BY <1>1, <1>2, <1>4, SyncedKept DEF Agrees
<1>6. History(K)'
  BY <1>1, QuietHistory DEF Agrees
<1> QED
  BY <1>3, <1>5, <1>6 DEF AgreeInv

\* The thread applies an event.
LEMMA EventAgrees ==
  ASSUME ConnInv, NEW K, Agrees(K), ProcessConntrackEvent
  PROVE  AgreeInv'
<1> PICK e, B, A, L : /\ e = Head(events) /\ B = K[1] /\ A = K[2]
                      /\ L = Len(events)
  OBVIOUS
<1>1. /\ L \in Nat \ {0} /\ e = events[1] /\ e \in Event
      /\ Len(events') = L - 1
      /\ \A n \in 1..(L - 1) : events'[n] = events[n + 1]
      /\ pc = "run" /\ pc' = "after" /\ conns' = conns
      /\ backlog' = IF backlog = 0 THEN 0 ELSE backlog - 1
      /\ now' = now /\ next_purge' = next_purge /\ events' = Tail(events)
      /\ events # <<>>
  BY TailFacts DEF ProcessConntrackEvent, ConnInv, TypeOK
<1>2. PICK J : History(J)' /\ J[1] = A
  BY <1>1, PopHistory DEF Agrees, ConnInv
<1>3. Window = backlog /\ backlog \in Nat /\ backlog <= L
  BY <1>1 DEF Window, Agrees, Timely, ConnInv, TypeOK
<1>4. /\ B \in Table /\ A \in Table /\ OneEach(B) /\ OneEach(A)
      /\ Applied(e, B, A)
  <2>1. /\ 1 \in 1..L /\ 1 \in 1..(L + 1) /\ 2 \in 1..(L + 1) /\ 1 + 1 = 2
    BY <1>1
  <2> QED BY <1>1, <2>1 DEF Agrees, History, Chained
<1>5. First(e)
  <2>1. \A m \in 1..Window : m = 1 \/ m \in 2..Window
    BY <1>3
  <2> QED
    BY <1>1, <2>1 DEF First, WillCreate, WillDestroy, Creates, Destroys
<1>6. Exclusive(A)
  <2>1. TypeOK /\ History(K) /\ Window <= Len(events)
    BY <1>3 DEF ConnInv, Agrees
  <2>2. 2 \in Nat \ {0} /\ 2 <= Len(events) + 1
    BY <1>1
  <2> QED
    BY <1>3, <2>1, <2>2, Excluded DEF Exclusive
<1>7. Synced(2, A, ct_id_map', ct_flow_map')
  <2>1. Synced(1, B, ct_id_map, ct_flow_map)
    BY DEF Agrees
  <2>2. /\ e.type \in {"NEW", "UPDATE", "DESTROY"}
        /\ e.type # "DESTROY" => Justified(e.ct)
    BY <1>1 DEF Event, ConnInv, NatKnown
  <2>3. CASE e.type = "NEW"
    BY <1>1, <1>4, <1>5, <2>1, <2>2, <2>3, NewSynced
    DEF ProcessConntrackEvent
  <2>4. CASE e.type = "UPDATE"
    BY <1>1, <1>4, <1>5, <1>6, <2>1, <2>2, <2>4,
       UpdateSynced
    DEF ProcessConntrackEvent
  <2>5. CASE e.type = "DESTROY"
    BY <1>1, <1>4, <1>5, <1>6, <2>1, <2>5, DestroySynced
    DEF ProcessConntrackEvent
  <2> QED BY <2>2, <2>3, <2>4, <2>5
<1>8. Synced(1, A, ct_id_map, ct_flow_map)'
  <2>1. Window' = backlog'
    BY <1>1 DEF Window
  <2>2. ASSUME NEW m \in 2..Window
        PROVE  m - 1 \in 1..Window' /\ events'[m - 1] = events[m]
    <3>1. m - 1 \in 1..(L - 1) /\ (m - 1) + 1 = m /\ m - 1 \in 1..Window'
      BY <1>1, <1>3, <2>1
    <3> QED BY <1>1, <3>1
  <2>3. \A i \in Ids : WillDestroy(2, i) => WillDestroy(1, i)'
    BY <2>2 DEF WillDestroy, Destroys
  <2>4. \A i \in Ids, d \in Digests :
          WillCreate(2, i, d) => WillCreate(1, i, d)'
    BY <2>2 DEF WillCreate, Creates
  <2>5. \A i \in Ids : WillCreate(2, i, ct_id_map'[i]) =>
          (WillCreate(1, i, ct_id_map[i]))'
    BY <2>2 DEF WillCreate, Creates
  <2>6. IdsSynced(1, A, ct_id_map)'
    BY <1>7, <2>5 DEF Synced, IdsSynced, Has
  <2>7. FlowsSynced(1, A, ct_id_map, ct_flow_map)'
    BY <1>7, <2>3, <2>4 DEF Synced, FlowsSynced, Has, Serves
  <2>8. FlowsThere(1, ct_id_map, ct_flow_map)'
    BY <1>7, <2>3, <2>5 DEF Synced, FlowsThere
  <2> QED BY <2>6, <2>7, <2>8 DEF Synced
<1>9. Timely'
  BY <1>1, <1>3 DEF Timely, Agrees, ConnInv, TypeOK
<1>10. Synced(1, J[1], ct_id_map, ct_flow_map)'
  BY <1>2, <1>8
<1> QED
  BY <1>2, <1>9, <1>10 DEF AgreeInv

\* With an empty window the maps are those of the table: PurgeFlows takes
\* a flow together with its id.
LEMMA AfterAgrees ==
  ASSUME ConnInv, NEW K, Agrees(K), AfterEvent
  PROVE  AgreeInv'
<1>1. /\ conns' = conns /\ events' = events /\ pc = "after" /\ pc' = "run"
      /\ backlog' = backlog /\ now' = now
  BY DEF AfterEvent, kernelVars
<1>2. Window' = Window /\ Window = backlog /\ backlog \in Nat
  BY <1>1 DEF Window, ConnInv, TypeOK
<1>3. History(K)'
  BY <1>1, QuietHistory DEF Agrees
<1>4. ct_id_map \in IdMap /\ NULL \notin Digests
  BY ConntrackAssumption DEF ConnInv, TypeOK, IdMap
<1>5. CASE ~(now > next_purge)
  <2>1. /\ ct_id_map' = ct_id_map /\ ct_flow_map' = ct_flow_map
        /\ next_purge' = next_purge
    BY <1>5 DEF AfterEvent, mapVars
  <2>2. Timely'
    BY <1>1, <2>1 DEF Timely, Agrees
  <2>3. Synced(1, K[1], ct_id_map, ct_flow_map)'
    BY <1>1, <1>2, <1>4, <2>1, SyncedKept DEF Agrees
  <2> QED BY <1>3, <2>2, <2>3 DEF AgreeInv
<1>6. CASE now > next_purge
  <2> PICK B : B = K[1]
    OBVIOUS
  <2>1. backlog = 0
    BY <1>1, <1>2, <1>6 DEF Agrees, Timely, ConnInv, TypeOK
  <2>2. ~\E m \in 1..Window : TRUE
    BY <1>2, <2>1
  <2>3. OneEach(B)
    BY DEF Agrees, History, Chained, ConnInv, TypeOK
  <2>4. /\ \A i \in Ids : ct_id_map[i] # NULL =>
             Has(B, i, ct_id_map[i]) /\ ct_id_map[i] \in Digests
        /\ \A i \in Ids : ct_id_map[i] \notin Portless \cup {NULL} =>
             ct_flow_map[ct_id_map[i]] # NULL
        /\ \A d \in Digests : ct_flow_map[d] # NULL =>
             /\ ct_flow_map[d].id \in Ids
             /\ Has(B, ct_flow_map[d].id, d)
             /\ ct_id_map[ct_flow_map[d].id] = d
             /\ d \notin Portless =>
                  ct_flow_map[d].nat = B[ct_flow_map[d].id].nat
    BY <1>4, <2>2 DEF Agrees, Synced, IdsSynced, FlowsSynced, FlowsThere,
                      Serves, WillCreate, WillDestroy, IdMap
  <2>5. \A i \in Ids : ct_id_map[i] \notin Portless \cup {NULL} =>
          ct_flow_map[ct_id_map[i]].id = i
    BY <1>4, <2>3, <2>4 DEF OneEach
  <2>6. /\ \A d \in Digests :
             ct_flow_map'[d] = IF d \in Expired THEN NULL ELSE ct_flow_map[d]
        /\ \A i \in Ids :
             ct_id_map'[i] =
               IF \E d \in Expired : i = ct_flow_map[d].id THEN NULL
               ELSE ct_id_map[i]
    BY <1>6 DEF AfterEvent, PurgeFlows
  <2>7. Expired \subseteq {d \in Digests : ct_flow_map[d] # NULL}
    BY DEF Expired
  <2>8. IdsSynced(1, B, ct_id_map)'
    BY <2>4, <2>6 DEF IdsSynced, Has
  <2>9. FlowsSynced(1, B, ct_id_map, ct_flow_map)'
    <3> SUFFICES ASSUME NEW d \in Digests, ct_flow_map'[d] # NULL
                 PROVE  \E h \in Ids : /\ Has(B, h, d) /\ ct_id_map'[h] = d
                                       /\ Serves(ct_flow_map'[d], h, B, d)
      BY DEF FlowsSynced, Has, Serves
    <3> PICK h : h = ct_flow_map[d].id
      OBVIOUS
    <3>1. d \notin Expired /\ ct_flow_map'[d] = ct_flow_map[d]
      BY <2>6
    <3>2. /\ h \in Ids /\ Has(B, h, d) /\ ct_id_map[h] = d
          /\ Serves(ct_flow_map[d], h, B, d)
      BY <2>4, <3>1 DEF Serves
    <3>3. ~\E x \in Expired : h = ct_flow_map[x].id
      BY <2>4, <2>7, <3>1, <3>2
    <3>4. ct_id_map'[h] = d
      BY <2>6, <3>2, <3>3
    <3> QED BY <3>1, <3>2, <3>4
  <2>10. FlowsThere(1, ct_id_map, ct_flow_map)'
    <3> SUFFICES ASSUME NEW i \in Ids,
                        ct_id_map'[i] \notin Portless \cup {NULL}
                 PROVE  ct_flow_map'[ct_id_map'[i]] # NULL
      BY DEF FlowsThere
    <3>1. /\ ct_id_map'[i] = ct_id_map[i]
          /\ ~\E d \in Expired : i = ct_flow_map[d].id
      BY <2>6
    <3>2. /\ ct_id_map[i] \in Digests /\ ct_flow_map[ct_id_map[i]] # NULL
          /\ ct_flow_map[ct_id_map[i]].id = i
      BY <2>4, <2>5, <3>1
    <3>3. ct_id_map[i] \notin Expired
      BY <3>1, <3>2
    <3> QED BY <2>6, <3>1, <3>2, <3>3
  <2>11. Timely'
    BY <1>1, <2>1 DEF Timely, Agrees, ConnInv, TypeOK
  <2>12. Synced(1, B, ct_id_map, ct_flow_map)'
    BY <2>8, <2>9, <2>10 DEF Synced
  <2> QED BY <1>3, <2>11, <2>12 DEF AgreeInv
<1> QED
  BY <1>5, <1>6

LEMMA FlowAgrees ==
  ASSUME ConnInv, NEW K, Agrees(K), NEW d \in Digests, UpdateFlow(d)
  PROVE  AgreeInv'
<1>1. /\ conns' = conns /\ events' = events /\ pc' = pc
      /\ backlog' = backlog /\ now' = now /\ next_purge' = next_purge
      /\ to_dump' = to_dump /\ ct_id_map' = ct_id_map
  BY DEF UpdateFlow, kernelVars
<1>2. Window' = Window
  BY <1>1 DEF Window
<1>3. History(K)'
  BY <1>1, QuietHistory DEF Agrees
<1>4. Timely'
  BY <1>1 DEF Timely, Agrees
<1>5. ct_id_map \in IdMap
  BY DEF ConnInv, TypeOK, IdMap
<1>6. \A x \in Digests :
        /\ ct_flow_map'[x] = NULL <=> ct_flow_map[x] = NULL
        /\ ct_flow_map[x] # NULL =>
             /\ ct_flow_map'[x].id = ct_flow_map[x].id
             /\ ct_flow_map'[x].nat = ct_flow_map[x].nat
  <2> DEFINE renewed == [ct_flow_map[d] EXCEPT !.updated_at = now]
  <2>1. ct_flow_map[d] \in Flow
    BY DEF UpdateFlow, ConnInv, TypeOK
  <2>2. /\ renewed \in Flow /\ renewed.id = ct_flow_map[d].id
        /\ renewed.nat = ct_flow_map[d].nat
    BY <2>1 DEF Flow, ConnInv, TypeOK
  <2>3. ct_flow_map' = [ct_flow_map EXCEPT ![d] = renewed]
    BY DEF UpdateFlow
  <2>4. renewed # NULL /\ ct_flow_map[d] # NULL
    BY <2>1, <2>2, NullAssumption
  <2> QED
    BY <2>2, <2>3, <2>4 DEF ConnInv, TypeOK
<1>7. Synced(1, K[1], ct_id_map, ct_flow_map)'
  BY <1>1, <1>2, <1>5, <1>6, SyncedKept DEF Agrees
<1> QED
  BY <1>3, <1>4, <1>7 DEF AgreeInv

LEMMA InitAgrees == Init => AgreeInv
<1> SUFFICES ASSUME Init PROVE AgreeInv
  OBVIOUS
<1> DEFINE K == [n \in 1..1 |-> conns]
<1>1. /\ Len(events) = 0 /\ 1..Len(events) = {} /\ 1..(Len(events) + 1) = {1}
      /\ K[1] = conns
  BY DEF Init
<1>2. History(K)
  <2>1. conns \in Table /\ OneEach(conns)
    BY DEF Init, Table, OneEach, Has
  <2>2. Chained(K)
    BY <1>1, <2>1 DEF Chained
  <2>3. \A p \in 1..(Len(events) + 1) : K[p] = conns
    BY <1>1
  <2>4. Leaves(K) /\ Enters(K)
    BY <2>3 DEF Leaves, Enters
  <2>5. Makes(K)
    BY <1>1 DEF Makes
  <2> QED BY <2>2, <2>4, <2>5 DEF History
<1>3. Timely
  BY DEF Init, Timely
<1>4. Synced(1, K[1], ct_id_map, ct_flow_map)
  BY DEF Init, Synced, IdsSynced, FlowsSynced, FlowsThere
<1> QED
  BY <1>2, <1>3, <1>4 DEF AgreeInv

LEMMA NextAgrees ==
  ASSUME ConnInv, AgreeInv, [Next]_vars
  PROVE  AgreeInv'
<1> SUFFICES ASSUME faults' = 0 PROVE AgreeInv'
  BY DEF AgreeInv
<1>1. CASE UNCHANGED vars
  <2>1. /\ conns' = conns /\ events' = events /\ pc' = pc /\ faults = 0
        /\ backlog' = backlog /\ now' = now /\ next_purge' = next_purge
        /\ to_dump' = to_dump /\ ct_id_map' = ct_id_map
        /\ ct_flow_map' = ct_flow_map
    BY <1>1 DEF vars, kernelVars, mapVars
  <2>2. PICK K : Agrees(K)
    BY <2>1 DEF AgreeInv, Agrees
  <2>3. History(K)'
    BY <2>1, <2>2, QuietHistory DEF Agrees
  <2>4. Timely'
    BY <2>1, <2>2 DEF Agrees, Timely
  <2>5. ct_id_map \in IdMap /\ Window' = Window
    BY <2>1 DEF ConnInv, TypeOK, IdMap, Window
  <2>6. Synced(1, K[1], ct_id_map, ct_flow_map)'
    BY <2>1, <2>2, <2>5, SyncedKept DEF Agrees
  <2> QED BY <2>3, <2>4, <2>6 DEF AgreeInv
<1>2. CASE Next
  <2>1. faults = 0
    <3>1. faults \in Nat
      BY DEF ConnInv, TypeOK
    <3>2. faults' = faults \/ faults' = faults + 1
      BY <1>2 DEF Next, KernelStep, KernelNew, KernelUpdate, KernelDestroy,
                  Notify, KernelRetry, Tick, DumpEntry, DumpEnd,
                  ProcessConntrackEvent, AfterEvent, UpdateFlow, kernelVars
    <3> QED BY <3>1, <3>2
  <2>2. PICK K : Agrees(K)
    BY <2>1 DEF AgreeInv, Agrees
  <2> QED
    BY <1>2, <2>1, <2>2, KernelAgrees, TickAgrees, DumpAgrees, DumpEndAgrees,
       EventAgrees, AfterAgrees, FlowAgrees DEF Next
<1> QED
  BY <1>1, <1>2

\* As long as no event is lost or late, the maps follow the kernel's table
\* through every interleaving of its changes with the dump, the events and the
\* purges: once all events are applied, every flow is a live connection's,
\* under its id; with ports, it knows whether it is translated, and every id
\* has its flow.
THEOREM MapsAgree == Spec => []AgreesWithKernel
<1>1. ConnInv /\ AgreeInv => AgreesWithKernel
  <2> SUFFICES ASSUME ConnInv, AgreeInv, pc = "run", events = <<>>, faults = 0
               PROVE  /\ \A d \in Digests : ct_flow_map[d] # NULL =>
                           /\ ct_id_map[ct_flow_map[d].id] = d
                           /\ Has(conns, ct_flow_map[d].id, d)
                           /\ d \notin Portless =>
                                ct_flow_map[d].nat =
                                  conns[ct_flow_map[d].id].nat
                      /\ \A i \in Ids :
                           ct_id_map[i] \notin Portless \cup {NULL} =>
                             /\ ct_flow_map[ct_id_map[i]] # NULL
                             /\ ct_flow_map[ct_id_map[i]].id = i
    BY DEF AgreesWithKernel, Has
  <2>1. PICK K : Agrees(K)
    BY DEF AgreeInv, Agrees
  <2>2. Len(events) = 0 /\ Len(events) + 1 = 1 /\ 1 \in 1..1
    OBVIOUS
  <2>3. K[1] = conns /\ OneEach(conns)
    BY <2>1, <2>2 DEF Agrees, History, Chained
  <2>4. ~\E m \in 1..Window : TRUE
    BY <2>1, <2>2 DEF Window, Agrees, Timely, ConnInv, TypeOK
  <2>6. /\ \A i \in Ids : ct_id_map[i] # NULL =>
             Has(conns, i, ct_id_map[i]) /\ ct_id_map[i] \in Digests
        /\ \A i \in Ids : ct_id_map[i] \notin Portless \cup {NULL} =>
             ct_flow_map[ct_id_map[i]] # NULL
        /\ \A d \in Digests : ct_flow_map[d] # NULL =>
             /\ ct_flow_map[d].id \in Ids
             /\ Has(conns, ct_flow_map[d].id, d)
             /\ ct_id_map[ct_flow_map[d].id] = d
             /\ d \notin Portless =>
                  ct_flow_map[d].nat = conns[ct_flow_map[d].id].nat
    BY <2>1, <2>3, <2>4
    DEF Agrees, Synced, IdsSynced, FlowsSynced, FlowsThere, Serves,
        WillCreate, WillDestroy, ConnInv, TypeOK
  <2> QED
    BY <2>3, <2>6 DEF OneEach
<1>2. ConnInv /\ AgreeInv /\ [Next]_vars => AgreeInv'
  BY NextAgrees
<1>3. Spec => []ConnInv
  BY ConntrackInvariant
<1> QED
  BY <1>1, <1>2, <1>3, InitAgrees, PTL DEF Spec
=============================================================================
