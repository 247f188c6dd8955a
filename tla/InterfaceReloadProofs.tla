------------------------ MODULE InterfaceReloadProofs ------------------------
(***************************************************************************)
(* Proofs of the properties of InterfaceReload, for any interfaces,        *)
(* settings, addresses and size of the Netlink socket.                     *)
(*                                                                         *)
(* ThreadsConfigured is inductive by itself.  RecordedLocal needs that the *)
(* first reload finds no interface in use, so that it has nothing to       *)
(* compare with.                                                           *)
(* KernelLocal is about the moments at which the socket is empty; in       *)
(* between, what is missing in the table is on its way (KernelUnderWay).   *)
(***************************************************************************)
EXTENDS InterfaceReload, SequenceTheorems, TLAPS

FirstReload == phase = "start" => \A i \in Interfaces : interfaces[i] = NULL

\* A message that says that interface i was given the address a
Added(i, a) == [add |-> TRUE, iface |-> i, addr |-> a]

KernelUnderWay ==
  ~lost =>
    \A i \in Interfaces : \A a \in kernel[i] \cap Plain :
      a \in local[i] \/ \E n \in 1..Len(events) : events[n] = Added(i, a)

InterfaceInv ==
  /\ TypeOK /\ FirstReload /\ ThreadsConfigured /\ RecordedLocal
  /\ KernelUnderWay

\* Plain addresses of IPv4 are neither replaced by broadcast addresses nor
\* broadcast addresses themselves.
LEMMA PlainAddresses ==
  ASSUME NEW a \in Plain
  PROVE  /\ a \in V4 /\ a \in Addrs /\ a \notin V6 /\ Broadcast(a) = NULL
         /\ \A b : Broadcast(b) # a
<1>1. a \in V4 /\ a # NULL
  BY InterfaceAssumption DEF Plain
<1> QED
  BY <1>1, InterfaceAssumption DEF Plain, Broadcast, Addrs

LEMMA InitInterfaces == Init => InterfaceInv
<1> SUFFICES ASSUME Init PROVE InterfaceInv
  OBVIOUS
<1>1. TypeOK
  <2>1. /\ events \in Seq(Event \cup {NULL}) /\ Len(events) <= MaxEvents
        /\ buffered \in 0..Len(events)
    BY InterfaceAssumption DEF Init
  <2> QED
    BY <2>1 DEF Init, TypeOK
<1>2. FirstReload /\ ThreadsConfigured /\ RecordedLocal
  BY DEF Init, FirstReload, ThreadsConfigured, RecordedLocal
<1>3. KernelUnderWay
  <2> SUFFICES ASSUME ~lost, NEW i \in Interfaces,
                      NEW a \in kernel[i] \cap Plain, a \notin local[i]
               PROVE  FALSE
    BY DEF KernelUnderWay
  <2>1. Broadcast(a) # NULL \/ \E b \in kernel[i] : Broadcast(b) = a
    BY DEF Init
  <2> QED
    BY <2>1, PlainAddresses
<1> QED
  BY <1>1, <1>2, <1>3 DEF InterfaceInv

-----------------------------------------------------------------------------
\* What a message does to the addresses of its interface: a plain address is
\* not taken away, and one that is added is local.
LEMMA Applied ==
  ASSUME TypeOK, NEW e \in Event
  PROVE  /\ Apply(local, e) \in [Interfaces -> SUBSET Addrs]
         /\ \A i \in Interfaces \ {e.iface} : Apply(local, e)[i] = local[i]
         /\ \A i \in Interfaces : local[i] \cap Plain \subseteq Apply(local, e)[i]
         /\ e.add /\ e.addr \in Plain => e.addr \in Apply(local, e)[e.iface]
<1> DEFINE b == Broadcast(e.addr)
           now == IF e.add
                  THEN IF b = NULL THEN local[e.iface] \cup {e.addr}
                       ELSE local[e.iface] \ {b}
                  ELSE local[e.iface] \ ({IF b = NULL THEN e.addr ELSE b} \cap V6)
<1>1. /\ e.iface \in Interfaces /\ e.addr \in Addrs /\ e.add \in BOOLEAN
      /\ local \in [Interfaces -> SUBSET Addrs]
  BY DEF Event, TypeOK
<1>2. Apply(local, e) = [local EXCEPT ![e.iface] = now]
  BY <1>1 DEF Apply, AddAddresses, RemoveAddresses
<1>3. now \subseteq Addrs
  BY <1>1
<1>4. local[e.iface] \cap Plain \subseteq now
  <2> SUFFICES ASSUME NEW a \in Plain, a \in local[e.iface] PROVE a \in now
    OBVIOUS
  <2>1. a \notin V6 /\ b # a
    BY PlainAddresses
  <2> QED
    BY <2>1
<1>5. e.add /\ e.addr \in Plain => e.addr \in now
  BY PlainAddresses
<1> HIDE DEF now
<1> QED
  BY <1>1, <1>2, <1>3, <1>4, <1>5

\* A change of the kernel's addresses is on the socket, or one was lost.
LEMMA KernelStep ==
  ASSUME InterfaceInv, NEW i \in Interfaces, NEW a \in Linked[i],
         KernelChange(i, a)
  PROVE  InterfaceInv'
<1> DEFINE e == [add |-> a \notin kernel[i], iface |-> i, addr |-> a]
<1>1. /\ kernel' = [kernel EXCEPT ![i] =
                      IF a \in @ THEN @ \ {a} ELSE @ \cup {a}]
      /\ UNCHANGED <<buffered, addrVars, threadVars, phase>>
  BY DEF KernelChange
<1>2. \/ Len(events) < MaxEvents /\ events' = Append(events, e) /\ lost' = lost
      \/ lost' = TRUE /\ events' = events
  BY DEF KernelChange, Send
<1>3. /\ e \in Event /\ events \in Seq(Event \cup {NULL})
      /\ Len(events) \in Nat /\ buffered \in 0..Len(events)
  BY InterfaceAssumption DEF Event, InterfaceInv, TypeOK
<1> HIDE DEF e
<1>4. /\ events' \in Seq(Event \cup {NULL}) /\ Len(events') <= MaxEvents
      /\ buffered \in 0..Len(events')
  BY <1>2, <1>3, InterfaceAssumption DEF InterfaceInv, TypeOK
<1>5. TypeOK'
  <2>1. kernel' \in [Interfaces -> SUBSET Addrs]
    BY <1>1, InterfaceAssumption DEF InterfaceInv, TypeOK
  <2> QED
    BY <1>1, <1>2, <1>4, <2>1 DEF InterfaceInv, TypeOK, addrVars, threadVars
<1>6. FirstReload' /\ ThreadsConfigured' /\ RecordedLocal'
  BY <1>1
  DEF InterfaceInv, FirstReload, ThreadsConfigured, RecordedLocal, addrVars,
      threadVars
<1>7. KernelUnderWay'
  <2> SUFFICES ASSUME ~lost', NEW j \in Interfaces,
                      NEW b \in kernel'[j] \cap Plain, b \notin local'[j]
               PROVE  \E n \in 1..Len(events') : events'[n] = Added(j, b)
    BY DEF KernelUnderWay
  <2>1. ~lost /\ events' = Append(events, e) /\ b \notin local[j]
    BY <1>1, <1>2 DEF addrVars, InterfaceInv, TypeOK
  <2>2. CASE b \in kernel[j]
    <3>1. PICK n \in 1..Len(events) : events[n] = Added(j, b)
      BY <2>1, <2>2 DEF InterfaceInv, KernelUnderWay
    <3> QED
      BY <1>3, <2>1, <3>1
  <2>3. CASE b \notin kernel[j]
    <3>1. j = i /\ b = a
      BY <1>1, <1>3, <2>3 DEF InterfaceInv, TypeOK
    <3>2. e = Added(j, b)
      BY <2>3, <3>1 DEF e, Added
    <3> QED
      BY <1>3, <2>1, <3>2
  <2> QED
    BY <2>2, <2>3
<1> QED
  BY <1>5, <1>6, <1>7 DEF InterfaceInv

\* Errors of the kernel, and recv(): no message but errors comes or goes.
LEMMA SocketStep ==
  ASSUME InterfaceInv, KernelError \/ Receive PROVE InterfaceInv'
<1>1. UNCHANGED <<kernel, lost, addrVars, threadVars>>
  BY DEF KernelError, Receive, Send
<1>2. events' = Append(events, NULL) \/ events' = events
  BY DEF KernelError, Receive, Send
<1>3. events \in Seq(Event \cup {NULL}) /\ Len(events) \in Nat
  BY DEF InterfaceInv, TypeOK
<1>4. TypeOK'
  <2>1. CASE KernelError
    <3>1. /\ events' = Append(events, NULL) /\ Len(events) < MaxEvents
          /\ UNCHANGED <<buffered, phase>>
      BY <2>1 DEF KernelError, Send
    <3>2. /\ events' \in Seq(Event \cup {NULL}) /\ Len(events') <= MaxEvents
          /\ buffered' \in 0..Len(events')
      BY <1>3, <3>1, InterfaceAssumption DEF InterfaceInv, TypeOK
    <3> QED
      BY <1>1, <3>1, <3>2 DEF InterfaceInv, TypeOK, addrVars, threadVars
  <2>2. CASE Receive
    <3>1. /\ events' = events /\ buffered' \in 0..Len(events')
          /\ phase' = "netlink"
      BY <1>3, <2>2 DEF Receive
    <3> QED
      BY <1>1, <3>1 DEF InterfaceInv, TypeOK, addrVars, threadVars
  <2> QED
    BY <2>1, <2>2
<1>5. \/ phase' = phase
      \/ phase \in {"run", "netlink"} /\ phase' = "netlink"
  BY DEF KernelError, Receive
<1>6. FirstReload' /\ ThreadsConfigured' /\ RecordedLocal'
  BY <1>1, <1>5
  DEF InterfaceInv, FirstReload, ThreadsConfigured, RecordedLocal, addrVars,
      threadVars
<1>7. KernelUnderWay'
  <2> SUFFICES ASSUME ~lost', NEW j \in Interfaces,
                      NEW b \in kernel'[j] \cap Plain, b \notin local'[j]
               PROVE  \E n \in 1..Len(events') : events'[n] = Added(j, b)
    BY DEF KernelUnderWay
  <2>1. PICK n \in 1..Len(events) : events[n] = Added(j, b)
    BY <1>1 DEF InterfaceInv, KernelUnderWay, addrVars
  <2>2. n \in 1..Len(events') /\ events'[n] = events[n]
    BY <1>2, <1>3
  <2> QED
    BY <2>1, <2>2
<1> QED
  BY <1>4, <1>6, <1>7 DEF InterfaceInv

\* A message applied: a plain address it adds is local, no plain one is taken
\* away, and what it takes away is remembered in unlocal.
LEMMA EventStep == ASSUME InterfaceInv, ProcessEvent PROVE InterfaceInv'
<1> DEFINE e == Head(events)
<1>1. /\ phase = "netlink" /\ phase' \in {"run", "netlink"} /\ e # NULL
      /\ buffered > 0 /\ events' = Tail(events) /\ buffered' = buffered - 1
      /\ local' = Apply(local, e)
      /\ unlocal' = [unlocal EXCEPT ![e.iface] =
                       @ \cup (local[e.iface] \ local'[e.iface])]
      /\ UNCHANGED <<kernel, lost, interface_addrs, threadVars>>
  BY DEF ProcessEvent
<1>2. /\ events \in Seq(Event \cup {NULL}) /\ Len(events) \in Nat
      /\ buffered \in 0..Len(events) /\ events # <<>>
  BY <1>1 DEF InterfaceInv, TypeOK
<1>3. e \in Event
  BY <1>1, <1>2
<1>4. /\ events' \in Seq(Event \cup {NULL}) /\ Len(events') <= MaxEvents
      /\ buffered' \in 0..Len(events')
  BY <1>1, <1>2, InterfaceAssumption DEF InterfaceInv, TypeOK
<1>e. e = events[1]
  BY <1>2
<1> HIDE DEF e
<1>5. e.iface \in Interfaces /\ TypeOK
  BY <1>3 DEF Event, InterfaceInv
<1>6. /\ local' \in [Interfaces -> SUBSET Addrs]
      /\ \A i \in Interfaces \ {e.iface} : local'[i] = local[i]
      /\ \A i \in Interfaces : local[i] \cap Plain \subseteq local'[i]
      /\ e.add /\ e.addr \in Plain => e.addr \in local'[e.iface]
  BY <1>1, <1>3, <1>5, Applied
<1>7. TypeOK'
  <2>1. unlocal' \in [Interfaces -> SUBSET Addrs]
    BY <1>1, <1>5 DEF TypeOK
  <2> QED
    BY <1>1, <1>4, <1>5, <1>6, <2>1 DEF TypeOK, threadVars
<1>8. FirstReload' /\ ThreadsConfigured'
  BY <1>1 DEF InterfaceInv, FirstReload, ThreadsConfigured, threadVars
<1>9. RecordedLocal'
  <2> SUFFICES ASSUME NEW i \in Interfaces
               PROVE  interface_addrs'[i] \ unlocal'[i] \subseteq local'[i]
    BY DEF RecordedLocal
  <2>1. interface_addrs[i] \ unlocal[i] \subseteq local[i]
    BY <1>1 DEF InterfaceInv, RecordedLocal
  <2>2. CASE i = e.iface
    <3>1. unlocal'[i] = unlocal[i] \cup (local[i] \ local'[i])
      BY <1>1, <1>5, <2>2 DEF TypeOK
    <3> QED
      BY <1>1, <2>1, <3>1
  <2>3. CASE i # e.iface
    <3>1. unlocal'[i] = unlocal[i] /\ local'[i] = local[i]
      BY <1>1, <1>5, <1>6, <2>3 DEF TypeOK
    <3> QED
      BY <1>1, <2>1, <3>1
  <2> QED
    BY <2>2, <2>3
<1>10. KernelUnderWay'
  <2> SUFFICES ASSUME ~lost', NEW j \in Interfaces,
                      NEW b \in kernel'[j] \cap Plain, b \notin local'[j]
               PROVE  \E n \in 1..Len(events') : events'[n] = Added(j, b)
    BY DEF KernelUnderWay
  <2>1. b \notin local[j]
    BY <1>6
  <2>2. PICK n \in 1..Len(events) : events[n] = Added(j, b)
    BY <1>1, <2>1 DEF InterfaceInv, KernelUnderWay
  <2>3. n # 1
    <3>1. ASSUME n = 1 PROVE FALSE
      <4>1. e.add /\ e.addr = b /\ e.iface = j
        BY <1>e, <2>2, <3>1 DEF Added
      <4> QED
        BY <1>6, <4>1
    <3> QED
      BY <3>1
  <2>4. n - 1 \in 1..Len(events') /\ events'[n - 1] = events[n]
    BY <1>1, <1>2, <2>2, <2>3
  <2> QED
    BY <2>2, <2>4
<1> QED
  BY <1>7, <1>8, <1>9, <1>10 DEF InterfaceInv

\* An error: unless it is the last message of the buffer, some are dropped.
LEMMA ErrorStep == ASSUME InterfaceInv, ProcessError PROVE InterfaceInv'
<1>1. /\ phase = "netlink" /\ phase' = "run" /\ Head(events) = NULL
      /\ buffered > 0 /\ buffered' = 0 /\ lost' = (lost \/ buffered > 1)
      /\ events' = SubSeq(events, buffered + 1, Len(events))
      /\ UNCHANGED <<kernel, addrVars, threadVars>>
  BY DEF ProcessError
<1>2. /\ events \in Seq(Event \cup {NULL}) /\ Len(events) \in Nat
      /\ buffered \in 1..Len(events) /\ events[1] = NULL
  BY <1>1 DEF InterfaceInv, TypeOK
<1>3. /\ events' \in Seq(Event \cup {NULL})
      /\ Len(events') = Len(events) - buffered
      /\ \A n \in 1..Len(events') : events'[n] = events[n + buffered]
  BY <1>1, <1>2
<1>4. TypeOK'
  <2>1. Len(events') <= MaxEvents /\ buffered' \in 0..Len(events')
    BY <1>1, <1>2, <1>3, InterfaceAssumption DEF InterfaceInv, TypeOK
  <2> QED
    BY <1>1, <1>3, <2>1 DEF InterfaceInv, TypeOK, addrVars, threadVars
<1>5. FirstReload' /\ ThreadsConfigured' /\ RecordedLocal'
  BY <1>1
  DEF InterfaceInv, FirstReload, ThreadsConfigured, RecordedLocal, addrVars,
      threadVars
<1>6. KernelUnderWay'
  <2> SUFFICES ASSUME ~lost', NEW j \in Interfaces,
                      NEW b \in kernel'[j] \cap Plain, b \notin local'[j]
               PROVE  \E n \in 1..Len(events') : events'[n] = Added(j, b)
    BY DEF KernelUnderWay
  <2>0. ~lost /\ ~(buffered > 1)
    BY <1>1
  <2>1. ~lost /\ buffered = 1
    BY <1>2, <2>0
  <2>2. PICK n \in 1..Len(events) : events[n] = Added(j, b)
    BY <1>1, <2>1 DEF InterfaceInv, KernelUnderWay, addrVars
  <2>3. Added(j, b) \in Event
    BY PlainAddresses DEF Added, Event
  <2>4. n # 1
    BY <1>2, <2>2, <2>3, InterfaceAssumption
  <2>5. n - 1 \in 1..Len(events') /\ events'[n - 1] = events[n]
    BY <1>2, <1>3, <2>1, <2>4
  <2> QED
    BY <2>2, <2>5
<1> QED
  BY <1>4, <1>5, <1>6 DEF InterfaceInv

-----------------------------------------------------------------------------
\* ReloadCaptureThreads: what the sections that were read are turned into.
LEMMA LoadedType ==
  ASSUME TypeOK, NEW f \in Files, NEW i \in Interfaces
  PROVE  /\ Loaded(f, i) \in Settings \cup {NULL}
         /\ LoadedAddrs(f, i) \subseteq Addrs
<1>1. f[i] \in Section(i)
  BY DEF Files
<1>2. /\ f[i] # NULL => f[i].settings \in Settings
      /\ f[i] # NULL => f[i].addrs \subseteq Addrs
  BY <1>1, InterfaceAssumption DEF Section
<1>3. interfaces[i] \in Settings \cup {NULL} /\ interface_addrs[i] \subseteq Addrs
  BY DEF TypeOK
<1> QED
  BY <1>2, <1>3, InterfaceAssumption DEF Loaded, LoadedAddrs

\* An interface that is not to be used has no addresses to be recorded,
\* unless it is one of the command line, which always is used.
LEMMA UnusedAddrs ==
  ASSUME TypeOK, NEW f \in Files, NEW i \in Interfaces, Loaded(f, i) = NULL
  PROVE  LoadedAddrs(f, i) = {}
<1>1. f[i] # NULL => f[i].settings # NULL
  BY InterfaceAssumption DEF Files, Section
<1>2. i \notin CmdLine /\ f[i] = NULL
  BY <1>1, InterfaceAssumption DEF Loaded
<1> QED
  BY <1>2 DEF LoadedAddrs

\* The threads a reload leaves an interface with fit the settings loaded.
LEMMA ThreadsReloaded ==
  ASSUME TypeOK, ThreadsConfigured, NEW f \in Files, NEW i \in Interfaces
  PROVE  /\ ReloadedThread(f, i) \in Thread \cup {NULL}
         /\ Loaded(f, i) = NULL => ReloadedThread(f, i) = NULL
         /\ Loaded(f, i) # NULL =>
              /\ ReloadedThread(f, i) # NULL
              /\ ReloadedThread(f, i).settings = Loaded(f, i)
<1>1. threads[i] \in Thread \cup {NULL} /\ Loaded(f, i) \in Settings \cup {NULL}
  BY LoadedType DEF TypeOK
<1>2. CASE i \in New(f)
  <2>1. NewThread(f, i) \in Thread
    BY <1>1, <1>2 DEF New, NewThread, Thread
  <2>2. NewThread(f, i).settings = Loaded(f, i)
    BY DEF NewThread
  <2> QED
    BY <1>2, <2>1, <2>2, InterfaceAssumption DEF ReloadedThread, New
<1>3. CASE i \notin New(f)
  BY <1>1, <1>3 DEF ReloadedThread, New, Deleted, ThreadsConfigured
<1> QED
  BY <1>2, <1>3

\* What a reload does to the addresses of an interface: none that it has
\* recorded is missing, and no plain one is taken away.
LEMMA AddressesReloaded ==
  ASSUME TypeOK, NEW f \in Files, NEW i \in Interfaces
  PROVE  /\ ReloadedLocal(f, i) \subseteq Addrs
         /\ ReloadedAddrs(f, i) \subseteq Addrs
         /\ local[i] \cap Plain \subseteq ReloadedLocal(f, i)
         /\ i \notin Unchanged(f) =>
              ReloadedAddrs(f, i) \subseteq ReloadedLocal(f, i)
         /\ /\ i \in Unchanged(f)
            /\ interface_addrs[i] \ unlocal[i] \subseteq local[i]
            => ReloadedAddrs(f, i) \ unlocal[i] \subseteq ReloadedLocal(f, i)
<1> DEFINE L == LoadedAddrs(f, i)
<1>1. /\ L \subseteq Addrs /\ local[i] \subseteq Addrs
      /\ interface_addrs[i] \subseteq Addrs
  BY LoadedType DEF TypeOK
<1>2. Plain \cap V6 = {}
  BY InterfaceAssumption DEF Plain
<1> HIDE DEF L
<1>3. CASE i \in Unchanged(f)
  <2>1. i \notin Deleted(f)
    BY <1>3 DEF Unchanged, Deleted
  <2>2. /\ ReloadedLocal(f, i) =
             (local[i] \cup (L \ interface_addrs[i]))
               \ ((interface_addrs[i] \ L) \cap V6)
        /\ ReloadedAddrs(f, i) = L
    BY <1>3, <2>1
    DEF ReloadedLocal, ReloadedAddrs, AddAddresses, RemoveAddresses, L
  <2> QED
    BY <1>1, <1>2, <1>3, <2>2
<1>4. CASE i \in Deleted(f)
  <2>1. i \notin Unchanged(f)
    BY <1>4 DEF Unchanged, Deleted
  <2>2. ReloadedLocal(f, i) = local[i] \ (L \cap V6) /\ ReloadedAddrs(f, i) = {}
    BY <1>4, <2>1 DEF ReloadedLocal, ReloadedAddrs, RemoveAddresses, L
  <2> QED
    BY <1>1, <1>2, <2>1, <2>2
<1>5. CASE i \notin Unchanged(f) /\ i \notin Deleted(f)
  <2>1. i \notin New(f) => L = {}
    BY <1>5, UnusedAddrs DEF Unchanged, Deleted, New, L
  <2>2. /\ ReloadedLocal(f, i) =
             IF i \in New(f) THEN local[i] \cup L ELSE local[i]
        /\ ReloadedAddrs(f, i) = L
    BY <1>5 DEF ReloadedLocal, ReloadedAddrs, AddAddresses, L
  <2> QED
    BY <1>1, <1>5, <2>1, <2>2
<1> QED
  BY <1>3, <1>4, <1>5

\* What is under way to the address table stays so when no plain address is
\* taken from it.
LEMMA KernelKept ==
  ASSUME KernelUnderWay, UNCHANGED <<kernel, events, lost>>,
         \A i \in Interfaces : local[i] \cap Plain \subseteq local'[i]
  PROVE  KernelUnderWay'
  BY DEF KernelUnderWay

LEMMA ReloadStep ==
  ASSUME InterfaceInv, NEW f \in Files, Reload(f) PROVE InterfaceInv'
<1> USE DEF InterfaceInv
<1>1. /\ phase \in {"start", "run"} /\ phase' = "run"
      /\ interfaces' = [i \in Interfaces |-> Loaded(f, i)]
      /\ threads' = [i \in Interfaces |-> ReloadedThread(f, i)]
      /\ local' = [i \in Interfaces |-> ReloadedLocal(f, i)]
      /\ interface_addrs' = [i \in Interfaces |-> ReloadedAddrs(f, i)]
      /\ unlocal' = [i \in Interfaces |->
                       IF i \in Unchanged(f) THEN unlocal[i] ELSE {}]
      /\ UNCHANGED <<kernel, socketVars, orphans>>
  BY DEF Reload
<1>2. TypeOK'
  <2>1. interfaces' \in [Interfaces -> Settings \cup {NULL}]
    BY <1>1, LoadedType
  <2>2. threads' \in [Interfaces -> Thread \cup {NULL}]
    BY <1>1, ThreadsReloaded
  <2>3. /\ local' \in [Interfaces -> SUBSET Addrs]
        /\ interface_addrs' \in [Interfaces -> SUBSET Addrs]
    BY <1>1, AddressesReloaded
  <2>4. unlocal' \in [Interfaces -> SUBSET Addrs]
    BY <1>1 DEF TypeOK
  <2> QED
    BY <1>1, <2>1, <2>2, <2>3, <2>4 DEF TypeOK, socketVars
<1>3. ThreadsConfigured'
  <2>1. \A i \in Interfaces : orphans'[i] = NULL
    BY <1>1 DEF ThreadsConfigured
  <2> QED
    BY <1>1, <2>1, ThreadsReloaded DEF ThreadsConfigured
<1>4. RecordedLocal'
  <2> SUFFICES ASSUME NEW i \in Interfaces
               PROVE  interface_addrs'[i] \ unlocal'[i] \subseteq local'[i]
    BY DEF RecordedLocal
  <2>1. CASE i \in Unchanged(f)
    <3>1. phase = "run"
      BY <1>1, <2>1 DEF FirstReload, Unchanged
    <3> QED
      BY <1>1, <2>1, <3>1, AddressesReloaded DEF RecordedLocal
  <2>2. CASE i \notin Unchanged(f)
    BY <1>1, <2>2, AddressesReloaded
  <2> QED
    BY <2>1, <2>2
<1>5. KernelUnderWay'
  BY <1>1, AddressesReloaded, KernelKept DEF socketVars
<1>6. FirstReload'
  BY <1>1 DEF FirstReload
<1> QED
  BY <1>2, <1>3, <1>4, <1>5, <1>6

\* The threads that are left in no map are of new interfaces, which have none
\* in the map.
LEMMA ReloadFailsStep ==
  ASSUME InterfaceInv, NEW f \in Files, ReloadFails(f) PROVE InterfaceInv'
<1> USE DEF InterfaceInv
<1>1. /\ phase \in {"start", "run"} /\ phase' = "failed"
      /\ interfaces' = [i \in Interfaces |->
                          IF i \in Deleted(f) THEN NULL ELSE interfaces[i]]
      /\ threads' = [i \in Interfaces |->
                       IF i \in Deleted(f) THEN NULL ELSE threads[i]]
      /\ local' = [i \in Interfaces |->
                     IF i \in New(f) \ Deleted(f) THEN local[i]
                     ELSE ReloadedLocal(f, i)]
      /\ interface_addrs' = [i \in Interfaces |-> ReloadedAddrs(f, i)]
      /\ UNCHANGED <<kernel, socketVars, unlocal>>
  BY DEF ReloadFails, MayFail
<1>2. PICK started \in SUBSET New(f) :
        orphans' = [i \in Interfaces |->
                      IF i \in started THEN NewThread(f, i) ELSE orphans[i]]
  BY DEF ReloadFails
<1>3. \A i \in New(f) :
        NewThread(f, i) \in Thread /\ (interfaces[i] = NULL \/ i \in Deleted(f))
  <2> SUFFICES ASSUME NEW i \in New(f)
               PROVE  /\ NewThread(f, i) \in Thread
                      /\ interfaces[i] = NULL \/ i \in Deleted(f)
    OBVIOUS
  <2>1. i \in Interfaces /\ Loaded(f, i) \in Settings
    BY LoadedType DEF New
  <2>2. threads[i] \in Thread \cup {NULL}
    BY <2>1 DEF TypeOK
  <2>3. NewThread(f, i) \in Thread
    BY <2>1, <2>2 DEF NewThread, Thread
  <2> QED
    BY <2>1, <2>3 DEF New, Deleted
<1>4. TypeOK'
  <2>1. /\ interfaces' \in [Interfaces -> Settings \cup {NULL}]
        /\ threads' \in [Interfaces -> Thread \cup {NULL}]
    BY <1>1 DEF TypeOK
  <2>2. orphans' \in [Interfaces -> Thread \cup {NULL}]
    BY <1>2, <1>3 DEF TypeOK
  <2>3. /\ local' \in [Interfaces -> SUBSET Addrs]
        /\ interface_addrs' \in [Interfaces -> SUBSET Addrs]
    BY <1>1, AddressesReloaded DEF TypeOK
  <2> QED
    BY <1>1, <2>1, <2>2, <2>3 DEF TypeOK, socketVars
<1>5. ThreadsConfigured'
  <2> SUFFICES ASSUME NEW i \in Interfaces
               PROVE  /\ IF interfaces'[i] = NULL THEN threads'[i] = NULL
                         ELSE /\ threads'[i] # NULL
                              /\ threads'[i].settings = interfaces'[i]
                      /\ orphans'[i] # NULL =>
                           phase' = "failed" /\ threads'[i] = NULL
    BY DEF ThreadsConfigured
  <2>1. IF interfaces'[i] = NULL THEN threads'[i] = NULL
        ELSE threads'[i] # NULL /\ threads'[i].settings = interfaces'[i]
    BY <1>1 DEF ThreadsConfigured
  <2>2. orphans[i] = NULL
    BY <1>1 DEF ThreadsConfigured
  <2>3. ASSUME orphans'[i] # NULL PROVE threads'[i] = NULL
    <3>1. i \in New(f)
      BY <1>2, <2>2, <2>3
    <3> QED
      BY <1>1, <1>3, <3>1 DEF ThreadsConfigured
  <2> QED
    BY <1>1, <2>1, <2>3
<1>6. KernelUnderWay'
  BY <1>1, AddressesReloaded, KernelKept DEF socketVars
<1>7. FirstReload' /\ RecordedLocal'
  BY <1>1 DEF FirstReload, RecordedLocal
<1> QED
  BY <1>4, <1>5, <1>6, <1>7

\* What LoadInterfaces has recorded when it throws is never applied.
LEMMA ReadFailsStep ==
  ASSUME InterfaceInv, NEW f \in Files, ReadFails(f) PROVE InterfaceInv'
<1> USE DEF InterfaceInv
<1>1. /\ phase \in {"start", "run"} /\ phase' = "failed"
      /\ interface_addrs' = [i \in Interfaces |-> LoadedAddrs(f, i)]
      /\ UNCHANGED <<kernel, socketVars, threadVars, local, unlocal>>
  BY DEF ReadFails, MayFail
<1>2. interface_addrs' \in [Interfaces -> SUBSET Addrs]
  BY <1>1, LoadedType
<1>3. TypeOK'
  BY <1>1, <1>2 DEF TypeOK, socketVars, threadVars
<1>4. FirstReload' /\ ThreadsConfigured' /\ RecordedLocal'
  BY <1>1 DEF FirstReload, ThreadsConfigured, RecordedLocal, threadVars
<1>5. KernelUnderWay'
  BY <1>1 DEF KernelUnderWay, socketVars
<1> QED
  BY <1>3, <1>4, <1>5

-----------------------------------------------------------------------------
\* The inductive invariant of interfaces and addresses.
THEOREM InterfaceInvariant == Spec => []InterfaceInv
<1>1. ASSUME InterfaceInv, UNCHANGED vars
      PROVE  InterfaceInv'
  BY <1>1
  DEF InterfaceInv, TypeOK, FirstReload, ThreadsConfigured, RecordedLocal,
      KernelUnderWay, vars, socketVars, addrVars, threadVars
<1>2. ASSUME InterfaceInv, [Next]_vars
      PROVE  InterfaceInv'
  BY <1>1, <1>2, KernelStep, SocketStep, EventStep, ErrorStep, ReloadStep,
     ReloadFailsStep, ReadFailsStep
  DEF Next
<1> QED
  BY <1>2, InitInterfaces, PTL DEF Spec

\* Whatever the files contained at each reload, readable or not, every
\* interface in use has threads with its settings; other threads run only
\* after a reload that failed, and for interfaces not in use.
THEOREM ReloadConfigures == Spec => []ThreadsConfigured
<1>1. InterfaceInv => ThreadsConfigured
  BY DEF InterfaceInv
<1> QED
  BY <1>1, InterfaceInvariant, PTL

\* Every address recorded for an interface is in the address table, unless
\* Netlink has removed it or made it a broadcast address.
THEOREM RecordedAddressesLocal == Spec => []RecordedLocal
<1>1. InterfaceInv => RecordedLocal
  BY DEF InterfaceInv
<1> QED
  BY <1>1, InterfaceInvariant, PTL

\* With an empty Netlink socket and no message ever lost or dropped, every
\* plain IPv4 address of the kernel is local: no reload has taken it away.
THEOREM KernelAddressesLocal == Spec => []KernelLocal
<1>1. ASSUME InterfaceInv PROVE KernelLocal
  <2>1. events = <<>> => Len(events) = 0
    OBVIOUS
  <2> QED
    BY <1>1, <2>1 DEF InterfaceInv, KernelUnderWay, KernelLocal
<1> QED
  BY <1>1, InterfaceInvariant, PTL

\* No step, and so no reload, replaces the threads of an interface by others
\* with the same settings: a running capture is not interrupted.
THEOREM ReloadKeepsUnchanged == Spec => UnchangedKept
<1> DEFINE Kept ==
      \A i \in Interfaces :
        threads[i] # NULL /\ threads'[i] # NULL
          /\ threads'[i].settings = threads[i].settings
        => threads'[i] = threads[i]
<1>1. ASSUME InterfaceInv, NEW f \in Files, Reload(f) PROVE Kept
  <2> SUFFICES ASSUME NEW i \in Interfaces, threads[i] # NULL,
                      threads'[i].settings = threads[i].settings,
                      threads'[i] # NULL
               PROVE  threads'[i] = threads[i]
    OBVIOUS
  <2>1. /\ threads'[i] = ReloadedThread(f, i)
        /\ interfaces[i] = threads[i].settings
    BY <1>1 DEF Reload, InterfaceInv, ThreadsConfigured
  <2>2. i \notin New(f)
    <3>1. ASSUME i \in New(f) PROVE FALSE
      <4>1. threads'[i].settings = Loaded(f, i)
        BY <2>1, <3>1 DEF ReloadedThread, NewThread
      <4> QED
        BY <2>1, <3>1, <4>1 DEF New
    <3> QED
      BY <3>1
  <2> QED
    BY <2>1, <2>2 DEF ReloadedThread
<1>2. ASSUME InterfaceInv, NEW f \in Files, ReloadFails(f) PROVE Kept
  BY <1>2 DEF ReloadFails
<1>3. ASSUME InterfaceInv, Next, 
             ~ \E f \in Files : Reload(f) \/ ReloadFails(f)
      PROVE  Kept
  <2>1. UNCHANGED threads
    BY <1>3
    DEF Next, KernelChange, KernelError, Receive, ProcessEvent, ProcessError,
        ReadFails, threadVars
  <2> QED
    BY <2>1
<1>4. InterfaceInv /\ [Next]_vars => [Kept]_vars
  BY <1>1, <1>2, <1>3
<1> QED
  BY <1>4, InterfaceInvariant, PTL DEF Spec, UnchangedKept

=============================================================================
