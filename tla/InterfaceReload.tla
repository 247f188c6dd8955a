--------------------------- MODULE InterfaceReload ---------------------------
(***************************************************************************)
(* The interfaces of the agent and the addresses it takes for local: the   *)
(* configuration (nd-config.cpp), the capture threads made from it at      *)
(* start and on RELOAD (ReloadCaptureThreads in nd-instance.cpp), the      *)
(* address table (ndAddrType in nd-addr.cpp), and Netlink (nd-netlink.cpp),*)
(* which follows the addresses and routes of the kernel.  The instance     *)
(* thread runs all of it; the kernel changes in between, and the files are *)
(* different ones whenever they are read.                                  *)
(***************************************************************************)
EXTENDS Integers, Sequences, FiniteSets

CONSTANTS
  Interfaces,
  CmdLine,     \* interfaces given on the command line
  Settings,    \* role, capture type, peer and settings of an interface
  CmdSettings, \* those of the command line, which has no peers here
  V4, V6,      \* IPv4 and IPv6 addresses and networks
  BroadcastOf, \* the broadcast address the kernel has with an address, or
               \* NULL (routes have none)
  Named,       \* bound: interface -> addresses in the configuration
  Linked,      \* bound: interface -> addresses and routes the kernel may have
  MaxEvents,   \* bound: messages waiting on the Netlink socket
  NULL

\* The capture threads of an interface; "made" tells those that are created
\* one after the other apart.
Thread == [settings : Settings, made : {0, 1}]

Addrs == V4 \cup V6

\* RTM_NEWROUTE and RTM_NEWADDR, or RTM_DELROUTE and RTM_DELADDR
Event == [add : BOOLEAN, iface : Interfaces, addr : Addrs]

ASSUME InterfaceAssumption ==
  /\ CmdLine \subseteq Interfaces
  /\ CmdSettings \in Settings /\ NULL \notin Settings \cup Thread \cup Event
  /\ V4 \cap V6 = {} /\ NULL \notin V4
  /\ Named \in [Interfaces -> SUBSET Addrs]
  /\ Linked \in [Interfaces -> SUBSET Addrs]
  /\ BroadcastOf \in [V4 -> V4 \cup {NULL}]
  /\ MaxEvents \in Nat

VARIABLES
  \* The kernel
  kernel,          \* interface -> addresses and unicast routes
  events,          \* messages on the Netlink socket; NULL: error or overrun
  buffered,        \* how many of them recv() has moved to the agent's buffer
  lost,            \* whether a message was ever lost or dropped
  \* The agent
  interface_addrs, \* ndGC.interface_addrs
  interfaces,      \* interface -> settings in use
  threads,         \* interface -> its capture threads
  orphans,         \* interface -> threads that run and are in no map
  local,           \* ipv4_iface and ipv6_iface of addr_types
  unlocal,         \* interface -> addresses Netlink has taken from local
  phase            \* "start", "run", "netlink" (in ProcessEvent), "failed"

socketVars == <<events, buffered, lost>>
addrVars == <<interface_addrs, local, unlocal>>
threadVars == <<interfaces, threads, orphans>>
vars == <<kernel, socketVars, addrVars, threadVars, phase>>

-----------------------------------------------------------------------------
\* The sections LoadInterfaces may read for an interface: none, or one.  A
\* section for an interface of the command line is skipped if its role is
\* that of the command line, and counts as none.
Section(i) == [settings : Settings, addrs : SUBSET Named[i]] \cup {NULL}

\* The broadcast address that comes with an address of the kernel
Broadcast(a) == IF a \in V4 THEN BroadcastOf[a] ELSE NULL

TypeOK ==
  /\ kernel \in [Interfaces -> SUBSET Addrs]
  /\ events \in Seq(Event \cup {NULL}) /\ Len(events) <= MaxEvents
  /\ buffered \in 0..Len(events) /\ lost \in BOOLEAN
  /\ interface_addrs \in [Interfaces -> SUBSET Addrs]
  /\ interfaces \in [Interfaces -> Settings \cup {NULL}]
  /\ threads \in [Interfaces -> Thread \cup {NULL}]
  /\ orphans \in [Interfaces -> Thread \cup {NULL}]
  /\ local \in [Interfaces -> SUBSET Addrs]
  /\ unlocal \in [Interfaces -> SUBSET Addrs]
  /\ phase \in {"start", "run", "netlink", "failed"}

\* Netlink has been refreshed: the routes and then the addresses, with an
\* address that has a broadcast address recorded as the latter, as such.
Init ==
  /\ kernel \in [Interfaces -> SUBSET Addrs]
  /\ \A i \in Interfaces : kernel[i] \subseteq Linked[i]
  /\ events = <<>> /\ buffered = 0 /\ lost \in BOOLEAN
  /\ interface_addrs \in [Interfaces -> SUBSET Addrs]
  /\ \A i \in Interfaces :
       interface_addrs[i] \subseteq IF i \in CmdLine THEN Named[i] ELSE {}
  /\ interfaces = [i \in Interfaces |-> NULL]
  /\ threads = [i \in Interfaces |-> NULL]
  /\ orphans = [i \in Interfaces |-> NULL]
  /\ local \in [Interfaces -> SUBSET Addrs]
  /\ \A i \in Interfaces :
       local[i] \subseteq {a \in kernel[i] : Broadcast(a) = NULL}
  /\ ~lost => \A i \in Interfaces :
               \A a \in kernel[i] \ local[i] :
                 Broadcast(a) # NULL \/ \E b \in kernel[i] : Broadcast(b) = a
  /\ unlocal = [i \in Interfaces |-> {}]
  /\ phase = "start"

-----------------------------------------------------------------------------
\* The kernel.  Nothing of it matters any more once the instance thread has
\* failed.

\* A socket that is full loses the message, and nothing asks the kernel
\* again.
Send(m) ==
  IF Len(events) < MaxEvents THEN events' = Append(events, m) /\ UNCHANGED lost
  ELSE lost' = TRUE /\ UNCHANGED events

\* An address or a route comes or goes.
KernelChange(i, a) ==
  /\ phase # "failed"
  /\ kernel' = [kernel EXCEPT ![i] =
                  IF a \in @ THEN @ \ {a} ELSE @ \cup {a}]
  /\ Send([add |-> a \notin kernel[i], iface |-> i, addr |-> a])
  /\ UNCHANGED <<buffered, addrVars, threadVars, phase>>

KernelError ==
  /\ phase # "failed" /\ Len(events) < MaxEvents /\ Send(NULL)
  /\ UNCHANGED <<kernel, buffered, addrVars, threadVars, phase>>

-----------------------------------------------------------------------------
\* ndAddrType

AddAddresses(known, A) == known \cup A

\* RemoveAddress: the branch for an IPv4 address of an interface asks for
\* an empty name, so that such an address stays.
RemoveAddresses(known, A) == known \ (A \cap V6)

-----------------------------------------------------------------------------
\* Netlink

\* AddRemoveNetwork and AddRemoveAddress: the broadcast address of a message
\* takes the place of its address, and its type that of a local one.
Apply(addrs, e) ==
  LET b == Broadcast(e.addr) IN
  [addrs EXCEPT ![e.iface] =
     IF e.add
     THEN IF b = NULL THEN AddAddresses(@, {e.addr}) ELSE @ \ {b}
     ELSE RemoveAddresses(@, {IF b = NULL THEN e.addr ELSE b})]

\* ndIPC_NETLINK_IO: recv() until no message waits on the socket.  How many
\* messages come at once is the kernel's affair.
Receive ==
  /\ phase \in {"run", "netlink"} /\ phase' = "netlink"
  /\ buffered = 0 /\ \E n \in 1..Len(events) : buffered' = n
  /\ UNCHANGED <<kernel, events, lost, addrVars, threadVars>>

\* Mutant: only the first message of the buffer is applied.
ProcessEventFirst ==
  /\ phase = "netlink" /\ buffered > 0 /\ Head(events) # NULL
  /\ LET e == Head(events)
         rest == SubSeq(events, buffered + 1, Len(events)) IN
     /\ local' = Apply(local, e)
     /\ unlocal' = [unlocal EXCEPT ![e.iface] =
                      @ \cup (local[e.iface] \ local'[e.iface])]
     /\ events' = rest
     /\ phase' = IF rest = <<>> THEN "run" ELSE "netlink"
  /\ buffered' = 0
  /\ UNCHANGED <<kernel, lost, interface_addrs, threadVars>>

ProcessEvent ==
  /\ phase = "netlink" /\ buffered > 0 /\ Head(events) # NULL
  /\ LET e == Head(events) IN
     /\ local' = Apply(local, e)
     /\ unlocal' = [unlocal EXCEPT ![e.iface] =
                      @ \cup (local[e.iface] \ local'[e.iface])]
  /\ events' = Tail(events) /\ buffered' = buffered - 1
  /\ phase' = IF Tail(events) = <<>> THEN "run" ELSE "netlink"
  /\ UNCHANGED <<kernel, lost, interface_addrs, threadVars>>

\* NLMSG_ERROR and NLMSG_OVERRUN: the rest of the buffer is dropped, and what
\* is left on the socket waits for the next ndIPC_NETLINK_IO.
ProcessError ==
  /\ phase = "netlink" /\ buffered > 0 /\ Head(events) = NULL
  /\ events' = SubSeq(events, buffered + 1, Len(events)) /\ buffered' = 0
  /\ lost' = (lost \/ buffered > 1)
  /\ phase' = "run"
  /\ UNCHANGED <<kernel, addrVars, threadVars>>

-----------------------------------------------------------------------------
\* ReloadCaptureThreads.  f holds the sections that were read, which may be
\* fewer than the files have: LoadInterfaces ends at the first error, and its
\* result is not looked at.
Files == {f \in [Interfaces -> UNION {Section(i) : i \in Interfaces}] :
            \A i \in Interfaces : f[i] \in Section(i)}

\* CreateCaptureInterfaces on what LoadInterfaces has left.  Interfaces of the
\* command line stay: a section for one adds its addresses to those there
\* are, and its peer if there is none.
Loaded(f, i) ==
  IF i \in CmdLine
  THEN IF interfaces[i] \notin {NULL, CmdSettings} THEN interfaces[i]
       ELSE IF f[i] # NULL THEN f[i].settings ELSE CmdSettings
  ELSE IF f[i] # NULL THEN f[i].settings ELSE NULL

LoadedAddrs(f, i) ==
  (IF i \in CmdLine THEN interface_addrs[i] ELSE {})
    \cup (IF f[i] # NULL THEN f[i].addrs ELSE {})

\* Bound: an agent fails with nothing on the Netlink socket, which no failure
\* looks at.
MayFail == phase \in {"start", "run"} /\ events = <<>>

\* LoadCaptureType throws, which ends the instance thread.
ReadFails(f) ==
  /\ MayFail /\ phase' = "failed"
  /\ interface_addrs' = [i \in Interfaces |-> LoadedAddrs(f, i)]
  /\ UNCHANGED <<kernel, socketVars, threadVars, local, unlocal>>

Unchanged(f) ==
  {i \in Interfaces : interfaces[i] # NULL /\ Loaded(f, i) = interfaces[i]}

\* ifaces_delete: gone or changed
Deleted(f) ==
  {i \in Interfaces : interfaces[i] # NULL /\ Loaded(f, i) # interfaces[i]}

\* ifaces_new: new or changed
New(f) ==
  {i \in Interfaces : Loaded(f, i) # NULL /\ Loaded(f, i) # interfaces[i]}

\* Addresses of unchanged interfaces are compared with the old ones.  For
\* deleted and changed ones those just loaded are removed and forgotten, so
\* that a changed interface has none left to be added.
ReloadedLocal(f, i) ==
  IF i \in Unchanged(f)
  THEN RemoveAddresses(
         AddAddresses(local[i], LoadedAddrs(f, i) \ interface_addrs[i]),
         interface_addrs[i] \ LoadedAddrs(f, i))
  ELSE IF i \in Deleted(f) THEN RemoveAddresses(local[i], LoadedAddrs(f, i))
  ELSE IF i \in New(f) THEN AddAddresses(local[i], LoadedAddrs(f, i))
  ELSE local[i]

\* Mutant: the addresses of a changed interface are removed, not forgotten.
ReloadedAddrsKept(f, i) == LoadedAddrs(f, i)

ReloadedAddrs(f, i) == IF i \in Deleted(f) THEN {} ELSE LoadedAddrs(f, i)

\* The threads of deleted interfaces are joined and deleted, then those of
\* new ones created.
NewThread(f, i) ==
  [settings |-> Loaded(f, i),
   made |-> IF threads[i] = NULL THEN 0 ELSE 1 - threads[i].made]

\* Mutants: threads.insert() finds the old threads of a changed interface;
\* every interface is started again.
ReloadedThreadInsert(f, i) ==
  IF i \in New(f) /\ threads[i] = NULL THEN NewThread(f, i)
  ELSE IF i \in Deleted(f) \ New(f) THEN NULL
  ELSE threads[i]

ReloadedThreadAlways(f, i) ==
  IF Loaded(f, i) # NULL THEN NewThread(f, i) ELSE NULL

ReloadedThread(f, i) ==
  IF i \in New(f) THEN NewThread(f, i)
  ELSE IF i \in Deleted(f) THEN NULL
  ELSE threads[i]

Reload(f) ==
  /\ phase \in {"start", "run"} /\ phase' = "run"
  /\ interfaces' = [i \in Interfaces |-> Loaded(f, i)]
  /\ threads' = [i \in Interfaces |-> ReloadedThread(f, i)]
  /\ local' = [i \in Interfaces |-> ReloadedLocal(f, i)]
  /\ interface_addrs' = [i \in Interfaces |-> ReloadedAddrs(f, i)]
  /\ unlocal' = [i \in Interfaces |->
                   IF i \in Unchanged(f) THEN unlocal[i] ELSE {}]
  /\ UNCHANGED <<kernel, socketVars, orphans>>

\* Mutant: the instance thread goes on after the failure.
ReloadFailsIgnored(f) ==
  /\ MayFail /\ New(f) # {} /\ phase' = "run"
  /\ interfaces' = [i \in Interfaces |->
                      IF i \in Deleted(f) THEN NULL ELSE interfaces[i]]
  /\ threads' = [i \in Interfaces |->
                   IF i \in Deleted(f) THEN NULL ELSE threads[i]]
  /\ \E started \in SUBSET New(f) :
       orphans' = [i \in Interfaces |->
                     IF i \in started THEN NewThread(f, i) ELSE orphans[i]]
  /\ UNCHANGED <<kernel, socketVars, addrVars>>

\* CreateCaptureThreads throws: nothing is made of the new interfaces, and
\* the instance thread ends.  Threads of those in "started" run already; the
\* map they are in is dropped.
ReloadFails(f) ==
  /\ MayFail /\ New(f) # {} /\ phase' = "failed"
  /\ interfaces' = [i \in Interfaces |->
                      IF i \in Deleted(f) THEN NULL ELSE interfaces[i]]
  /\ threads' = [i \in Interfaces |->
                   IF i \in Deleted(f) THEN NULL ELSE threads[i]]
  /\ local' = [i \in Interfaces |->
                 IF i \in New(f) \ Deleted(f) THEN local[i]
                 ELSE ReloadedLocal(f, i)]
  /\ interface_addrs' = [i \in Interfaces |-> ReloadedAddrs(f, i)]
  /\ \E started \in SUBSET New(f) :
       orphans' = [i \in Interfaces |->
                     IF i \in started THEN NewThread(f, i) ELSE orphans[i]]
  /\ UNCHANGED <<kernel, socketVars, unlocal>>

Next ==
  \/ \E i \in Interfaces : \E a \in Linked[i] : KernelChange(i, a)
  \/ KernelError
  \/ Receive \/ ProcessEvent \/ ProcessError
  \/ \E f \in Files : Reload(f) \/ ReloadFails(f) \/ ReadFails(f)

Spec == Init /\ [][Next]_vars

-----------------------------------------------------------------------------
\* Every interface in use has its threads, and they run with the settings in
\* use, whatever the files contained at each reload.  Other threads run only
\* after a failed reload, which ends the agent: those of new interfaces that
\* were started before the failure.  No interface is captured by both.
ThreadsConfigured ==
  \A i \in Interfaces :
    /\ IF interfaces[i] = NULL THEN threads[i] = NULL
       ELSE threads[i] # NULL /\ threads[i].settings = interfaces[i]
    /\ orphans[i] # NULL => phase = "failed" /\ threads[i] = NULL

\* A reload leaves the threads of an interface alone whose settings are the
\* same, also when the files could not be read to their end.
UnchangedKept ==
  [][\A i \in Interfaces :
       threads[i] # NULL /\ threads'[i] # NULL
         /\ threads'[i].settings = threads[i].settings
       => threads'[i] = threads[i]]_vars

\* An address the agent has recorded for an interface is local, unless
\* Netlink has removed it since or made it a broadcast address.
RecordedLocal ==
  phase \in {"run", "netlink"} =>
    \A i \in Interfaces : interface_addrs[i] \ unlocal[i] \subseteq local[i]

\* Routes, and addresses the kernel has no broadcast address for, of IPv4.
\* Of other addresses only the broadcast address gets into the table.
Plain == {a \in V4 : Broadcast(a) = NULL /\ \A b \in V4 : Broadcast(b) # a}

\* A plain IPv4 address of the kernel is local once the socket is empty, if no
\* message was lost or dropped: no reload takes it away.
KernelLocal ==
  phase = "run" /\ events = <<>> /\ ~lost =>
    \A i \in Interfaces : kernel[i] \cap Plain \subseteq local[i]
=============================================================================
