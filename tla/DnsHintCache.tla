---------------------------- MODULE DnsHintCache ----------------------------
(***************************************************************************)
(* ndDNSHintCache: host names by address, learnt from DNS answers by the   *)
(* capture threads, looked up by the detection threads and purged by the   *)
(* instance thread on every update.  Each operation runs under the cache's *)
(* mutex and is one step.                                                  *)
(*                                                                         *)
(* Load and Save exist, and nothing calls them: the agent starts with an   *)
(* empty cache, although netifyd.conf(5) says that it is primed.           *)
(***************************************************************************)
EXTENDS Integers

CONSTANTS
  Addrs,     \* addresses (their SHA-1 digests) classified as atOTHER
  Hosts,     \* host names
  Ttl,       \* ttl_dns_entry
  Interval,  \* bound: the longest time from one ProcessUpdate to the next
  MaxTime,   \* bound: nd_time_monotonic() of the last step
  NoHint     \* no entry

ASSUME DhcAssumption ==
  /\ Ttl \in Nat /\ Interval \in Nat \ {0} /\ MaxTime \in Nat
  /\ NoHint \notin Hosts \cup Nat

VARIABLES
  map_ar,   \* address -> its entry
  now,      \* nd_time_monotonic()
  updated   \* when ProcessUpdate last ran

hintVars == <<map_ar, now, updated>>

DnsTuple == [deadline : Nat, host : Hosts]

Empty == [deadline |-> 0, host |-> NoHint]
Present(a) == map_ar[a].host # NoHint

HintTypeOK ==
  /\ map_ar \in [Addrs -> DnsTuple \cup {Empty}]
  /\ now \in 0..MaxTime /\ updated \in 0..MaxTime

-----------------------------------------------------------------------------

\* ProcessDNSPacket found an A or AAAA record of host h.  An entry that is
\* there already keeps its host name and gets a new deadline.
Insert(a, h) ==
  /\ map_ar' = [map_ar EXCEPT ![a] =
                  [deadline |-> now + Ttl,
                   host |-> IF Present(a) THEN @.host ELSE h]]
  /\ UNCHANGED <<now, updated>>

\* ProcessFlow finds an address of the flow: whatever is found is used, past
\* its deadline or not, and gets a new deadline
Lookup(a) ==
  /\ Present(a)
  /\ map_ar' = [map_ar EXCEPT ![a].deadline = now + Ttl]
  /\ UNCHANGED <<now, updated>>

\* Mutants: an entry is kept for one more second; or purged one early
OverdueLate(a) == map_ar[a].deadline + 1 < now

OverdueEarly(a) == map_ar[a].deadline <= now

Overdue(a) == map_ar[a].deadline < now

\* ProcessUpdate: Purge
Purge ==
  /\ map_ar' = [a \in Addrs |-> IF Overdue(a) THEN Empty ELSE map_ar[a]]
  /\ updated' = now
  /\ UNCHANGED now

\* A second passes; the timer has ProcessUpdate run every Interval at least
Tick ==
  /\ now < MaxTime /\ now < updated + Interval
  /\ now' = now + 1
  /\ UNCHANGED <<map_ar, updated>>

\* The agent ends or crashes and is started again.  Its main thread makes an
\* empty cache and does not call Load.
Restart ==
  /\ map_ar' = [a \in Addrs |-> Empty]
  /\ updated' = now
  /\ UNCHANGED now

HintInit ==
  /\ map_ar = [a \in Addrs |-> Empty]
  /\ now = 0 /\ updated = 0

HintNext ==
  \/ \E a \in Addrs : Lookup(a) \/ \E h \in Hosts : Insert(a, h)
  \/ Purge \/ Tick \/ Restart

HintSpec == HintInit /\ [][HintNext]_hintVars
=============================================================================
