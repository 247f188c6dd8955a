--------------------------- MODULE MCDnsHintCache ---------------------------
(* DnsHintCache for model checking, with a history of the use of addresses *)
(* kept apart from the cache, and over restarts.                           *)
EXTENDS DnsHintCache

VARIABLES
  used,      \* address -> when it was last inserted or found, or NoHint
  forgotten  \* addresses that were not used since the last restart

agedVars == <<hintVars, used, forgotten>>

AgedInit == HintInit /\ used = [a \in Addrs |-> NoHint] /\ forgotten = {}

AgedNext ==
  \/ \E a \in Addrs :
       /\ Lookup(a) \/ \E h \in Hosts : Insert(a, h)
       /\ used' = [used EXCEPT ![a] = now]
       /\ forgotten' = forgotten \ {a}
  \/ (Purge \/ Tick) /\ UNCHANGED <<used, forgotten>>
  \/ Restart /\ forgotten' = Addrs /\ UNCHANGED used

AgedSpec == AgedInit /\ [][AgedNext]_agedVars

\* "The number of seconds DNS hints should be cached" (netifyd.conf.5.in): in
\* one run of the agent, an address that was answered or looked up no longer
\* than ttl_dns_entry ago has not been purged.  It says nothing of hints from
\* before a restart: the manual says that they are loaded, and they are not.
KeptForTtl ==
  \A a \in Addrs \ forgotten :
    used[a] # NoHint /\ now <= used[a] + Ttl => Present(a)

\* Purge runs once per update only, and Lookup does not look at the deadline:
\* a flow may be given a hint that nobody used for ttl_dns_entry seconds,
\* but not for longer than that plus one update interval.
StaleBounded ==
  \A a \in Addrs :
    Present(a) => used[a] # NoHint /\ now <= used[a] + Ttl + Interval
=============================================================================
