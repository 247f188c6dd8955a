-------------------------- MODULE MCFlowHashCache --------------------------
(* Instances of FlowHashCache for model checking, with the order of use    *)
(* kept as a relation that does not know the cache's list.                 *)
EXTENDS FlowHashCache

\* newer holds <<a, b>> when digest a was used (pushed or found) after b
VARIABLE newer

\* l becomes the digest that was used last
Use(l) == newer' = {p \in newer : p[2] # l} \cup {<<l, x>> : x \in Hashes \ {l}}

MCInit == Init /\ newer = {}

MCNext ==
  \E t \in Threads :
    \/ \E l \in Hashes : PopHit(t, l) /\ Use(l)
    \/ \E l \in Hashes : PopMiss(t, l) /\ UNCHANGED newer
    \/ \E u \in Hashes :
         /\ AfterMiss(t, u)
         /\ IF u = missed[t] /\ u \notin lookup
            THEN Use(u) ELSE UNCHANGED newer

MCSpec == MCInit /\ [][MCNext]_<<vars, newer>>

\* ndFlowHashCache::Push purges the digests that were used least recently:
\* whatever it keeps was used after everything it drops.
PurgesOldest ==
  [][\A k \in lookup \ lookup', m \in lookup \cap lookup' :
       <<m, k>> \in newer]_<<vars, newer>>
=============================================================================
