-------------------------- MODULE MCFlowLifecycle --------------------------
(* Instances of FlowLifecycle for model checking.                          *)
EXTENDS FlowLifecycle, TLC

\* All digests share a bucket, and with it its lock; a walk visits the other
\* buckets while threads insert.
OneBucket == [d \in Digests |-> 0]

\* TPACKET_V3 fan-out instances of one interface share its tag
SharedDigests == [c \in CaptureThreads |-> Digests]

\* Flow objects, fan-out threads and the digests of a bucket are
\* interchangeable
FanoutSymmetry ==
  Permutations(Flows) \cup Permutations(CaptureThreads)
    \cup Permutations(Digests)
=============================================================================
