----------------------------- MODULE FlowTable -----------------------------
(***************************************************************************)
(* What the flow map promises to those that read its flows (plugins, the   *)
(* status): at most one flow object per digest, which lives, expires, and  *)
(* is destroyed only when nobody works on it, after it was found expired.  *)
(* An expired flow comes back to life only in the hands of somebody who    *)
(* works on it.  It may do so after it was found expired, and be destroyed *)
(* alive when it is let go of; but from the finding on it gets into no     *)
(* other hands.  FlowLifecycle implements this specification.              *)
(***************************************************************************)
CONSTANT Digests

VARIABLES
  life,  \* digest -> what became of its flow
  held,  \* digests whose flow some thread or queue refers to
  doomed \* digests whose flow was found expired and is about to be destroyed

tableVars == <<life, held, doomed>>

TableInit ==
  /\ life = [d \in Digests |-> "absent"]
  /\ held = {} /\ doomed = {}

\* A first packet creates the flow, in the hands of its capture thread
Create(d) ==
  /\ life[d] = "absent"
  /\ life' = [life EXCEPT ![d] = "live"]
  /\ held' = held \cup {d}
  /\ UNCHANGED doomed

\* A flow that is about to be destroyed gets no new user
Hold(d) ==
  /\ life[d] # "absent" /\ d \notin doomed
  /\ held' = held \cup {d}
  /\ UNCHANGED <<life, doomed>>

LetGo(d) ==
  /\ held' = held \ {d}
  /\ UNCHANGED <<life, doomed>>

Expire(d) ==
  /\ life[d] = "live"
  /\ life' = [life EXCEPT ![d] = "expired"]
  /\ UNCHANGED <<held, doomed>>

\* A DNS query resets an expired flow that a capture thread just found
Revive(d) ==
  /\ life[d] = "expired" /\ d \in held
  /\ life' = [life EXCEPT ![d] = "live"]
  /\ UNCHANGED <<held, doomed>>

\* The walk finds a flow expired ...
Doom(d) ==
  /\ life[d] = "expired" /\ doomed = {}
  /\ doomed' = {d}
  /\ UNCHANGED <<life, held>>

\* ... and leaves it if somebody works on it, ...
Spare(d) ==
  /\ d \in held
  /\ doomed' = doomed \ {d}
  /\ UNCHANGED <<life, held>>

\* ... or else destroys the flow object; the digest may be used again
Purge(d) ==
  /\ d \in doomed \ held
  /\ life' = [life EXCEPT ![d] = "absent"]
  /\ doomed' = doomed \ {d}
  /\ UNCHANGED held

TableNext ==
  \E d \in Digests :
    \/ Create(d) \/ Hold(d) \/ LetGo(d) \/ Expire(d) \/ Revive(d)
    \/ Doom(d) \/ Spare(d) \/ Purge(d)

TableSpec == TableInit /\ [][TableNext]_tableVars
=============================================================================
