------------------------------ MODULE Plugins ------------------------------
(***************************************************************************)
(* Plugins of the Netify agent (nd-plugin.cpp): the plugin manager and the *)
(* payload queues of sink plugins.                                         *)
(*                                                                         *)
(*  - Agent threads (capture, detection) broadcast events to the processor *)
(*    plugins, under the manager's mutex.                                  *)
(*  - A processor's thread hands payloads to one sink or to all of them,   *)
(*    under the manager's mutex; each sink has a public queue, which others*)
(*    push to, and a private one, which its own thread fills from the      *)
(*    public one and pops.                                                 *)
(*  - The instance thread reaps plugins whose thread has ended, and ends   *)
(*    all of them when the agent exits: first the processors, then, in the *)
(*    destructor of the manager, the sinks.                                *)
(*                                                                         *)
(* The plugins' own Entry functions are not part of the repository: their  *)
(* loops are modelled from the interface they are given.                   *)
(***************************************************************************)
EXTENDS Integers, Sequences, FiniteSets

CONSTANTS
  Processors,   \* tags of the configured processor plugins
  Sinks,        \* tags of the configured sink plugins
  SizeMax,      \* plq_size_max
  Lengths,      \* the lengths the first, second... payload can have
  MaxPayloads,  \* bound: no payload is created after as many
  MaxFailures,  \* bound: plugins that end without being told to
  NULL          \* no owner, no payload

Agent == "agent"        \* a capture or detection thread
Instance == "instance"  \* the instance thread, and main after it

All == "all"            \* every sink, for a broadcast payload

Plugins == Processors \cup Sinks

ASSUME PluginsAssumption ==
  /\ SizeMax \in Nat /\ MaxPayloads \in Nat /\ MaxFailures \in Nat
  /\ Lengths \in [1..MaxPayloads -> SUBSET (Nat \ {0})]
  /\ Processors \cap Sinks = {}
  /\ IsFiniteSet(Processors)
  /\ {Agent, Instance, All, NULL} \cap Plugins = {}
  /\ NULL \notin {Agent, Instance, All}

VARIABLES
  \* ndPluginManager
  processors,  \* keys of the processors map
  sinks,       \* keys of the sinks map
  lock,        \* owner of the manager's mutex
  \* Plugin threads
  told,        \* plugins with ShouldTerminate()
  dead,        \* plugins with HasTerminated()
  ppc,         \* where each processor's thread is
  goal,        \* the sink its payload is for, or all of them
  pay,         \* the payload it is dispatching
  targets,     \* the sinks it has yet to give it to
  signalled,   \* the sink whose condition it is about to broadcast
  sent,        \* payloads dispatched
  \* Sinks
  public,      \* plq_public
  private,     \* plq_private
  size,        \* plq_size
  spc,         \* where each sink's thread is in WaitOnPayloadQueue
  \* An agent thread that broadcasts an event
  eleft,       \* the processors it has yet to call; NULL if it broadcasts none
  \* The instance thread
  ipc,         \* where it is in Entry
  ileft,       \* terminated plugins Reap has yet to come to
  reaped,      \* plugins Reap has deleted
  nproc,       \* proc_plugins
  skipped      \* Entry was left without stopping the processors

managerVars == <<processors, sinks, lock>>
procVars == <<ppc, goal, pay, targets, signalled, sent>>
sinkVars == <<public, private, size, spc>>
instVars == <<ipc, ileft, reaped, nproc, skipped>>
vars == <<managerVars, told, dead, procVars, sinkVars, eleft, instVars>>

-----------------------------------------------------------------------------
Payload ==
  [msg : Nat, copy : Sinks \cup {NULL}, length : Nat]

TypeOK ==
  /\ processors \subseteq Processors /\ sinks \subseteq Sinks
  /\ lock \in Processors \cup {Agent, Instance, NULL}
  /\ told \subseteq Plugins /\ dead \subseteq Plugins
  /\ ppc \in [Processors -> {"idle", "lock", "dispatch", "signal"}]
  /\ goal \in [Processors -> Sinks \cup {All, NULL}]
  /\ pay \in [Processors -> Payload \cup {NULL}]
  /\ targets \in [Processors -> SUBSET Sinks]
  /\ signalled \in [Processors -> Sinks \cup {NULL}]
  /\ sent \in Nat
  /\ public \in [Sinks -> Seq(Payload)] /\ private \in [Sinks -> Seq(Payload)]
  /\ size \in [Sinks -> Nat]
  /\ spc \in [Sinks -> {"pull", "unlocked", "waiting", "again", "pulling",
                   "work"}]
  /\ eleft \in (SUBSET Processors) \cup {NULL}
  /\ ipc \in {"loop", "reap", "stop", "stopping", "return", "destroy", "gone"}
  /\ ileft \subseteq Plugins
  /\ reaped \in Nat /\ nproc \in Int
  /\ skipped \in BOOLEAN

Acquire(t) == lock = NULL /\ lock' = t
Release(t) == lock = t /\ lock' = NULL

-----------------------------------------------------------------------------
(* Payload queues                                                          *)

\* The lengths of the payloads of a queue, added up: a queue is that many
\* bytes, each at its place in a payload at its place in the queue
Bytes(q) == UNION {{i} \X (1..q[i].length) : i \in 1..Len(q)}

Total(q) == Cardinality(Bytes(q))

\* Everything a sink has been given and has not popped or dropped, in order
Queue(s) == private[s] \o public[s]

SinkGoto(s, from, to) ==
  /\ s \in sinks \ dead
  /\ spc[s] = from /\ spc' = [spc EXCEPT ![s] = to]

\* WaitOnPayloadQueue takes the sink's mutex: PullPayloadQueue returns 0 at
\* once if the public queue is empty, and only then is there a wait
SinkPull(s) ==
  /\ s \notin told
  /\ SinkGoto(s, "pull", IF public[s] = <<>> THEN "unlocked" ELSE "pulling")
  /\ UNCHANGED <<managerVars, told, dead, procVars, public, private, size,
                 eleft, instVars>>

\* The sink's mutex is free here: a payload may be pushed and its wake-up lost
SinkWait(s) ==
  /\ SinkGoto(s, "unlocked", "waiting")
  /\ UNCHANGED <<managerVars, told, dead, procVars, public, private, size,
                 eleft, instVars>>

\* Mutant: a wait without a limit
SinkTimeoutNever(s) ==
  /\ FALSE
  /\ UNCHANGED vars

\* pthread_cond_timedwait returns after a second at the latest
SinkTimeout(s) ==
  /\ SinkGoto(s, "waiting", "again")
  /\ UNCHANGED <<managerVars, told, dead, procVars, public, private, size,
                 eleft, instVars>>

SinkPullAgain(s) ==
  /\ SinkGoto(s, "again", IF public[s] = <<>> THEN "work" ELSE "pulling")
  /\ UNCHANGED <<managerVars, told, dead, procVars, public, private, size,
                 eleft, instVars>>

\* The condition of the inner loop of PullPayloadQueue
Full(s) == private[s] # <<>> /\ size[s] > SizeMax

\* Mutant: the payload dropped is not taken off
PullDropUncounted(s) ==
  /\ Full(s)
  /\ SinkGoto(s, "pulling", "pulling")
  /\ private' = [private EXCEPT ![s] = Tail(@)]
  /\ UNCHANGED <<managerVars, told, dead, procVars, public, size, eleft,
                 instVars>>

\* The inner loop of PullPayloadQueue: the oldest payload is dropped.  From
\* "pulling" on the sink has its own mutex, which QueuePayload needs.
PullDrop(s) ==
  /\ Full(s)
  /\ SinkGoto(s, "pulling", "pulling")
  /\ private' = [private EXCEPT ![s] = Tail(@)]
  /\ size' = [size EXCEPT ![s] = @ - Head(private[s]).length]
  /\ UNCHANGED <<managerVars, told, dead, procVars, public, eleft, instVars>>

\* Mutant: the newest payload comes first
PullMoveNewest(s) ==
  LET p == Head(public[s]) IN
  /\ ~Full(s)
  /\ SinkGoto(s, "pulling", IF Len(public[s]) = 1 THEN "work" ELSE "pulling")
  /\ public' = [public EXCEPT ![s] = Tail(@)]
  /\ private' = [private EXCEPT ![s] = <<p>> \o @]
  /\ size' = [size EXCEPT ![s] = @ + p.length]
  /\ UNCHANGED <<managerVars, told, dead, procVars, eleft, instVars>>

\* The outer loop: one payload is moved, until the public queue is empty
PullMove(s) ==
  LET p == Head(public[s]) IN
  /\ ~Full(s)
  /\ SinkGoto(s, "pulling", IF Len(public[s]) = 1 THEN "work" ELSE "pulling")
  /\ public' = [public EXCEPT ![s] = Tail(@)]
  /\ private' = [private EXCEPT ![s] = Append(@, p)]
  /\ size' = [size EXCEPT ![s] = @ + p.length]
  /\ UNCHANGED <<managerVars, told, dead, procVars, eleft, instVars>>

PopPayloadQueue(s) ==
  /\ private[s] # <<>>
  /\ private' = [private EXCEPT ![s] = Tail(@)]
  /\ size' = [size EXCEPT ![s] = @ - Head(private[s]).length]

SinkPop(s) ==
  /\ SinkGoto(s, "work", "work")
  /\ PopPayloadQueue(s)
  /\ UNCHANGED <<managerVars, told, dead, procVars, public, eleft, instVars>>

\* PopPayloadQueue returns nullptr: the sink waits again
SinkLoop(s) ==
  /\ private[s] = <<>>
  /\ SinkGoto(s, "work", "pull")
  /\ UNCHANGED <<managerVars, told, dead, procVars, public, private, size,
                 eleft, instVars>>

SinkStep(s) ==
  \/ SinkPull(s) \/ SinkWait(s) \/ SinkTimeout(s) \/ SinkPullAgain(s)
  \/ PullDrop(s) \/ PullMove(s) \/ SinkPop(s) \/ SinkLoop(s)

-----------------------------------------------------------------------------
(* Processors                                                              *)

\* A processor creates a payload for one sink (DispatchSinkPayload) or for
\* all of them (BroadcastSinkPayload)
CreatePayload(p) ==
  /\ p \in processors \ (dead \cup told) /\ ppc[p] = "idle"
  /\ sent < MaxPayloads
  /\ ppc' = [ppc EXCEPT ![p] = "lock"]
  /\ \E t \in Sinks \cup {All} : goal' = [goal EXCEPT ![p] = t]
  /\ \E l \in Lengths[sent + 1] :
       pay' = [pay EXCEPT ![p] = [msg |-> 0, copy |-> NULL, length |-> l]]
  /\ UNCHANGED <<managerVars, told, dead, targets, signalled, sent, sinkVars,
                 eleft, instVars>>

\* The sinks a payload is for, as the manager finds them
Found(p) == IF goal[p] = All THEN sinks ELSE {goal[p]} \cap sinks

\* The manager's mutex is taken.  Payloads are numbered in this order.
LockManager(p) ==
  /\ ppc[p] = "lock" /\ Found(p) # {}
  /\ Acquire(p)
  /\ targets' = [targets EXCEPT ![p] = Found(p)]
  /\ sent' = sent + 1
  /\ pay' = [pay EXCEPT ![p] = [@ EXCEPT !.msg = sent + 1]]
  /\ ppc' = [ppc EXCEPT ![p] = "dispatch"]
  /\ UNCHANGED <<processors, sinks, told, dead, goal, signalled, sinkVars,
                 eleft, instVars>>

\* Without any sink a broadcast payload is deleted; when its only sink is gone
\* DispatchSinkPayload throws, which ends the processor's thread
DispatchFails(p) ==
  /\ ppc[p] = "lock" /\ lock = NULL /\ Found(p) = {}
  /\ ppc' = [ppc EXCEPT ![p] = "idle"]
  /\ goal' = [goal EXCEPT ![p] = NULL] /\ pay' = [pay EXCEPT ![p] = NULL]
  /\ dead' = IF goal[p] = All THEN dead ELSE dead \cup {p}
  /\ UNCHANGED <<managerVars, told, targets, signalled, sent, sinkVars, eleft,
                 instVars>>

\* Mutant: all sinks are given the same object
CopyForShared(p, s) == pay[p]

\* All sinks but the last are given a copy
CopyFor(p, s) ==
  IF targets[p] = {s} THEN pay[p] ELSE [pay[p] EXCEPT !.copy = s]

\* QueuePayload: push, under the sink's mutex
QueuePayload(p, s) ==
  /\ ppc[p] = "dispatch" /\ s \in targets[p]
  /\ spc[s] # "pulling"
  /\ public' = [public EXCEPT ![s] = Append(@, CopyFor(p, s))]
  /\ targets' = [targets EXCEPT ![p] = @ \ {s}]
  /\ signalled' = [signalled EXCEPT ![p] = s]
  /\ ppc' = [ppc EXCEPT ![p] = "signal"]
  /\ UNCHANGED <<managerVars, told, dead, goal, pay, sent, private, size, spc,
                 eleft, instVars>>

\* QueuePayload: broadcast, without the mutex of the condition.  After the
\* last target the manager is unlocked.
SignalSink(p) ==
  LET s == signalled[p] last == targets[p] = {} IN
  /\ ppc[p] = "signal"
  /\ spc' = [spc EXCEPT ![s] = IF @ = "waiting" THEN "again" ELSE @]
  /\ signalled' = [signalled EXCEPT ![p] = NULL]
  /\ ppc' = [ppc EXCEPT ![p] = IF last THEN "idle" ELSE "dispatch"]
  /\ IF last THEN /\ Release(p)
                  /\ goal' = [goal EXCEPT ![p] = NULL]
                  /\ pay' = [pay EXCEPT ![p] = NULL]
             ELSE UNCHANGED <<lock, goal, pay>>
  /\ UNCHANGED <<processors, sinks, told, dead, targets, sent, public, private,
                 size, eleft, instVars>>

ProcStep(p) ==
  \/ LockManager(p) \/ DispatchFails(p)
  \/ (\E s \in Sinks : QueuePayload(p, s)) \/ SignalSink(p)

\* A plugin's thread ends when it is told to, or by itself (an exception)
Running(x) == x \in (processors \cup sinks) \ dead

PluginEnds(x) ==
  /\ x \in told \/ Cardinality(dead \ told) < MaxFailures
  /\ Running(x)
  /\ x \in Processors => ppc[x] = "idle"
  /\ x \in Sinks => spc[x] = "pull"
  /\ dead' = dead \cup {x}
  /\ UNCHANGED <<managerVars, told, procVars, sinkVars, eleft, instVars>>

-----------------------------------------------------------------------------
(* Agent threads: BroadcastProcessorEvent                                  *)

EventBegin ==
  /\ eleft = NULL /\ processors # {} /\ ipc \notin {"destroy", "gone"}
  /\ Acquire(Agent)
  /\ eleft' = processors
  /\ UNCHANGED <<processors, sinks, told, dead, procVars, sinkVars, instVars>>

\* DispatchProcessorEvent of one processor after the other; the last call is
\* followed by the unlock
EventCall(p) ==
  /\ eleft # NULL /\ p \in eleft
  /\ IF eleft = {p} THEN Release(Agent) /\ eleft' = NULL
                    ELSE UNCHANGED lock /\ eleft' = eleft \ {p}
  /\ UNCHANGED <<processors, sinks, told, dead, procVars, sinkVars, instVars>>

AgentStep == \E p \in Processors : EventCall(p)

-----------------------------------------------------------------------------
(* The instance thread                                                     *)

\* The plugins of a map that Reap will find terminated.  A plugin that ends
\* while Reap walks counts as one that ends after it.
Terminated(M) == M \cap dead

\* The IPC loop: after every message all plugins are visited by Reap, which
\* does nothing while all of them run
ReapBegin ==
  /\ ipc = "loop"
  /\ Terminated(processors \cup sinks) # {}
  /\ ipc' = "reap"
  /\ ileft' = Terminated(processors \cup sinks) /\ reaped' = 0
  /\ UNCHANGED <<managerVars, told, dead, procVars, sinkVars, eleft, nproc,
                 skipped>>

\* Mutant: the plugin is deleted without the manager's mutex
ReapDeleteUnlocked(x) ==
  /\ ipc \in {"reap", "stopping"} /\ x \in ileft
  /\ processors' = processors \ {x} /\ sinks' = sinks \ {x}
  /\ ileft' = ileft \ {x} /\ reaped' = reaped + 1
  /\ UNCHANGED <<lock, told, dead, procVars, sinkVars, eleft, ipc, nproc,
                 skipped>>

\* Reap, a plugin that has terminated: deleted under the manager's mutex
ReapDelete(x) ==
  /\ ipc \in {"reap", "stopping"} /\ x \in ileft
  /\ lock = NULL
  /\ processors' = processors \ {x} /\ sinks' = sinks \ {x}
  /\ ileft' = ileft \ {x} /\ reaped' = reaped + 1
  /\ UNCHANGED <<lock, told, dead, procVars, sinkVars, eleft, ipc, nproc,
                 skipped>>

\* A reaped plugin ends the agent
ReapEnd ==
  /\ ipc = "reap" /\ ileft = {}
  /\ ipc' = "stop"
  /\ UNCHANGED <<managerVars, told, dead, procVars, sinkVars, eleft, ileft,
                 reaped, nproc, skipped>>

\* So does a signal, once all flows are gone
LeaveLoop ==
  /\ ipc = "loop"
  /\ Terminated(processors \cup sinks) = {}
  /\ ipc' = "stop"
  /\ UNCHANGED <<managerVars, told, dead, procVars, sinkVars, eleft, ileft,
                 reaped, nproc, skipped>>

\* A reload that fails leaves by goto ndInstance_EntryReturn
ReloadFails ==
  /\ ipc = "loop"
  /\ ipc' = "return" /\ skipped' = TRUE
  /\ UNCHANGED <<managerVars, told, dead, procVars, sinkVars, eleft, ileft,
                 reaped, nproc>>

\* Terminate(TYPE_PROC), then the first round of Reap(TYPE_PROC)
StopProcessors ==
  /\ ipc = "stop"
  /\ ipc' = "stopping"
  /\ told' = told \cup processors
  /\ nproc' = Cardinality(processors)
  /\ ileft' = Terminated(processors) /\ reaped' = 0
  /\ UNCHANGED <<managerVars, dead, procVars, sinkVars, eleft, skipped>>

\* Mutant: one round is all
StopRoundOnce ==
  /\ ipc = "stopping" /\ ileft = {}
  /\ nproc' = nproc - reaped
  /\ reaped' = 0
  /\ ipc' = "return" /\ ileft' = {}
  /\ UNCHANGED <<managerVars, told, dead, procVars, sinkVars, eleft, skipped>>

\* A round of Reap(TYPE_PROC) is over: another one, or the end of Entry
StopRound ==
  /\ ipc = "stopping" /\ ileft = {}
  /\ nproc' = nproc - reaped
  /\ reaped' = 0
  /\ ipc' = IF nproc' > 0 THEN "stopping" ELSE "return"
  /\ ileft' = IF nproc' > 0 THEN Terminated(processors) ELSE {}
  /\ UNCHANGED <<managerVars, told, dead, procVars, sinkVars, eleft, skipped>>

\* Mutant: only the processors are told to terminate
DestroyBeginProcessors ==
  /\ ipc = "return" /\ eleft = NULL
  /\ Acquire(Instance)
  /\ ipc' = "destroy"
  /\ told' = told \cup processors
  /\ UNCHANGED <<processors, sinks, dead, procVars, sinkVars, eleft, ileft,
                 reaped, nproc, skipped>>

\* The capture and detection threads are gone; the manager's destructor calls
\* Destroy, which keeps the mutex until every plugin is deleted
DestroyBegin ==
  /\ ipc = "return" /\ eleft = NULL
  /\ Acquire(Instance)
  /\ ipc' = "destroy"
  /\ told' = told \cup processors \cup sinks
  /\ UNCHANGED <<processors, sinks, dead, procVars, sinkVars, eleft, ileft,
                 reaped, nproc, skipped>>

\* A plugin's destructor joins its thread; processors come first
DestroyPlugin(x) ==
  /\ ipc = "destroy" /\ x \in dead
  /\ x \in processors \/ (processors = {} /\ x \in sinks)
  /\ processors' = processors \ {x} /\ sinks' = sinks \ {x}
  /\ UNCHANGED <<lock, told, dead, procVars, sinkVars, eleft, instVars>>

DestroyEnd ==
  /\ ipc = "destroy" /\ processors \cup sinks = {}
  /\ Release(Instance)
  /\ ipc' = "gone"
  /\ UNCHANGED <<processors, sinks, told, dead, procVars, sinkVars, eleft,
                 ileft, reaped, nproc, skipped>>

InstStep ==
  \/ ReapBegin \/ ReapEnd \/ StopProcessors \/ StopRound
  \/ DestroyBegin \/ DestroyEnd
  \/ \E x \in Plugins : ReapDelete(x) \/ DestroyPlugin(x)

-----------------------------------------------------------------------------
\* Load: every configured plugin is created and its thread started
Init ==
  /\ processors = Processors /\ sinks = Sinks /\ lock = NULL
  /\ told = {} /\ dead = {}
  /\ ppc = [p \in Processors |-> "idle"]
  /\ goal = [p \in Processors |-> NULL] /\ pay = [p \in Processors |-> NULL]
  /\ targets = [p \in Processors |-> {}]
  /\ signalled = [p \in Processors |-> NULL]
  /\ sent = 0
  /\ public = [s \in Sinks |-> <<>>] /\ private = [s \in Sinks |-> <<>>]
  /\ size = [s \in Sinks |-> 0]
  /\ spc = [s \in Sinks |-> "pull"]
  /\ eleft = NULL
  /\ ipc = "loop" /\ ileft = {} /\ reaped = 0 /\ nproc = 0 /\ skipped = FALSE

Next ==
  \/ \E s \in Sinks : SinkStep(s)
  \/ \E p \in Processors :
       CreatePayload(p) \/ ProcStep(p)
  \/ \E x \in Plugins : PluginEnds(x)
  \/ EventBegin \/ AgentStep
  \/ InstStep \/ LeaveLoop \/ ReloadFails

Spec == Init /\ [][Next]_vars

\* Threads that can run do; a plugin that is told to terminate does; and a
\* thread gets the manager's mutex when that is free again and again.
Fairness ==
  /\ \A s \in Sinks : WF_vars(SinkStep(s))
  /\ \A p \in Processors : SF_vars(ProcStep(p))
  /\ \A x \in Plugins : WF_vars(x \in told /\ PluginEnds(x))
  /\ WF_vars(AgentStep)
  /\ SF_vars(InstStep)

FairSpec == Spec /\ Fairness

-----------------------------------------------------------------------------
(* Payload queues                                                          *)

\* plq_size is the size of the private queue, exactly, through every pull,
\* drop and pop (it is unsigned: one payload taken off twice would make it
\* huge and have everything dropped); and it never exceeds plq_size_max by
\* more than the payload moved last, as PullPayloadQueue trims first.
QueueBounded ==
  \A s \in Sinks :
    /\ size[s] = Total(private[s])
    /\ \/ size[s] <= SizeMax
       \/ private[s] # <<>>
          /\ size[s] - private[s][Len(private[s])].length <= SizeMax

\* A sink gets payloads in the order they were dispatched, none twice.
InOrder ==
  \A s \in Sinks :
    \A i, j \in 1..Len(Queue(s)) :
      i < j => Queue(s)[i].msg < Queue(s)[j].msg

Queued(s) == {Queue(s)[i] : i \in 1..Len(Queue(s))}

\* A payload object belongs to one sink, which deletes it: BroadcastSinkPayload
\* hands copies to all but the last.
OneOwner ==
  \A s, t \in Sinks : s # t => Queued(s) \cap Queued(t) = {}

Moving == \E s \in sinks \ (dead \cup told) : Queued(s) # {}

\* Every payload dispatched to a sink is popped, or dropped for its size, as
\* long as the sink runs: a wake-up lost between the two pulls of
\* WaitOnPayloadQueue delays it only.  (At most MaxPayloads are dispatched, so
\* at some time all of them have gone.)
PayloadsMove == Moving ~> ~Moving

-----------------------------------------------------------------------------
(* The plugin manager                                                      *)

\* No thread calls a plugin that was deleted: those a broadcast has yet to
\* call, and the sinks a payload has yet to be given to, are in the maps.
\* Reap walks the maps without the mutex and takes it to erase.
NoDeletedPlugin ==
  /\ eleft # NULL => eleft \subseteq processors
  /\ \A p \in Processors :
       /\ ppc[p] # "idle" => p \in processors \ dead
       /\ targets[p] \subseteq sinks
       /\ ppc[p] = "signal" => signalled[p] \in sinks

\* Destroy deletes plugins, joining their threads, with the mutex held that
\* DispatchSinkPayload needs.  That is safe because Entry waits for all
\* processors first - unless it is left by a failed reload.
ProcessorsFirst ==
  ipc \in {"return", "destroy"} /\ ~skipped => processors = {}

\* The instance thread, once it is out of the loop, gets every plugin
\* terminated and deleted; no join waits for a thread that waits for the
\* manager's mutex.
ExitCompletes == ipc = "stop" ~> ipc = "gone"
=============================================================================
