---------------------------- MODULE AgentControl ----------------------------
(***************************************************************************)
(* How the agent is controlled and ends: the main thread turns signals     *)
(* into messages on the IPC socket of the instance thread (netifyd.cpp,    *)
(* SendSignal), the instance thread handles them (ndInstance::Entry), and  *)
(* when it has ended, the main thread destroys the instance (~ndInstance), *)
(* the detection threads (nd-detection.cpp) among the rest.  All that is   *)
(* left of a flow here is whether it is queued for a detection thread,     *)
(* being processed, or idle; FlowLifecycle has the rest.                   *)
(***************************************************************************)
EXTENDS Integers, Sequences, FiniteSets

CONSTANTS
  Interfaces,   \* interfaces that may be configured, one thread each
  DpiThreads,
  IpcSize,      \* messages the socket pair takes
  MaxSignals,   \* bound: HUP and TERM signals sent to the agent
  Flows         \* bound: flow objects

ASSUME ControlAssumption ==
  /\ IsFiniteSet(Interfaces) /\ IsFiniteSet(DpiThreads) /\ DpiThreads # {}
  /\ IpcSize \in Nat \ {0}
  /\ MaxSignals \in [{"RELOAD", "TERMINATE"} -> Nat]

VARIABLES
  \* The main thread
  sent,        \* HUP, TERM -> signals sent so far
  pending,     \* signals that wait for sigtimedwait
  main,        \* "loop", then the steps of ~ndInstance, "exited"
  \* The instance thread
  ipc, pc, msg, terminate, terminate_force, exit_code,
  \* Capture threads
  config,      \* interfaces of the configuration file
  interfaces,  \* interfaces in use
  thread_capture, \* interfaces with a thread in the map
  leaked,      \* threads that run and are in no map
  over,        \* threads whose source has ended
  revived,     \* whether threads were created after Terminate()
  \* Detection threads
  dpi,         \* thread -> "loop", "wait", "drain", "test", "final", "ended",
               \* "deleted"
  pkt_queue,   \* thread -> the flows queued, in any order
  busy,        \* thread -> the flow it is processing, if any
  dpi_terminate,
  idle,        \* flows that nothing refers to
  conntrack    \* whether thread_conntrack exists

mainVars == <<sent, pending, main>>
instVars == <<ipc, pc, msg, terminate, terminate_force, exit_code>>
capVars == <<config, interfaces, thread_capture, leaked, over, revived>>
dpiVars == <<dpi, pkt_queue, busy, dpi_terminate, idle, conntrack>>
vars == <<mainVars, instVars, capVars, dpiVars>>

-----------------------------------------------------------------------------
Message == {"RELOAD", "TERMINATE", "UPDATE"}

TypeOK ==
  /\ sent \in [{"RELOAD", "TERMINATE"} -> Nat]
  /\ \A s \in {"RELOAD", "TERMINATE"} : sent[s] <= MaxSignals[s]
  /\ pending \subseteq Message
  /\ main \in {"loop", "conntrack", "dpi", "exited"}
  /\ ipc \in Seq(Message) /\ Len(ipc) <= IpcSize
  /\ pc \in {"start", "wait", "work", "check", "return", "final", "ended",
             "thrown"}
  /\ msg \in Message
  /\ terminate \in BOOLEAN /\ terminate_force \in BOOLEAN
  /\ exit_code \in {0, 1}
  /\ config \subseteq Interfaces /\ interfaces \subseteq Interfaces
  /\ thread_capture \subseteq interfaces /\ leaked \subseteq Interfaces
  /\ over \subseteq thread_capture \cup leaked /\ revived \in BOOLEAN
  /\ dpi \in [DpiThreads -> {"loop", "wait", "drain", "test", "final",
                             "ended", "deleted"}]
  /\ pkt_queue \in [DpiThreads -> SUBSET Flows]
  /\ busy \in [DpiThreads -> SUBSET Flows]
  /\ dpi_terminate \in BOOLEAN /\ conntrack \in BOOLEAN
  /\ idle \subseteq Flows

\* The instance thread is created last, by ndInstance::Run.
Init ==
  /\ sent = [s \in {"RELOAD", "TERMINATE"} |-> 0] /\ pending = {}
  /\ main = "loop" /\ ipc = <<>> /\ pc = "start" /\ msg = "UPDATE"
  /\ terminate = FALSE /\ terminate_force = FALSE /\ exit_code = 0
  /\ config \in SUBSET Interfaces
  /\ interfaces = {} /\ thread_capture = {} /\ leaked = {} /\ over = {}
  /\ revived = FALSE
  /\ dpi = [d \in DpiThreads |-> "loop"]
  /\ pkt_queue = [d \in DpiThreads |-> {}]
  /\ busy = [d \in DpiThreads |-> {}]
  /\ dpi_terminate = FALSE /\ idle = {} /\ conntrack = TRUE

-----------------------------------------------------------------------------
\* The world outside.

\* The instance thread has returned from Entry, or left it by an exception.
HasTerminated == pc \in {"ended", "thrown"}

\* A signal that is pending already is not queued a second time.
Kill(s) ==
  /\ main = "loop" /\ ~HasTerminated /\ sent[s] < MaxSignals[s]
  /\ sent' = [sent EXCEPT ![s] = @ + 1]
  /\ pending' = pending \cup {s}
  /\ UNCHANGED <<main, instVars, capVars, dpiVars>>

\* timer_update
Timer ==
  /\ main = "loop" /\ ~HasTerminated /\ "UPDATE" \notin pending
  /\ pending' = pending \cup {"UPDATE"}
  /\ UNCHANGED <<sent, main, instVars, capVars, dpiVars>>

\* Nothing reads the file after the loop of Entry.
EditConfig ==
  /\ pc \in {"start", "wait", "work", "check"}
  /\ \E c \in SUBSET Interfaces : c # config /\ config' = c
  /\ UNCHANGED <<mainVars, instVars, interfaces, thread_capture, leaked, over,
                 revived, dpiVars>>

-----------------------------------------------------------------------------
\* The main thread.

\* SendIPC on a full socket fails, and the message is lost.
SendIPC(s) == ipc' = IF Len(ipc) < IpcSize THEN Append(ipc, s) ELSE ipc

\* sigtimedwait and SendSignal
SendSignal(s) ==
  /\ main = "loop" /\ ~HasTerminated /\ s \in pending
  /\ pending' = pending \ {s}
  /\ SendIPC(s)
  /\ UNCHANGED <<sent, main, pc, msg, terminate, terminate_force, exit_code,
                 capVars, dpiVars>>

\* The loop is left when the instance thread has terminated, and ~ndInstance begins, up to the end
\* of its first pass, which asks the threads to terminate.
DestroyBegin ==
  /\ main = "loop" /\ HasTerminated
  /\ main' = "conntrack"
  /\ terminate' = TRUE /\ dpi_terminate' = TRUE
  /\ UNCHANGED <<sent, pending, ipc, pc, msg, terminate_force, exit_code,
                 capVars, dpi, pkt_queue, busy, idle, conntrack>>

\* Second pass: thread_conntrack is joined and deleted first.
DeleteConntrack ==
  /\ main = "conntrack" /\ main' = "dpi"
  /\ conntrack' = FALSE
  /\ UNCHANGED <<sent, pending, instVars, capVars, dpi, pkt_queue, busy,
                 dpi_terminate, idle>>

\* ~ndDetectionThread wakes the thread, joins it and drops its queue.
DeleteDpi(d) ==
  /\ main = "dpi" /\ dpi[d] = "ended"
  /\ dpi' = [dpi EXCEPT ![d] = "deleted"]
  /\ pkt_queue' = [pkt_queue EXCEPT ![d] = {}]
  /\ UNCHANGED <<mainVars, instVars, capVars, busy, dpi_terminate, idle,
                 conntrack>>

\* The caches, the flow map and Netlink are deleted; the process ends.
DestroyEnd ==
  /\ main = "dpi" /\ \A d \in DpiThreads : dpi[d] = "deleted"
  /\ main' = "exited"
  /\ UNCHANGED <<sent, pending, instVars, capVars, dpiVars>>

-----------------------------------------------------------------------------
\* The instance thread.

\* ndInstance::Terminate: the second call forces the end.
Terminate ==
  /\ terminate' = TRUE
  /\ terminate_force' = (terminate_force \/ terminate)

\* The contents of the flow map; status.flows is their number.
Mapped ==
  idle \cup {f \in Flows : \E d \in DpiThreads :
                            f \in pkt_queue[d] \cup busy[d]}

\* ReloadCaptureThreads: threads of interfaces that are gone are joined and
\* deleted, those of new interfaces created.
Added == config \ interfaces
Removed == interfaces \ config

ReloadCaptureThreads ==
  /\ interfaces' = config
  /\ thread_capture' = (thread_capture \ Removed) \cup Added
  /\ over' = over \ Removed
  /\ revived' = (revived \/ (terminate /\ Added # {}))
  /\ UNCHANGED <<config, leaked>>

\* CreateCaptureThreads throws; the threads of an interface that run already,
\* all fan-out instances or some, are in no map.
ReloadCaptureThreadsFails ==
  /\ interfaces' = interfaces \ Removed
  /\ thread_capture' = thread_capture \ Removed
  /\ over' = over \ Removed
  /\ Added # {} /\ leaked' \in SUBSET Added
  /\ UNCHANGED <<config, revived>>

\* LoadInterfaces throws before it has changed anything, and nobody catches it
\* in the loop of Entry: the map of capture threads goes with Entry.
ReloadCaptureThreadsThrows ==
  /\ thread_capture' = {} /\ leaked' = leaked \cup thread_capture
  /\ UNCHANGED <<config, interfaces, over, revived>>

\* DestroyCaptureThreads: all threads of the map are joined and deleted.
DestroyCaptureThreads ==
  /\ thread_capture' = {}
  /\ over' = over \cap leaked
  /\ UNCHANGED <<config, interfaces, leaked, revived>>

\* ExpireFlow: of the flows that nothing refers to, those whose detection is
\* not complete, E, are queued once more.
ExpireFlows(E) ==
  \E to \in [E -> DpiThreads] :
    pkt_queue' = [d \in DpiThreads |->
                    pkt_queue[d] \cup {f \in E : to[f] = d}]

\* Mutant: an agent that is to end purges no flows.
PurgeRunning(left) == idle' \in IF terminate THEN {left} ELSE SUBSET left

\* Of the flows that are left, those that have expired are purged.
Purge(left) == idle' \in SUBSET left

\* ProcessFlows, as ProcessUpdate calls it
ProcessFlows ==
  /\ \E E \in SUBSET idle : ExpireFlows(E) /\ Purge(idle \ E)
  /\ UNCHANGED <<dpi, busy, dpi_terminate, conntrack>>

\* The start of Entry, up to its loop.  When CreateCaptureThreads fails the
\* thread just returns; exceptions of Netlink and LoadInterfaces, which come
\* before, and of the timers, which come after, end it in an orderly way.
Start ==
  /\ pc = "start"
  /\ \/ ReloadCaptureThreads /\ pc' = "wait" /\ UNCHANGED exit_code
     \/ ReloadCaptureThreadsFails /\ pc' = "ended" /\ UNCHANGED exit_code
     \/ /\ ReloadCaptureThreads \/ UNCHANGED capVars
        /\ pc' = "return" /\ exit_code' = 1
  /\ UNCHANGED <<mainVars, ipc, msg, terminate, terminate_force, dpiVars>>

\* WaitForIPC gets a message, or times out.
Receive ==
  /\ pc = "wait"
  /\ IF ipc = <<>> THEN pc' = "check" /\ UNCHANGED <<ipc, msg>>
     ELSE msg' = Head(ipc) /\ ipc' = Tail(ipc) /\ pc' = "work"
  /\ UNCHANGED <<mainVars, terminate, terminate_force, exit_code, capVars,
                 dpiVars>>

\* A failed reload leaves the loop without the end of the processors.
HandleReload ==
  /\ pc = "work" /\ msg = "RELOAD"
  /\ \/ ReloadCaptureThreads /\ pc' = "check" /\ UNCHANGED exit_code
     \/ ReloadCaptureThreadsFails /\ pc' = "return" /\ exit_code' = 1
     \/ ReloadCaptureThreadsThrows /\ pc' = "thrown" /\ UNCHANGED exit_code
  /\ UNCHANGED <<mainVars, ipc, msg, terminate, terminate_force, dpiVars>>

HandleTerminate ==
  /\ pc = "work" /\ msg = "TERMINATE"
  /\ Terminate /\ exit_code' = 0 /\ pc' = "check"
  /\ IF terminate_force' THEN UNCHANGED <<capVars, dpiVars>>
     ELSE /\ DestroyCaptureThreads
          /\ \E E \in SUBSET idle : ExpireFlows(E) /\ idle' = idle \ E
          /\ UNCHANGED <<dpi, busy, dpi_terminate, conntrack>>
  /\ UNCHANGED <<mainVars, ipc, msg>>

\* ReapCaptureThreads, which has the agent end when it finds no thread left,
\* and ProcessUpdate
HandleUpdate ==
  /\ pc = "work" /\ msg = "UPDATE" /\ pc' = "check"
  /\ IF thread_capture \subseteq over /\ ~terminate
     THEN Terminate /\ DestroyCaptureThreads
     ELSE UNCHANGED <<terminate, terminate_force, capVars>>
  /\ ProcessFlows
  /\ UNCHANGED <<mainVars, ipc, msg, exit_code>>

\* Mutant: the flows are not waited for.
LeavesAtOnce == terminate_force \/ terminate

\* status.flows == 0 as ProcessFlows last found it
Leaves == terminate_force \/ (terminate /\ Mapped = {})

\* The end of the loop: plugins.Reap() found an ended plugin, or the agent
\* is to end and the processors have been waited for (see Plugins).
EndOfLoop ==
  /\ pc = "check"
  /\ \/ Leaves /\ pc' = "return" /\ UNCHANGED exit_code
     \/ ~Leaves /\ pc' = "wait" /\ UNCHANGED exit_code
     \/ pc' = "return" /\ exit_code' = 1
  /\ UNCHANGED <<mainVars, ipc, msg, terminate, terminate_force, capVars,
                 dpiVars>>

\* ndInstance_EntryReturn, up to the final update
EntryReturn ==
  /\ pc = "return" /\ pc' = "final"
  /\ terminate' = TRUE /\ UNCHANGED terminate_force
  /\ DestroyCaptureThreads
  /\ UNCHANGED <<mainVars, ipc, msg, exit_code, dpiVars>>

FinalUpdate ==
  /\ pc = "final" /\ pc' = "ended"
  /\ ProcessFlows
  /\ UNCHANGED <<mainVars, ipc, msg, terminate, terminate_force, exit_code,
                 capVars>>

Instance ==
  \/ Start \/ Receive \/ HandleReload \/ HandleTerminate \/ HandleUpdate
  \/ EndOfLoop \/ EntryReturn \/ FinalUpdate

-----------------------------------------------------------------------------
\* Capture threads.

Capturing == (thread_capture \cup leaked) \ over

\* A new flow object, if one is left
NewFlow == {f \in Flows \ Mapped : f = CHOOSE g \in Flows \ Mapped : TRUE}

\* QueuePacket for a new or an idle flow.  The condition is signalled
\* without its mutex: only a thread that waits is woken.
Capture(c, d) ==
  /\ c \in Capturing /\ main # "exited"
  /\ \E f \in NewFlow \cup idle :
       /\ idle' = idle \ {f}
       /\ pkt_queue' = [pkt_queue EXCEPT ![d] = @ \cup {f}]
  /\ dpi' = IF dpi[d] = "wait" THEN [dpi EXCEPT ![d] = "drain"] ELSE dpi
  /\ UNCHANGED <<mainVars, instVars, capVars, busy, dpi_terminate, conntrack>>

CaptureEnds(c) ==
  /\ c \in Capturing /\ main # "exited"
  /\ over' = over \cup {c}
  /\ UNCHANGED <<mainVars, instVars, config, interfaces, thread_capture,
                 leaked, revived, dpiVars>>

-----------------------------------------------------------------------------
\* Detection threads.

MoveDpi(d, from, to) ==
  /\ dpi[d] = from /\ dpi' = [dpi EXCEPT ![d] = to]
  /\ UNCHANGED <<mainVars, instVars, capVars, pkt_queue, busy, dpi_terminate,
                 idle, conntrack>>

DpiWait(d) == MoveDpi(d, "loop", "wait")

\* Mutant: pthread_cond_wait, which never times out.
DpiTimeoutNever(d) == MoveDpi(d, "never", "drain")

\* pthread_cond_timedwait returns after a second.
DpiTimeout(d) == MoveDpi(d, "wait", "drain")

\* ProcessPacketQueue: an entry is popped, processed (ProcessFlow calls
\* thread_conntrack->UpdateFlow) and deleted.
DpiPop(d) ==
  /\ dpi[d] \in {"drain", "final"} /\ busy[d] = {}
  /\ \E f \in pkt_queue[d] :
       /\ pkt_queue' = [pkt_queue EXCEPT ![d] = @ \ {f}]
       /\ busy' = [busy EXCEPT ![d] = {f}]
  /\ UNCHANGED <<mainVars, instVars, capVars, dpi, dpi_terminate, idle,
                 conntrack>>

DpiProcess(d) ==
  /\ busy[d] # {}
  /\ busy' = [busy EXCEPT ![d] = {}]
  /\ idle' = idle \cup busy[d]
  /\ UNCHANGED <<mainVars, instVars, capVars, dpi, pkt_queue, dpi_terminate,
                 conntrack>>

Drained(d) == busy[d] = {} /\ pkt_queue[d] = {}

DpiDrained(d) == Drained(d) /\ MoveDpi(d, "drain", "test")

\* Mutant: Entry does without the last ProcessPacketQueue.
DpiTestLast(d) == MoveDpi(d, "test", IF dpi_terminate THEN "ended" ELSE "loop")

DpiTest(d) == MoveDpi(d, "test", IF dpi_terminate THEN "final" ELSE "loop")

DpiEnd(d) == Drained(d) /\ MoveDpi(d, "final", "ended")

Dpi(d) ==
  \/ DpiWait(d) \/ DpiTimeout(d) \/ DpiPop(d) \/ DpiProcess(d)
  \/ DpiDrained(d) \/ DpiTest(d) \/ DpiEnd(d)

-----------------------------------------------------------------------------
Main ==
  \/ \E s \in Message : SendSignal(s)
  \/ DestroyBegin \/ DeleteConntrack \/ DestroyEnd
  \/ \E d \in DpiThreads : DeleteDpi(d)

Next ==
  \/ \E s \in {"RELOAD", "TERMINATE"} : Kill(s)
  \/ Timer \/ EditConfig
  \/ Main
  \/ Instance
  \/ \E c \in Interfaces :
       CaptureEnds(c) \/ \E d \in DpiThreads : Capture(c, d)
  \/ \E d \in DpiThreads : Dpi(d)

Spec == Init /\ [][Next]_vars

\* Some update finds all flows past their time when nothing renews them.
PurgeAll ==
  /\ thread_capture \cup leaked = {} /\ idle # {}
  /\ HandleUpdate /\ idle' = {} /\ pkt_queue' = pkt_queue

\* The kernel runs every thread, the timer goes on, waits time out, and so do
\* flows.
FairSpec ==
  /\ Spec
  /\ WF_vars(Timer) /\ WF_vars(Main) /\ WF_vars(Instance)
  /\ SF_vars(PurgeAll)
  /\ \A d \in DpiThreads : WF_vars(Dpi(d))

-----------------------------------------------------------------------------
\* The agent ends by itself or at the first TERM signal: no plugin ended,
\* no reload failed, and none created capture threads after Terminate().
CleanExit ==
  /\ ~terminate_force /\ exit_code = 0 /\ pc # "thrown"
  /\ leaked = {} /\ ~revived

\* When a clean exit deletes thread_conntrack, before the detection threads
\* are joined, they have nothing left to do that would call it.
ConntrackUnused ==
  ~conntrack /\ CleanExit =>
    \A d \in DpiThreads : Drained(d)

\* ~ndDetectionThread never drops an entry that was not processed, and no
\* capture thread is left to queue one, on a forced exit too.
NothingDropped ==
  leaked = {} =>
    \A d \in DpiThreads : dpi[d] \in {"ended", "deleted"} =>
                            Capturing = {} /\ Drained(d)

\* A terminate message that made it into the socket ends the agent, also
\* when flows are queued and wake-ups are lost; unless a reload of a changed
\* configuration comes after it and starts capture threads again, or fails
\* and leaves some behind.
ExitCompletes ==
  (\E i \in DOMAIN ipc : ipc[i] = "TERMINATE") ~>
    (main = "exited" \/ revived \/ leaked # {})

\* A queued packet is processed, although the wake-up may be lost.  (A
\* capture thread that a failed reload left queues into deleted threads.)
PacketsProcessed ==
  \A d \in DpiThreads : (pkt_queue[d] # {} ~> (busy[d] # {} \/ leaked # {}))
=============================================================================
