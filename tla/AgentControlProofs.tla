------------------------- MODULE AgentControlProofs -------------------------
(***************************************************************************)
(* Proofs of the safety properties of AgentControl, for any interfaces,    *)
(* detection threads, flows and signals and any size of the IPC socket.    *)
(*                                                                         *)
(* ConntrackUnused and NothingDropped are about the very end of the agent. *)
(* What makes them true happened long before, in the instance thread: that *)
(* its loop is left cleanly only when no flow is left (Emptied), that no   *)
(* capture thread runs from Terminate() on (Stopped), and that the main    *)
(* thread and through it the detection threads end after it (Order).       *)
(***************************************************************************)
EXTENDS AgentControl, SequenceTheorems, TLAPS

USE DEF HasTerminated

InLoop == pc \in {"start", "wait", "work", "check"}

\* A reload that fails, which leaves threads behind, is the last one.
LeakedLast == InLoop => leaked = {}

\* No thread of the map runs at the start, after Terminate() - unless a later
\* reload has created it - and after ndInstance_EntryReturn.
Stopped ==
  /\ pc = "start" => interfaces = {}
  /\ terminate_force => terminate
  /\ terminate /\ ~revived => thread_capture = {}
  /\ pc \in {"final", "ended", "thrown"} => thread_capture = {}

\* No flow is left once the loop was left for a clean exit, nor at the start.
Emptied ==
  \/ pc = "start"
  \/ CleanExit /\ pc \in {"return", "final", "ended"}
  => thread_capture = {} /\ Mapped = {}

\* The instance thread ends first, then the main thread's loop, and only
\* then are the detection threads told to.
Order ==
  /\ main # "loop" => HasTerminated
  /\ dpi_terminate => main # "loop"
  /\ ~conntrack => main \in {"dpi", "exited"}
  /\ \A d \in DpiThreads :
       dpi[d] \in {"final", "ended", "deleted"} => dpi_terminate

EndedDrained ==
  leaked = {} =>
    \A d \in DpiThreads : dpi[d] \in {"ended", "deleted"} => Drained(d)

ControlInv ==
  /\ TypeOK /\ LeakedLast /\ Stopped /\ Emptied /\ Order /\ EndedDrained

-----------------------------------------------------------------------------
\* The flow map is empty when nothing is idle, queued or being processed.
LEMMA MappedEmpty ==
  ASSUME TypeOK
  PROVE  Mapped = {} <=> idle = {} /\ \A d \in DpiThreads : Drained(d)
<1>1. \A d \in DpiThreads :
        pkt_queue[d] \subseteq Flows /\ busy[d] \subseteq Flows
  BY DEF TypeOK
<1>2. ASSUME Mapped = {}
      PROVE  idle = {} /\ \A d \in DpiThreads : Drained(d)
  BY <1>1, <1>2 DEF Mapped, Drained
<1>3. ASSUME idle = {}, \A d \in DpiThreads : Drained(d)
      PROVE  Mapped = {}
  <2>1. ASSUME NEW f \in Mapped PROVE FALSE
    BY <1>3, <2>1 DEF Mapped, Drained
  <2> QED
    BY <2>1
<1> QED
  BY <1>2, <1>3

LEMMA InitControl == Init => ControlInv
<1> SUFFICES ASSUME Init PROVE ControlInv
  OBVIOUS
<1>1. TypeOK
  <2>1. /\ sent \in [{"RELOAD", "TERMINATE"} -> Nat]
        /\ \A s \in {"RELOAD", "TERMINATE"} : sent[s] <= MaxSignals[s]
    BY ControlAssumption DEF Init
  <2>2. ipc \in Seq(Message) /\ Len(ipc) <= IpcSize
    BY ControlAssumption DEF Init
  <2>3. /\ dpi \in [DpiThreads -> {"loop", "wait", "drain", "test", "final",
                                   "ended", "deleted"}]
        /\ pkt_queue \in [DpiThreads -> SUBSET Flows]
        /\ busy \in [DpiThreads -> SUBSET Flows]
    BY DEF Init
  <2> QED
    BY <2>1, <2>2, <2>3 DEF Init, TypeOK, Message
<1>2. LeakedLast /\ Stopped /\ Order /\ EndedDrained
  BY DEF Init, LeakedLast, Stopped, Order, EndedDrained, InLoop
<1>3. Emptied
  BY <1>1, MappedEmpty DEF Init, Emptied, Drained
<1> QED
  BY <1>1, <1>2, <1>3 DEF ControlInv

\* The messages of the IPC socket stay within its size.
LEMMA SocketType ==
  ASSUME TypeOK
  PROVE  /\ \A s \in Message : SendIPC(s) =>
              ipc' \in Seq(Message) /\ Len(ipc') <= IpcSize
         /\ ipc # <<>> =>
              /\ Head(ipc) \in Message
              /\ Tail(ipc) \in Seq(Message) /\ Len(Tail(ipc)) <= IpcSize
<1>1. ipc \in Seq(Message) /\ Len(ipc) <= IpcSize /\ IpcSize \in Nat
  BY ControlAssumption DEF TypeOK
<1>2. ASSUME NEW s \in Message, SendIPC(s)
      PROVE  ipc' \in Seq(Message) /\ Len(ipc') <= IpcSize
  BY <1>1, <1>2 DEF SendIPC
<1>3. ASSUME ipc # <<>>
      PROVE  /\ Head(ipc) \in Message
             /\ Tail(ipc) \in Seq(Message) /\ Len(Tail(ipc)) <= IpcSize
  BY <1>1, <1>3
<1> QED
  BY <1>2, <1>3

\* ExpireFlow queues idle flows and leaves queued ones queued.
LEMMA ExpireEffect ==
  ASSUME TypeOK, NEW E \in SUBSET idle, ExpireFlows(E)
  PROVE  /\ pkt_queue' \in [DpiThreads -> SUBSET Flows]
         /\ E = {} => pkt_queue' = pkt_queue
  BY DEF TypeOK, ExpireFlows

\* What ProcessFlows does to the flows: it makes none, and none are left to
\* be queued when none are idle.
LEMMA ProcessFlowsEffect ==
  ASSUME TypeOK, ProcessFlows
  PROVE  /\ pkt_queue' \in [DpiThreads -> SUBSET Flows]
         /\ idle' \subseteq Flows
         /\ idle = {} => idle' = {} /\ pkt_queue' = pkt_queue
         /\ UNCHANGED <<dpi, busy, dpi_terminate, conntrack>>
<1>1. PICK E \in SUBSET idle : ExpireFlows(E) /\ Purge(idle \ E)
  BY DEF ProcessFlows
<1>2. idle' \subseteq idle
  BY <1>1 DEF Purge
<1>3. idle = {} => E = {}
  OBVIOUS
<1> QED
  BY <1>1, <1>2, <1>3, ExpireEffect DEF TypeOK, ProcessFlows

-----------------------------------------------------------------------------
\* Each part of the invariant survives a step that leaves its variables alone.
LEMMA ControlFrame ==
  ASSUME ControlInv
  PROVE  /\ UNCHANGED <<pc, leaked>> => LeakedLast'
         /\ UNCHANGED <<pc, interfaces, terminate, terminate_force, revived,
                        thread_capture>>
              => Stopped'
         /\ UNCHANGED <<pc, thread_capture, terminate_force, exit_code, leaked,
                        revived, idle, pkt_queue, busy>> => Emptied'
         /\ UNCHANGED <<main, pc, dpi, dpi_terminate, conntrack>> => Order'
         /\ UNCHANGED <<leaked, dpi, pkt_queue, busy>> => EndedDrained'
  BY DEF ControlInv, LeakedLast, InLoop, Stopped, Emptied, CleanExit, Mapped,
         Order, EndedDrained, Drained

\* The signals and the configuration file: none of the invariant's variables
\* but those of TypeOK.
LEMMA WorldStep ==
  ASSUME ControlInv,
         (\E s \in {"RELOAD", "TERMINATE"} : Kill(s)) \/ Timer \/ EditConfig
  PROVE  ControlInv'
<1>1. TypeOK'
  <2>1. ASSUME NEW s \in {"RELOAD", "TERMINATE"}, Kill(s)
        PROVE  TypeOK'
    <3>1. sent' \in [{"RELOAD", "TERMINATE"} -> Nat]
      BY <2>1 DEF ControlInv, TypeOK, Kill
    <3>2. \A x \in {"RELOAD", "TERMINATE"} : sent'[x] <= MaxSignals[x]
      BY <2>1, ControlAssumption DEF ControlInv, TypeOK, Kill
    <3> QED
      BY <2>1, <3>1, <3>2
      DEF ControlInv, TypeOK, Kill, Message, instVars, capVars, dpiVars
  <2>2. CASE Timer
    BY <2>2 DEF ControlInv, TypeOK, Timer, Message, instVars, capVars, dpiVars
  <2>3. CASE EditConfig
    BY <2>3 DEF ControlInv, TypeOK, EditConfig, mainVars, instVars, dpiVars
  <2> QED
    BY <2>1, <2>2, <2>3
<1>2. UNCHANGED <<main, pc, leaked, interfaces, terminate, revived,
                  thread_capture, terminate_force, exit_code, idle, pkt_queue,
                  busy, dpi, dpi_terminate, conntrack>>
  BY DEF Kill, Timer, EditConfig, mainVars, instVars, capVars, dpiVars
<1> QED
  BY <1>1, <1>2, ControlFrame DEF ControlInv

-----------------------------------------------------------------------------
\* The main thread.
LEMMA MainStep == ASSUME ControlInv, Main PROVE ControlInv'
<1>1. ASSUME NEW s \in Message, SendSignal(s)
      PROVE  ControlInv'
  <2>1. TypeOK'
    BY <1>1, SocketType
    DEF ControlInv, TypeOK, SendSignal, Message, capVars, dpiVars
  <2>2. UNCHANGED <<main, pc, leaked, interfaces, terminate, revived,
                    thread_capture, terminate_force, exit_code, idle,
                    pkt_queue, busy, dpi, dpi_terminate, conntrack>>
    BY <1>1 DEF SendSignal, capVars, dpiVars
  <2> QED
    BY <2>1, <2>2, ControlFrame DEF ControlInv
<1>2. CASE DestroyBegin
  <2>1. TypeOK'
    BY <1>2 DEF ControlInv, TypeOK, DestroyBegin, capVars
  <2>2. Stopped' /\ Order'
    BY <1>2 DEF ControlInv, TypeOK, Stopped, Order, DestroyBegin, capVars
  <2>3. UNCHANGED <<pc, leaked, thread_capture, terminate_force, exit_code,
                    revived, idle, pkt_queue, busy, dpi>>
    BY <1>2 DEF DestroyBegin, capVars
  <2> QED
    BY <2>1, <2>2, <2>3, ControlFrame DEF ControlInv
<1>3. CASE DeleteConntrack
  <2>1. TypeOK' /\ Order'
    BY <1>3 DEF ControlInv, TypeOK, Order, DeleteConntrack, instVars, capVars
  <2>2. UNCHANGED <<pc, leaked, interfaces, terminate, thread_capture,
                    terminate_force, exit_code, revived, idle, pkt_queue, busy,
                    dpi>>
    BY <1>3 DEF DeleteConntrack, instVars, capVars
  <2> QED
    BY <2>1, <2>2, ControlFrame DEF ControlInv
<1>4. CASE DestroyEnd
  <2>1. TypeOK' /\ Order'
    BY <1>4
    DEF ControlInv, TypeOK, Order, DestroyEnd, instVars, capVars, dpiVars
  <2>2. UNCHANGED <<pc, leaked, interfaces, terminate, thread_capture,
                    terminate_force, exit_code, revived, idle, pkt_queue, busy,
                    dpi>>
    BY <1>4 DEF DestroyEnd, instVars, capVars, dpiVars
  <2> QED
    BY <2>1, <2>2, ControlFrame DEF ControlInv
<1>5. ASSUME NEW d \in DpiThreads, DeleteDpi(d)
      PROVE  ControlInv'
  <2>1. TypeOK'
    BY <1>5 DEF ControlInv, TypeOK, DeleteDpi, mainVars, instVars, capVars
  <2>2. Order' /\ EndedDrained'
    BY <1>5
    DEF ControlInv, TypeOK, Order, EndedDrained, Drained, DeleteDpi, mainVars,
        instVars, capVars
  <2>3. Emptied'
    <3>1. Mapped = {} => Mapped' = {}
      BY <1>5 DEF ControlInv, TypeOK, DeleteDpi, Mapped
    <3> QED
      BY <1>5, <3>1
      DEF ControlInv, Emptied, CleanExit, DeleteDpi, instVars, capVars
  <2>4. UNCHANGED <<pc, leaked, interfaces, terminate, terminate_force,
                    thread_capture, revived>>
    BY <1>5 DEF DeleteDpi, instVars, capVars
  <2> QED
    BY <2>1, <2>2, <2>3, <2>4, ControlFrame DEF ControlInv
<1> QED
  BY <1>1, <1>2, <1>3, <1>4, <1>5 DEF Main

-----------------------------------------------------------------------------
\* The instance thread.

\* A reload that succeeds gives the map the threads of new interfaces, and
\* says so when the agent is to end.
LEMMA ReloadEffect ==
  ASSUME ControlInv, InLoop, ReloadCaptureThreads
  PROVE  /\ interfaces' \subseteq Interfaces
         /\ thread_capture' \subseteq interfaces'
         /\ over' \subseteq thread_capture' \cup leaked'
         /\ leaked' = {} /\ config' \subseteq Interfaces /\ revived' \in BOOLEAN
         /\ terminate /\ ~revived' => thread_capture' = {}
  BY DEF ControlInv, TypeOK, LeakedLast, Stopped, InLoop, ReloadCaptureThreads,
         Added, Removed

LEMMA ReloadFailsEffect ==
  ASSUME ControlInv, InLoop, ReloadCaptureThreadsFails
  PROVE  /\ interfaces' \subseteq Interfaces
         /\ thread_capture' \subseteq interfaces'
         /\ over' \subseteq thread_capture' \cup leaked'
         /\ leaked' \subseteq Interfaces /\ config' \subseteq Interfaces
         /\ thread_capture' \subseteq thread_capture
         /\ UNCHANGED revived
  BY DEF ControlInv, TypeOK, LeakedLast, InLoop, ReloadCaptureThreadsFails,
         Added, Removed

LEMMA DestroyEffect ==
  ASSUME ControlInv, DestroyCaptureThreads
  PROVE  /\ interfaces' \subseteq Interfaces /\ thread_capture' = {}
         /\ over' \subseteq leaked'
         /\ UNCHANGED <<config, interfaces, leaked, revived>>
  BY DEF ControlInv, TypeOK, DestroyCaptureThreads

LEMMA StartStep == ASSUME ControlInv, Start PROVE ControlInv'
<1> USE DEF ControlInv
<1>1. /\ pc = "start" /\ InLoop
      /\ UNCHANGED <<mainVars, ipc, msg, terminate, terminate_force, dpiVars>>
  BY DEF Start, InLoop
<1>2. /\ thread_capture = {} /\ Mapped = {} /\ Mapped' = {}
      /\ main = "loop" /\ interfaces = {}
  BY <1>1 DEF Emptied, Stopped, Order, Mapped, dpiVars
<1>3. CASE ReloadCaptureThreads /\ pc' = "wait" /\ UNCHANGED exit_code
  <2>1. TypeOK'
    BY <1>1, <1>3, ReloadEffect DEF TypeOK, mainVars, dpiVars
  <2>2. LeakedLast' /\ Stopped' /\ Emptied'
    BY <1>1, <1>3, ReloadEffect DEF LeakedLast, Stopped, Emptied
  <2> QED
    BY <1>1, <1>2, <1>3, <2>1, <2>2, ReloadEffect
    DEF Order, EndedDrained, Drained, mainVars, dpiVars
<1>4. CASE ReloadCaptureThreadsFails /\ pc' = "ended" /\ UNCHANGED exit_code
  <2>1. TypeOK'
    BY <1>1, <1>4, ReloadFailsEffect DEF TypeOK, mainVars, dpiVars
  <2>2. LeakedLast' /\ Stopped' /\ Emptied'
    BY <1>1, <1>2, <1>4, ReloadFailsEffect
    DEF LeakedLast, Stopped, Emptied, InLoop
  <2> QED
    BY <1>1, <1>2, <1>4, <2>1, <2>2, ReloadFailsEffect
    DEF Order, EndedDrained, Drained, mainVars, dpiVars
<1>5. CASE /\ ReloadCaptureThreads \/ UNCHANGED capVars
           /\ pc' = "return" /\ exit_code' = 1
  <2>1. /\ interfaces' \subseteq Interfaces
        /\ thread_capture' \subseteq interfaces'
        /\ over' \subseteq thread_capture' \cup leaked'
        /\ leaked' = {} /\ config' \subseteq Interfaces /\ revived' \in BOOLEAN
        /\ terminate /\ ~revived' => thread_capture' = {}
    BY <1>1, <1>2, <1>5, ReloadEffect DEF TypeOK, LeakedLast, Stopped, capVars
  <2>2. TypeOK'
    BY <1>1, <1>5, <2>1 DEF TypeOK, mainVars, dpiVars
  <2>3. LeakedLast' /\ Stopped' /\ Emptied'
    BY <1>1, <1>5, <2>1 DEF LeakedLast, Stopped, Emptied, CleanExit
  <2> QED
    BY <1>1, <1>2, <1>5, <2>1, <2>2, <2>3
    DEF Order, EndedDrained, Drained, mainVars, dpiVars
<1> QED
  BY <1>3, <1>4, <1>5 DEF Start

LEMMA ReceiveStep == ASSUME ControlInv, Receive PROVE ControlInv'
<1>1. TypeOK'
  BY SocketType DEF ControlInv, Receive, TypeOK, mainVars, capVars, dpiVars
<1>2. /\ pc = "wait" /\ pc' \in {"check", "work"}
      /\ UNCHANGED <<mainVars, terminate, terminate_force, exit_code, capVars,
                     dpiVars>>
  BY DEF Receive
<1> QED
  BY <1>1, <1>2
  DEF ControlInv, LeakedLast, InLoop, Stopped, Emptied, Order, EndedDrained,
      Drained, mainVars, capVars, dpiVars

LEMMA HandleReloadStep == ASSUME ControlInv, HandleReload PROVE ControlInv'
<1> USE DEF ControlInv
<1>1. /\ pc = "work" /\ InLoop
      /\ UNCHANGED <<mainVars, ipc, msg, terminate, terminate_force, dpiVars>>
  BY DEF HandleReload, InLoop
<1>2. \A d \in DpiThreads : dpi[d] \notin {"ended", "deleted"}
  BY <1>1 DEF Order
<1>3. CASE ReloadCaptureThreads /\ pc' = "check" /\ UNCHANGED exit_code
  <2>1. TypeOK'
    BY <1>1, <1>3, ReloadEffect DEF TypeOK, mainVars, dpiVars
  <2>2. LeakedLast' /\ Stopped' /\ Emptied'
    BY <1>1, <1>3, ReloadEffect DEF LeakedLast, Stopped, Emptied
  <2> QED
    BY <1>1, <1>2, <1>3, <2>1, <2>2 DEF Order, EndedDrained, mainVars, dpiVars
<1>4. CASE ReloadCaptureThreadsFails /\ pc' = "return" /\ exit_code' = 1
  <2>1. TypeOK'
    BY <1>1, <1>4, ReloadFailsEffect DEF TypeOK, mainVars, dpiVars
  <2>2. LeakedLast' /\ Stopped' /\ Emptied'
    BY <1>1, <1>4, ReloadFailsEffect
    DEF LeakedLast, InLoop, Stopped, Emptied, CleanExit
  <2> QED
    BY <1>1, <1>2, <1>4, <2>1, <2>2 DEF Order, EndedDrained, mainVars, dpiVars
<1>5. CASE ReloadCaptureThreadsThrows /\ pc' = "thrown" /\ UNCHANGED exit_code
  <2>1. TypeOK'
    BY <1>1, <1>5 DEF TypeOK, ReloadCaptureThreadsThrows, mainVars, dpiVars
  <2>2. LeakedLast' /\ Stopped' /\ Emptied'
    BY <1>1, <1>5
    DEF LeakedLast, InLoop, Stopped, Emptied, CleanExit,
        ReloadCaptureThreadsThrows
  <2> QED
    BY <1>1, <1>2, <1>5, <2>1, <2>2 DEF Order, EndedDrained, mainVars, dpiVars
<1> QED
  BY <1>3, <1>4, <1>5 DEF HandleReload

LEMMA HandleTerminateStep ==
  ASSUME ControlInv, HandleTerminate PROVE ControlInv'
<1> USE DEF ControlInv
<1>1. /\ pc = "work" /\ pc' = "check" /\ exit_code' = 0
      /\ terminate' = TRUE /\ terminate_force' = (terminate_force \/ terminate)
      /\ UNCHANGED <<mainVars, ipc, msg>>
  BY DEF HandleTerminate, Terminate
<1>2. \A d \in DpiThreads : dpi[d] \notin {"ended", "deleted"}
  BY <1>1 DEF Order
<1>3. CASE UNCHANGED <<capVars, dpiVars>> /\ terminate_force'
  BY <1>1, <1>2, <1>3
  DEF TypeOK, LeakedLast, InLoop, Stopped, Emptied, CleanExit, Order,
      EndedDrained, mainVars, capVars, dpiVars
<1>4. CASE /\ DestroyCaptureThreads
           /\ \E E \in SUBSET idle : ExpireFlows(E) /\ idle' = idle \ E
           /\ UNCHANGED <<dpi, busy, dpi_terminate, conntrack>>
  <2>1. pkt_queue' \in [DpiThreads -> SUBSET Flows] /\ idle' \subseteq Flows
    BY <1>4, ExpireEffect DEF TypeOK
  <2>2. TypeOK'
    BY <1>1, <1>4, <2>1, DestroyEffect DEF TypeOK, mainVars
  <2>3. LeakedLast' /\ Stopped' /\ Emptied'
    BY <1>1, <1>4, DestroyEffect DEF LeakedLast, InLoop, Stopped, Emptied
  <2> QED
    BY <1>1, <1>2, <1>4, <2>2, <2>3 DEF Order, EndedDrained, mainVars
<1> QED
  BY <1>3, <1>4 DEF HandleTerminate

LEMMA HandleUpdateStep == ASSUME ControlInv, HandleUpdate PROVE ControlInv'
<1> USE DEF ControlInv
<1>1. /\ pc = "work" /\ pc' = "check"
      /\ UNCHANGED <<mainVars, ipc, msg, exit_code>> /\ ProcessFlows
  BY DEF HandleUpdate
<1>2. \A d \in DpiThreads : dpi[d] \notin {"ended", "deleted"}
  BY <1>1 DEF Order
<1>3. /\ terminate' \in BOOLEAN /\ terminate_force' \in BOOLEAN
      /\ interfaces' \subseteq Interfaces /\ config' \subseteq Interfaces
      /\ thread_capture' \subseteq interfaces'
      /\ over' \subseteq thread_capture' \cup leaked'
      /\ UNCHANGED <<leaked, revived>> /\ (terminate_force' => terminate')
      /\ terminate' /\ ~revived' => thread_capture' = {}
  <2>1. CASE Terminate /\ DestroyCaptureThreads
    BY <2>1, DestroyEffect DEF TypeOK, Stopped, Terminate
  <2>2. CASE UNCHANGED <<terminate, terminate_force, capVars>>
    BY <2>2 DEF TypeOK, Stopped, capVars
  <2> QED
    BY <2>1, <2>2 DEF HandleUpdate
<1>4. TypeOK'
  BY <1>1, <1>3, ProcessFlowsEffect DEF TypeOK, mainVars
<1>5. LeakedLast' /\ Stopped' /\ Emptied'
  BY <1>1, <1>3 DEF LeakedLast, InLoop, Stopped, Emptied
<1> QED
  BY <1>1, <1>2, <1>4, <1>5, ProcessFlowsEffect
  DEF Order, EndedDrained, mainVars

\* The only clean way out of the loop is with no flow left and, as the agent
\* is to end, no capture thread either.
LEMMA EndOfLoopStep == ASSUME ControlInv, EndOfLoop PROVE ControlInv'
<1> USE DEF ControlInv
<1>1. /\ pc = "check" /\ pc' \in {"return", "wait"}
      /\ exit_code' \in {0, 1}
      /\ pc' = "return" => Leaves \/ exit_code' = 1
      /\ UNCHANGED <<mainVars, ipc, msg, terminate, terminate_force, capVars,
                     dpiVars>>
  BY DEF EndOfLoop, TypeOK
<1>2. TypeOK'
  BY <1>1 DEF TypeOK, mainVars, capVars, dpiVars
<1>3. LeakedLast' /\ Stopped' /\ Order' /\ EndedDrained'
  BY <1>1
  DEF LeakedLast, InLoop, Stopped, Order, EndedDrained, Drained, mainVars,
      capVars, dpiVars
<1>4. Emptied'
  <2>1. Mapped' = Mapped
    BY <1>1 DEF Mapped, dpiVars
  <2> QED
    BY <1>1, <2>1 DEF Emptied, CleanExit, Leaves, Stopped, capVars
<1> QED
  BY <1>2, <1>3, <1>4

LEMMA EntryReturnStep == ASSUME ControlInv, EntryReturn PROVE ControlInv'
<1> USE DEF ControlInv
<1>1. /\ pc = "return" /\ pc' = "final" /\ terminate' = TRUE
      /\ UNCHANGED <<terminate_force, mainVars, ipc, msg, exit_code, dpiVars>>
      /\ DestroyCaptureThreads
  BY DEF EntryReturn
<1>2. TypeOK'
  BY <1>1, DestroyEffect DEF TypeOK, mainVars, dpiVars
<1>3. Emptied'
  BY <1>1, DestroyEffect DEF Emptied, CleanExit, Mapped, dpiVars
<1> QED
  BY <1>1, <1>2, <1>3, DestroyEffect
  DEF LeakedLast, InLoop, Stopped, Order, EndedDrained, mainVars, dpiVars

LEMMA FinalUpdateStep == ASSUME ControlInv, FinalUpdate PROVE ControlInv'
<1> USE DEF ControlInv
<1>1. /\ pc = "final" /\ pc' = "ended" /\ ProcessFlows
      /\ UNCHANGED <<mainVars, ipc, msg, terminate, terminate_force, exit_code,
                     capVars>>
  BY DEF FinalUpdate
<1>2. TypeOK'
  BY <1>1, ProcessFlowsEffect DEF TypeOK, mainVars, capVars
<1>3. Mapped = {} => Mapped' = {}
  BY ProcessFlowsEffect, <1>1 DEF Mapped
<1>4. Emptied'
  BY <1>1, <1>3 DEF Emptied, CleanExit, capVars
<1> QED
  BY <1>1, <1>2, <1>4, ProcessFlowsEffect
  DEF LeakedLast, InLoop, Stopped, Order, EndedDrained, mainVars, capVars

LEMMA InstanceStep == ASSUME ControlInv, Instance PROVE ControlInv'
  BY StartStep, ReceiveStep, HandleReloadStep, HandleTerminateStep,
     HandleUpdateStep, EndOfLoopStep, EntryReturnStep, FinalUpdateStep
  DEF Instance

-----------------------------------------------------------------------------
\* Capture threads.  None runs when a clean exit is under way or a detection
\* thread has ended.
LEMMA CaptureStep ==
  ASSUME ControlInv, NEW c \in Interfaces,
         CaptureEnds(c) \/ \E d \in DpiThreads : Capture(c, d)
  PROVE  ControlInv'
<1> USE DEF ControlInv
<1>1. CASE CaptureEnds(c)
  <2>1. TypeOK'
    BY <1>1 DEF CaptureEnds, Capturing, TypeOK, mainVars, instVars, dpiVars
  <2>2. UNCHANGED <<main, pc, leaked, interfaces, terminate, revived,
                    thread_capture, terminate_force, exit_code, idle,
                    pkt_queue, busy, dpi, dpi_terminate, conntrack>>
    BY <1>1 DEF CaptureEnds, mainVars, instVars, dpiVars
  <2> QED
    BY <2>1, <2>2, ControlFrame
<1>2. ASSUME NEW d \in DpiThreads, Capture(c, d)
      PROVE  ControlInv'
  <2>1. PICK f \in NewFlow \cup idle :
          /\ idle' = idle \ {f}
          /\ pkt_queue' = [pkt_queue EXCEPT ![d] = @ \cup {f}]
    BY <1>2 DEF Capture
  <2>2. f \in Flows
    BY DEF NewFlow, TypeOK
  <2>3. /\ UNCHANGED <<mainVars, instVars, capVars, busy, dpi_terminate,
                       conntrack>>
        /\ c \in Capturing
        /\ dpi' = IF dpi[d] = "wait" THEN [dpi EXCEPT ![d] = "drain"] ELSE dpi
    BY <1>2 DEF Capture
  <2>4. TypeOK'
    BY <2>1, <2>2, <2>3 DEF TypeOK, mainVars, instVars, capVars
  <2>5. Order'
    BY <2>3 DEF TypeOK, Order, mainVars, instVars
  <2>6. leaked # {} \/ thread_capture # {}
    BY <2>3 DEF Capturing
  <2>7. Emptied'
    BY <2>3, <2>6
    DEF Emptied, Stopped, CleanExit, InLoop, LeakedLast, instVars, capVars
  <2>8. EndedDrained'
    BY <2>3, <2>5, <2>6
    DEF EndedDrained, Stopped, Order, mainVars, instVars, capVars
  <2> QED
    BY <2>3, <2>4, <2>5, <2>7, <2>8, ControlFrame DEF instVars, capVars
<1> QED
  BY <1>1, <1>2

-----------------------------------------------------------------------------
\* Detection threads.
LEMMA MoveStep ==
  ASSUME ControlInv, NEW d \in DpiThreads,
         NEW from,
         NEW to \in {"loop", "wait", "drain", "test", "final", "ended"},
         MoveDpi(d, from, to),
         to \in {"final", "ended"} => dpi_terminate,
         to = "ended" => Drained(d)
  PROVE  ControlInv'
<1> USE DEF ControlInv
<1>1. /\ dpi' = [dpi EXCEPT ![d] = to]
      /\ UNCHANGED <<mainVars, instVars, capVars, pkt_queue, busy,
                     dpi_terminate, idle, conntrack>>
  BY DEF MoveDpi
<1>2. TypeOK' /\ Order'
  BY <1>1 DEF TypeOK, Order, mainVars, instVars, capVars
<1>3. EndedDrained'
  BY <1>1 DEF TypeOK, EndedDrained, Drained, capVars
<1> QED
  BY <1>1, <1>2, <1>3, ControlFrame DEF instVars, capVars

LEMMA DetectionStep ==
  ASSUME ControlInv, NEW d \in DpiThreads, Dpi(d) PROVE ControlInv'
<1> USE DEF ControlInv
<1>1. CASE DpiWait(d) \/ DpiTimeout(d) \/ DpiDrained(d)
  BY <1>1, MoveStep DEF DpiWait, DpiTimeout, DpiDrained
<1>2. CASE DpiTest(d)
  BY <1>2, MoveStep DEF DpiTest
<1>3. CASE DpiEnd(d)
  <2>1. Drained(d) /\ MoveDpi(d, "final", "ended") /\ dpi_terminate
    BY <1>3 DEF DpiEnd, MoveDpi, Order
  <2> QED
    BY <2>1, MoveStep
<1>4. CASE DpiPop(d)
  <2>1. PICK f \in pkt_queue[d] :
          /\ pkt_queue' = [pkt_queue EXCEPT ![d] = @ \ {f}]
          /\ busy' = [busy EXCEPT ![d] = {f}]
    BY <1>4 DEF DpiPop
  <2>2. /\ dpi[d] \in {"drain", "final"}
        /\ UNCHANGED <<mainVars, instVars, capVars, dpi, dpi_terminate, idle,
                       conntrack>>
    BY <1>4 DEF DpiPop
  <2>3. f \in Flows
    BY DEF TypeOK
  <2>4. TypeOK'
    BY <2>1, <2>2, <2>3 DEF TypeOK, mainVars, instVars, capVars
  <2>5. EndedDrained'
    BY <2>1, <2>2 DEF TypeOK, EndedDrained, Drained, capVars
  <2>6. Mapped # {}
    BY <2>3 DEF Mapped
  <2>7. Emptied'
    BY <2>2, <2>6 DEF Emptied, CleanExit, instVars, capVars
  <2> QED
    BY <2>2, <2>4, <2>5, <2>7, ControlFrame DEF mainVars, instVars, capVars
<1>5. CASE DpiProcess(d)
  <2>1. /\ busy[d] # {} /\ busy' = [busy EXCEPT ![d] = {}]
        /\ idle' = idle \cup busy[d]
        /\ UNCHANGED <<mainVars, instVars, capVars, dpi, pkt_queue,
                       dpi_terminate, conntrack>>
    BY <1>5 DEF DpiProcess
  <2>2. TypeOK'
    BY <2>1 DEF TypeOK, mainVars, instVars, capVars
  <2>3. EndedDrained'
    BY <2>1 DEF TypeOK, EndedDrained, Drained, capVars
  <2>4. Mapped # {}
    BY <2>1, MappedEmpty DEF Drained
  <2>5. Emptied'
    BY <2>1, <2>4 DEF Emptied, CleanExit, instVars, capVars
  <2> QED
    BY <2>1, <2>2, <2>3, <2>5, ControlFrame DEF mainVars, instVars, capVars
<1> QED
  BY <1>1, <1>2, <1>3, <1>4, <1>5 DEF Dpi

-----------------------------------------------------------------------------
\* The inductive invariant of control and shutdown, for every instance: the
\* order in which threads stop, who still runs then, and which flows are left.
THEOREM ControlInvariant == Spec => []ControlInv
<1>1. ASSUME ControlInv, [Next]_vars
      PROVE  ControlInv'
  <2>1. CASE UNCHANGED vars
    <3>1. TypeOK'
      BY <1>1, <2>1
      DEF ControlInv, TypeOK, vars, mainVars, instVars, capVars, dpiVars
    <3> QED
      BY <1>1, <2>1, <3>1, ControlFrame
      DEF ControlInv, vars, mainVars, instVars, capVars, dpiVars
  <2> QED
    BY <1>1, <2>1, WorldStep, MainStep, InstanceStep, CaptureStep,
       DetectionStep DEF Next
<1> QED
  BY <1>1, InitControl, PTL DEF Spec

\* Every variable keeps its type; the socket never holds more than it takes,
\* and a thread that ended by itself is one of those that were started.
THEOREM ControlTypeCorrect == Spec => []TypeOK
<1>1. ControlInv => TypeOK
  BY DEF ControlInv
<1> QED
  BY <1>1, ControlInvariant, PTL

\* ~ndInstance deletes thread_conntrack before it joins the detection threads;
\* on a clean exit none of them has an entry left for which it would call it.
THEOREM ConntrackDeletedUnused == Spec => []ConntrackUnused
<1>1. ControlInv => ConntrackUnused
  BY MappedEmpty
  DEF ControlInv, Order, Emptied, CleanExit, ConntrackUnused
<1> QED
  BY <1>1, ControlInvariant, PTL

\* ~ndDetectionThread never drops an unprocessed entry, whatever signals,
\* reloads and ended plugins led to the exit, unless a failed reload left
\* capture threads behind.
THEOREM NoEntryDropped == Spec => []NothingDropped
<1>1. ControlInv => NothingDropped
  BY DEF ControlInv, Order, Stopped, EndedDrained, NothingDropped, Capturing
<1> QED
  BY <1>1, ControlInvariant, PTL

=============================================================================
