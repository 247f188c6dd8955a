------------------------- MODULE NapiManagerProofs -------------------------
(***************************************************************************)
(* Proofs about NapiManager: type correctness, and that a file that was    *)
(* installed is loaded (LoadPending), that a lost token is replaced at     *)
(* once (RetrySoon), and that files are only replaced by newer ones        *)
(* (OnlyNewer), for every Ttl and any number of versions, tokens, faults.  *)
(***************************************************************************)
EXTENDS NapiManager, TLAPS

\* A download in flight belongs to a round whose results are still missing.
OneRound == \A t \in Types : dl[t].pc # "none" => results[t] = "none"

\* A download is not behind the local file: its digest is that of the file,
\* and what it has received whole is newer, or the file is missing.
NotBehind ==
  \A t \in Types :
    dl[t].pc # "none" =>
      /\ dl[t].digest = disk[t]
      /\ dl[t].pc = "get" => disk[t] # NoFile
      /\ dl[t].http = 200 => dl[t].body \in disk[t]..version[t]

\* The server only publishes newer files.
ServerNewest == \A t \in Types : disk[t] <= version[t]

NapiInv ==
  /\ TypeOK /\ OneRound /\ LoadPending /\ RetrySoon /\ NotBehind
  /\ ServerNewest

-----------------------------------------------------------------------------
\* What a step of a download's thread leaves of it: End and the step from
\* HEAD to GET keep token and digest.
LEMMA EndTyped ==
  ASSUME TypeOK, NEW t \in Types, dl[t].pc \in {"head", "get"},
         NEW http \in Status, NEW body \in Contents, End(t, http, body)
  PROVE  /\ dl' \in [Types -> {NoRequest} \cup Download]
         /\ dl'[t].pc = "ended" /\ dl'[t].http = http /\ dl'[t].body = body
         /\ dl'[t].digest = dl[t].digest
         /\ \A u \in Types : u # t => dl'[u] = dl[u]
<1>1. dl[t] \in Download
  BY DEF TypeOK, NoRequest
<1>2. dl' = [dl EXCEPT ![t] = [dl[t] EXCEPT !.pc = "ended", !.http = http,
                                            !.body = body]]
  BY <1>1 DEF End, Download, TypeOK
<1>3. [dl[t] EXCEPT !.pc = "ended", !.http = http, !.body = body] \in Download
  BY <1>1 DEF Download
<1> QED
  BY <1>1, <1>2, <1>3 DEF TypeOK, Download

LEMMA InitInv == Init => NapiInv
BY NapiAssumption
DEF Init, NapiInv, TypeOK, OneRound, LoadPending, RetrySoon, NotBehind,
    ServerNewest, Types, NoRequest, Boot, Download, File, NoFile, EmptyFile,
    NoToken

\* The server, the clock and the other steps that leave the downloads alone.
LEMMA WorldStep ==
  ASSUME NapiInv,
         \/ \E t \in Types : Publish(t)
         \/ IssueToken \/ Clock \/ BootstrapAnswer
         \/ ReloadMessage \/ Stop \/ Joined
  PROVE  NapiInv'
<1> USE NapiAssumption
<1> USE DEF NapiInv, TypeOK, OneRound, LoadPending, Loadable, RetrySoon,
            NotBehind, ServerNewest
<1>1. ASSUME NEW t \in Types, Publish(t) PROVE NapiInv'
  <2>1. version' \in [Types -> 0..MaxVersion]
        /\ \A u \in Types : version[u] <= version'[u]
    BY <1>1 DEF Publish
  <2> QED BY <1>1, <2>1 DEF Publish, managerVars, agentVars, File, NoFile, EmptyFile
<1>2. CASE IssueToken
  BY <1>2 DEF IssueToken, managerVars, agentVars
<1>3. CASE Clock
  BY <1>3 DEF Clock, Later, serverVars, agentVars
<1>4. CASE BootstrapAnswer
  <2>1. boot' \in {NoRequest} \cup Boot /\ faults' \in 0..MaxFaults
    BY <1>4 DEF BootstrapAnswer, Boot, Fault, NoToken
  <2> QED BY <1>4, <2>1 DEF BootstrapAnswer, managerVars, agentVars
<1>5. CASE ReloadMessage
  <2>1. loaded' \in [Types -> File]
        /\ \A t \in Types : Loadable(t) => loaded'[t] = disk[t]
    BY <1>5 DEF ReloadMessage, Reload
  <2> QED BY <1>5, <2>1 DEF ReloadMessage, serverVars, managerVars
<1>6. CASE Stop
  BY <1>6 DEF Stop, serverVars, managerVars
<1>7. CASE Joined
  <2>1. dl' = [t \in Types |-> NoRequest] /\ boot' = NoRequest
    BY <1>7 DEF Joined
  <2>2. \A t \in Types : dl'[t].pc = "none"
    BY <2>1 DEF NoRequest
  <2> QED BY <1>7, <2>1, <2>2 DEF Joined, serverVars, managerVars
<1> QED
  BY <1>1, <1>2, <1>3, <1>4, <1>5, <1>6, <1>7

\* A download's thread ends with nothing older than the local file.
LEMMA RequestStep ==
  ASSUME NapiInv, NEW t \in Types, Head(t) \/ Get(t)
  PROVE  NapiInv'
<1> USE NapiAssumption
<1> USE DEF NapiInv, TypeOK, OneRound, LoadPending, Loadable, RetrySoon,
            NotBehind, ServerNewest
<1>1. dl[t] \in Download /\ dl[t].pc \in {"head", "get"}
  BY DEF Head, Get, NoRequest
<1>2. version[t] \in Contents /\ version[t] \in disk[t]..version[t]
      /\ version[t] \in Nat
  BY DEF Contents, File, NoFile, EmptyFile
<1>3. faults' \in 0..MaxFaults
  BY DEF Head, Get, TransferFails, Fault
<1>4. UNCHANGED <<version, valid, boot, managerVars, agentVars>>
  BY DEF Head, Get
<1>5. /\ dl' \in [Types -> {NoRequest} \cup Download]
      /\ dl'[t].pc # "none" /\ dl'[t].digest = disk[t]
      /\ dl'[t].pc = "get" => disk[t] # NoFile
      /\ dl'[t].http = 200 => dl'[t].body \in disk[t]..version[t]
      /\ \A u \in Types : u # t => dl'[u] = dl[u]
  <2>1. ASSUME NEW http \in Status, NEW body \in Contents,
               End(t, http, body), http = 200 => body \in disk[t]..version[t]
        PROVE  /\ dl' \in [Types -> {NoRequest} \cup Download]
               /\ dl'[t].pc # "none" /\ dl'[t].digest = disk[t]
               /\ dl'[t].pc = "get" => disk[t] # NoFile
               /\ dl'[t].http = 200 => dl'[t].body \in disk[t]..version[t]
               /\ \A u \in Types : u # t => dl'[u] = dl[u]
    BY <1>1, <2>1, EndTyped
  <2>2. ASSUME dl' = [dl EXCEPT ![t].pc = "get"], dl[t].digest # NoFile
        PROVE  /\ dl' \in [Types -> {NoRequest} \cup Download]
               /\ dl'[t].pc # "none" /\ dl'[t].digest = disk[t]
               /\ dl'[t].pc = "get" => disk[t] # NoFile
               /\ dl'[t].http = 200 => dl'[t].body \in disk[t]..version[t]
               /\ \A u \in Types : u # t => dl'[u] = dl[u]
    <3>1. dl' = [dl EXCEPT ![t] = [dl[t] EXCEPT !.pc = "get"]]
      BY <2>2
    <3>2. [dl[t] EXCEPT !.pc = "get"] \in Download
      BY <1>1 DEF Download
    <3> QED BY <1>1, <2>2, <3>1, <3>2 DEF Download
  <2>3. CASE Head(t)
    <3>1. disk[t] = NoFile => EmptyFile \in disk[t]..version[t]
      BY <1>2 DEF EmptyFile, NoFile
    <3>2. EmptyFile \in Contents /\ {200, 304, 401, -1} \subseteq Status
      BY DEF Contents, Status
    <3>3. \/ \E http \in Status, body \in Contents :
               End(t, http, body) /\ (http = 200 => body \in disk[t]..version[t])
          \/ dl' = [dl EXCEPT ![t].pc = "get"] /\ dl[t].digest # NoFile
      BY <1>1, <2>3, <3>1, <3>2 DEF Head, HeadOk, TransferFails
    <3> QED BY <2>1, <2>2, <3>3
  <2>4. CASE Get(t)
    <3>1. Partial \in Contents /\ {200, 401, -1} \subseteq Status
      BY DEF Contents, Status
    <3>2. \E http \in Status, body \in Contents :
            End(t, http, body) /\ (http = 200 => body \in disk[t]..version[t])
      BY <1>2, <2>4, <3>1 DEF Get, TransferFails
    <3> QED BY <2>1, <3>2
  <2> QED BY <2>3, <2>4
<1> QED
  BY <1>1, <1>3, <1>4, <1>5 DEF managerVars, agentVars

\* The bootstrap part of Update, common to its four cases.
LEMMA BootstrapTyped ==
  ASSUME TypeOK, Bootstrap, NEW n \in {0, 1}, Fault(BootFaults + n)
  PROVE  /\ boot' \in {NoRequest} \cup Boot
         /\ faults' \in 0..MaxFaults
         /\ Granted \in 0..MaxToken
         /\ token # NoToken => Granted # NoToken
<1>1. boot' \in {NoRequest} \cup Boot
  BY DEF TypeOK, Bootstrap, Boot
<1>2. BootFaults \in {0, 1}
  BY DEF BootFaults
<1>3. faults' \in 0..MaxFaults
  BY <1>2, NapiAssumption DEF TypeOK, Fault
<1>4. Granted \in 0..MaxToken /\ (token # NoToken => Granted # NoToken)
  <2>1. CASE boot.pc = "ended"
    BY <2>1 DEF TypeOK, Granted, Boot, NoRequest
  <2>2. CASE boot.pc # "ended"
    BY <2>2 DEF TypeOK, Granted
  <2> QED BY <2>1, <2>2
<1> QED BY <1>1, <1>3, <1>4

\* The ended downloads are processed: the results of a round are new, and
\* what is installed is not older than what it replaces.
LEMMA DownloadsStep ==
  ASSUME NapiInv, UpdateDownloads
  PROVE  NapiInv' /\ \A t \in Types : disk'[t] >= disk[t]
<1> USE NapiAssumption
<1>1. PICK failed \in SUBSET Installable :
        /\ Fault(BootFaults + (IF failed = {} THEN 0 ELSE 1))
        /\ disk' = [t \in Types |->
                     IF t \in Installable \ failed THEN dl[t].body ELSE disk[t]]
        /\ results' = [t \in Types |->
                        IF t \in Installable \ failed THEN "installed"
                        ELSE IF t \in Ended THEN "kept"
                        ELSE results[t]]
  BY DEF UpdateDownloads
<1>2. /\ boot' \in {NoRequest} \cup Boot
      /\ faults' \in 0..MaxFaults
      /\ Granted \in 0..MaxToken
      /\ token # NoToken => Granted # NoToken
  BY <1>1, BootstrapTyped DEF NapiInv, UpdateDownloads
<1>3. \A t \in Types : dl'[t] = IF t \in Ended THEN NoRequest ELSE dl[t]
  BY DEF UpdateDownloads
<1>4. dl' \in [Types -> {NoRequest} \cup Download]
  BY DEF UpdateDownloads, NapiInv, TypeOK
<1>5. ASSUME NEW t \in Installable
      PROVE  /\ dl[t].body \in File /\ dl[t].body \in disk[t]..version[t]
             /\ t \in Ended /\ t \in Types /\ dl[t].pc = "ended"
  <2>1. t \in Types /\ dl[t].pc = "ended" /\ dl[t].http = 200
    BY DEF Installable, Ended
  <2>2. dl[t].body \in Contents /\ dl[t].body \in disk[t]..version[t]
        /\ disk[t] \in File
    BY <2>1 DEF NapiInv, TypeOK, NotBehind, Download, NoRequest
  <2> QED
    BY <2>1, <2>2 DEF File, Contents, Partial, NoFile, EmptyFile, Installable
<1>6. disk' \in [Types -> File] /\ \A t \in Types : disk'[t] >= disk[t]
  BY <1>1, <1>5 DEF NapiInv, TypeOK, File, NoFile, EmptyFile
<1>7. TypeOK'
  <2>1. results' \in [Types -> {"none", "installed", "kept"}]
    BY <1>1 DEF NapiInv, TypeOK
  <2>2. token' \in 0..MaxToken /\ age' \in 0..(Ttl + 1)
    BY <1>2 DEF UpdateDownloads, AgeAfter, NoToken, NapiInv, TypeOK
  <2> QED BY <1>2, <1>4, <1>6, <2>1, <2>2 DEF UpdateDownloads, NapiInv, TypeOK
<1>8. OneRound'
  <2>1. SUFFICES ASSUME NEW t \in Types, dl'[t].pc # "none"
                 PROVE  results'[t] = "none"
    BY DEF OneRound
  <2>2. t \notin Ended /\ dl'[t] = dl[t]
    BY <1>3, <2>1 DEF NoRequest
  <2>3. t \notin Installable
    BY <2>2, <1>5
  <2> QED BY <1>1, <2>1, <2>2, <2>3 DEF NapiInv, OneRound
<1>9. LoadPending'
  <2>1. SUFFICES ASSUME NEW t \in Types, Loadable(t)', disk'[t] # loaded'[t]
                 PROVE  results'[t] = "installed"
    BY DEF LoadPending
  <2>2. CASE t \in Installable \ failed
    BY <1>1, <2>2
  <2>3. CASE t \notin Installable \ failed
    <3>1. disk'[t] = disk[t] /\ loaded'[t] = loaded[t]
      BY <1>1, <2>3 DEF UpdateDownloads
    <3>2. results[t] = "installed"
      BY <2>1, <3>1 DEF NapiInv, LoadPending, Loadable
    <3>3. t \notin Ended
      BY <3>2 DEF NapiInv, OneRound, Ended
    <3> QED BY <1>1, <2>3, <3>2, <3>3
  <2> QED BY <2>2, <2>3
<1>10. RetrySoon'
  BY <1>2 DEF NapiInv, RetrySoon, UpdateDownloads, AgeAfter
<1>11. NotBehind'
  <2>1. SUFFICES ASSUME NEW t \in Types, dl'[t].pc # "none"
                 PROVE  dl'[t] = dl[t] /\ disk'[t] = disk[t]
    <3>1. version' = version
      BY DEF UpdateDownloads
    <3> QED BY <3>1 DEF NapiInv, NotBehind
  <2>2. t \notin Ended /\ dl'[t] = dl[t]
    BY <1>3, <2>1 DEF NoRequest
  <2> QED BY <1>1, <1>5, <2>2
<1>12. ServerNewest'
  BY <1>1, <1>5 DEF UpdateDownloads, NapiInv, TypeOK, ServerNewest
<1> QED
  BY <1>6, <1>7, <1>8, <1>9, <1>10, <1>11, <1>12 DEF NapiInv

\* The other cases of Update install nothing.
LEMMA UpdateStep ==
  ASSUME NapiInv, UpdateResults \/ UpdateStart \/ UpdateIdle
  PROVE  NapiInv' /\ UNCHANGED disk
<1> USE NapiAssumption
<1>0. /\ boot' \in {NoRequest} \cup Boot /\ faults' \in 0..MaxFaults
      /\ Granted \in 0..MaxToken
      /\ token # NoToken => Granted # NoToken
  <2>1. TypeOK /\ Bootstrap
    BY DEF NapiInv, UpdateResults, UpdateStart, UpdateIdle
  <2>2. \E n \in {0, 1} : Fault(BootFaults + n)
    <3>1. CASE UpdateStart
      BY <3>1 DEF UpdateStart
    <3>2. CASE UpdateResults \/ UpdateIdle
      <4>1. BootFaults \in {0, 1} /\ Fault(BootFaults)
        BY <3>2 DEF UpdateResults, UpdateIdle, BootFaults
      <4> QED BY <4>1
    <3> QED BY <3>1, <3>2
  <2> QED BY <2>1, <2>2, BootstrapTyped
<1>1. token' = Granted /\ UNCHANGED <<version, valid, uptime, disk, phase>>
  BY DEF UpdateResults, UpdateStart, UpdateIdle, agentVars
<1>2. CASE UpdateResults
  <2>1. \A t \in Types : dl'[t] = dl[t] /\ dl[t].pc = "none"
    BY <1>2 DEF UpdateResults, Active
  <2>2. loaded' \in [Types -> File]
        /\ \A t \in Types : Loadable(t) => loaded'[t] = disk[t]
    <3>1. CASE ReloadDue
      BY <1>2, <3>1 DEF UpdateResults, Reload, NapiInv, TypeOK
    <3>2. CASE ~ReloadDue
      BY <1>2, <3>2 DEF UpdateResults, ReloadDue, NapiInv, TypeOK, LoadPending
    <3> QED BY <3>1, <3>2
  <2>3. TypeOK'
    BY <1>0, <1>1, <1>2, <2>2 DEF UpdateResults, NapiInv, TypeOK
  <2>4. OneRound' /\ LoadPending' /\ NotBehind' /\ ServerNewest'
    BY <1>1, <1>2, <2>1, <2>2
    DEF UpdateResults, NapiInv, OneRound, LoadPending, Loadable, NotBehind,
        ServerNewest
  <2>5. RetrySoon'
    BY <1>0, <1>1, <1>2 DEF UpdateResults, NapiInv, RetrySoon
  <2> QED BY <1>1, <2>3, <2>4, <2>5 DEF NapiInv
<1>3. CASE UpdateStart
  <2>1. Granted # NoToken /\ (\A t \in Types : results[t] = "none")
    BY <1>3 DEF UpdateStart, Due, HaveResults
  <2>2. \A t \in Types :
          /\ NewDownload(t) \in Download
          /\ NewDownload(t).digest = disk[t] /\ NewDownload(t).pc = "head"
          /\ NewDownload(t).http = -1
    BY <1>0, <2>1
    DEF NewDownload, Download, Status, Contents, NapiInv, TypeOK, File, NoToken
  <2>3. PICK failed \in SUBSET Types :
          dl' = [t \in Types |->
                   IF t \in failed THEN NoRequest ELSE NewDownload(t)]
    BY <1>3 DEF UpdateStart
  <2>4. \A t \in Types : dl'[t] = NoRequest \/ dl'[t] = NewDownload(t)
    BY <2>3
  <2>5. age' = 0 /\ UNCHANGED <<results, loaded>>
    BY <1>3 DEF UpdateStart, agentVars
  <2>6. TypeOK'
    <3>1. dl' \in [Types -> {NoRequest} \cup Download]
      BY <2>2, <2>3
    <3> QED BY <1>0, <1>1, <2>5, <3>1 DEF NapiInv, TypeOK
  <2>7. OneRound' /\ LoadPending' /\ ServerNewest'
    BY <1>1, <2>1, <2>5
    DEF NapiInv, OneRound, LoadPending, Loadable, ServerNewest
  <2>8. RetrySoon'
    BY <1>1, <2>1 DEF RetrySoon
  <2>9. NotBehind'
    BY <1>1, <2>2, <2>4 DEF NotBehind, NoRequest
  <2> QED BY <1>1, <2>6, <2>7, <2>8, <2>9 DEF NapiInv
<1>4. CASE UpdateIdle
  BY <1>0, <1>1, <1>4
  DEF UpdateIdle, agentVars, NapiInv, TypeOK, OneRound, LoadPending, Loadable,
      RetrySoon, NotBehind, ServerNewest
<1> QED BY <1>2, <1>3, <1>4

\* The invariant and the order of the files, for every step of Next.
LEMMA NextStep ==
  ASSUME NapiInv, [Next]_vars
  PROVE  NapiInv' /\ \A t \in Types : disk'[t] >= disk[t]
<1>0. \A t \in Types : disk[t] \in Int
  BY DEF NapiInv, TypeOK, File, NoFile, EmptyFile
<1>1. CASE \/ \E t \in Types : Publish(t)
           \/ IssueToken \/ Clock \/ BootstrapAnswer
           \/ ReloadMessage \/ Stop \/ Joined
  <2>1. UNCHANGED disk
    BY <1>1
    DEF Publish, IssueToken, Clock, BootstrapAnswer, ReloadMessage, Stop,
        Joined, agentVars
  <2> QED BY <1>0, <1>1, <2>1, WorldStep
<1>2. CASE \E t \in Types : Head(t) \/ Get(t)
  <2>1. UNCHANGED disk
    BY <1>2 DEF Head, Get, agentVars
  <2> QED BY <1>0, <1>2, <2>1, RequestStep
<1>3. CASE Update
  BY <1>0, <1>3, DownloadsStep, UpdateStep DEF Update
<1>4. CASE UNCHANGED vars
  BY <1>0, <1>4
  DEF vars, serverVars, managerVars, agentVars, NapiInv, TypeOK, OneRound,
      LoadPending, Loadable, RetrySoon, NotBehind, ServerNewest
<1> QED
  BY <1>1, <1>2, <1>3, <1>4 DEF Next, Request

-----------------------------------------------------------------------------
\* The inductive invariant of the API manager.
THEOREM NapiInvariant == Spec => []NapiInv
<1>1. NapiInv /\ [Next]_vars => NapiInv'
  BY NextStep
<1> QED BY InitInv, <1>1, PTL DEF Spec

\* Every state of the manager, its requests and the files is well typed: no
\* part of a broken transfer is ever installed.
THEOREM NapiTypeCorrect == Spec => []TypeOK
<1>1. NapiInv => TypeOK
  BY DEF NapiInv
<1> QED BY NapiInvariant, <1>1, PTL

\* As long as a file on disk is not loaded, the result that makes Update
\* return true and the instance thread call Reload(false) is waiting.
THEOREM InstalledIsLoaded == Spec => []LoadPending
<1>1. NapiInv => LoadPending
  BY DEF NapiInv
<1> QED BY NapiInvariant, <1>1, PTL

\* Without a token ttl_last_update is 0: ProcessDownloadRequest's answer to
\* 401 and 403 never makes the next download wait for ttl_napi_update.
THEOREM TokenRetried == Spec => []RetrySoon
<1>1. NapiInv => RetrySoon
  BY DEF NapiInv
<1> QED BY NapiInvariant, <1>1, PTL

\* nd_copy_file never replaces a file by an older, broken or empty one.
THEOREM FilesOnlyNewer == Spec => OnlyNewer
<1>1. NapiInv /\ [Next]_vars => [\A t \in Types : disk'[t] >= disk[t]]_vars
  BY NextStep
<1> QED BY NapiInvariant, <1>1, PTL DEF Spec, OnlyNewer
=============================================================================
