---------------------------- MODULE NapiManager ----------------------------
(***************************************************************************)
(* The Netify API manager (nd-napi.cpp) and the reload it triggers.  On    *)
(* every UPDATE_NAPI message the instance thread runs Update(): it keeps   *)
(* one bootstrap request going, which yields the token, and every Ttl      *)
(* starts one download per file.  Each request is a thread of its own and  *)
(* is looked at again only when HasTerminated() is true.  The server       *)
(* publishes new files, replaces tokens and fails at any moment, also      *)
(* between the HEAD and the GET of one download.                           *)
(***************************************************************************)
EXTENDS Integers

CONSTANTS
  Config,      \* REQUEST_DOWNLOAD_CONFIG: the applications file
  Categories,  \* REQUEST_DOWNLOAD_CATEGORIES: the categories file
  Ttl,         \* ttl_napi_update, in ticks of the clock
  MaxVersion,  \* bound: files published by the server
  MaxToken,    \* bound: tokens issued by the server
  MaxFaults    \* bound: failed transfers, copies and thread creations

ASSUME NapiAssumption ==
  /\ Config # Categories
  /\ Ttl \in Nat /\ MaxVersion \in Nat /\ MaxToken \in Nat \ {0}
  /\ MaxFaults \in Nat

Types == {Config, Categories}

NoToken == 0

\* The contents of a file.  What the server publishes is numbered from 0;
\* the order is the order in which a file may be replaced.
Partial == -3
NoFile == -2
EmptyFile == -1

VARIABLES
  \* The server
  version,    \* type -> the file published last
  valid,      \* the token accepted by the server
  faults,     \* faults so far
  \* The request threads
  boot,       \* the bootstrap request
  dl,         \* type -> the download request
  \* The manager
  token, results, age, uptime,
  \* The agent
  disk,       \* type -> contents of the local file
  loaded,     \* type -> contents the agent has loaded
  phase       \* "run", "stop" in api_manager.Terminate(), "gone"

serverVars == <<version, valid, faults>>
managerVars == <<token, results, age, uptime>>
agentVars == <<disk, loaded, phase>>
vars == <<serverVars, boot, dl, managerVars, agentVars>>

-----------------------------------------------------------------------------
\* requests.find(...) == requests.end()
NoRequest == [pc |-> "none"]

\* A bootstrap request: the token granted, or NoToken.
Boot == [pc : {"post"}] \cup [pc : {"ended"}, grant : 0..MaxToken]

\* A download: its token, the digest of the local file when it was made,
\* the last status, and the contents of the temporary file.  Status -1
\* stands for a curl error and for every status that is not handled.
Status == {200, 304, 401, -1}
Contents == {Partial, EmptyFile} \cup 0..MaxVersion
Download == [pc : {"head", "get", "ended"}, token : 1..MaxToken,
             digest : {NoFile, EmptyFile} \cup 0..MaxVersion,
             http : Status, body : Contents]

File == {NoFile, EmptyFile} \cup 0..MaxVersion

TypeOK ==
  /\ version \in [Types -> 0..MaxVersion]
  /\ valid \in 1..MaxToken
  /\ faults \in 0..MaxFaults
  /\ boot \in {NoRequest} \cup Boot
  /\ dl \in [Types -> {NoRequest} \cup Download]
  /\ token \in 0..MaxToken
  /\ results \in [Types -> {"none", "installed", "kept"}]
  /\ age \in 0..(Ttl + 1) /\ uptime \in 0..(Ttl + 1)
  /\ disk \in [Types -> File] /\ loaded \in [Types -> File]
  /\ phase \in {"run", "stop", "gone"}

Init ==
  /\ disk \in [Types -> {NoFile, 0}] /\ loaded = disk
  /\ version = [t \in Types |-> 0] /\ valid = 1 /\ faults = 0
  /\ boot = NoRequest /\ dl = [t \in Types |-> NoRequest]
  /\ token = NoToken /\ results = [t \in Types |-> "none"]
  /\ age = 0 /\ uptime = 0
  /\ phase = "run"

-----------------------------------------------------------------------------
\* The server and the clock.

Publish(t) ==
  /\ version[t] < MaxVersion
  /\ version' = [version EXCEPT ![t] = @ + 1]
  /\ UNCHANGED <<valid, faults, boot, dl, managerVars, agentVars>>

IssueToken ==
  /\ valid < MaxToken
  /\ valid' = valid + 1
  /\ UNCHANGED <<version, faults, boot, dl, managerVars, agentVars>>

\* n faults happen in this step.
Fault(n) == faults + n <= MaxFaults /\ faults' = faults + n

\* Only now > ttl_last_update + Ttl is ever asked, so that the time since
\* the last update and since the clock's zero stop at Ttl + 1.
Later(n) == IF n > Ttl THEN n ELSE n + 1

Clock ==
  /\ uptime <= Ttl \/ age <= Ttl
  /\ uptime' = Later(uptime) /\ age' = Later(age)
  /\ UNCHANGED <<serverVars, boot, dl, token, results, agentVars>>

-----------------------------------------------------------------------------
\* The request threads.

\* ndNetifyApiBootstrap::Entry: whatever keeps ProcessBootstrapRequest from
\* the token (an error, a site provisioned) is a grant of NoToken.
BootstrapAnswer ==
  /\ boot.pc = "post"
  /\ \/ boot' = [pc |-> "ended", grant |-> valid] /\ UNCHANGED faults
     \/ boot' = [pc |-> "ended", grant |-> NoToken] /\ Fault(1)
     \/ phase = "stop" /\ boot' = [pc |-> "ended", grant |-> NoToken]
                       /\ UNCHANGED faults
  /\ UNCHANGED <<version, valid, dl, managerVars, agentVars>>

\* The request is over: HasTerminated().
End(t, http, body) ==
  dl' = [dl EXCEPT ![t].pc = "ended", ![t].http = http, ![t].body = body]

\* A transfer fails: curl_easy_perform returns an error, also because the
\* progress callback saw ShouldTerminate(), or the server answers with a
\* status other than 200, 401 and 403.
TransferFails(t, body) ==
  /\ \/ Fault(1)
     \/ phase = "stop" /\ UNCHANGED faults
  /\ End(t, -1, body)

\* Mutant: a file whose hash the server does not tell is taken as unchanged.
HeadOkHashed(t, hashed) ==
  LET d == dl[t]
  IN  IF d.digest = NoFile THEN End(t, 200, EmptyFile)
      ELSE IF ~hashed \/ version[t] = d.digest THEN End(t, 304, EmptyFile)
      ELSE dl' = [dl EXCEPT ![t].pc = "get"]

\* The hash of the server's file is compared with that of the local file,
\* unless there is no local file.
HeadOk(t, hashed) ==
  LET d == dl[t]
  IN  IF d.digest = NoFile THEN End(t, 200, EmptyFile)
      ELSE IF hashed /\ version[t] = d.digest THEN End(t, 304, EmptyFile)
      ELSE dl' = [dl EXCEPT ![t].pc = "get"]

Head(t) ==
  /\ dl[t].pc = "head"
  /\ \/ /\ dl[t].token = valid
        /\ \E hashed \in BOOLEAN : HeadOk(t, hashed)
        /\ UNCHANGED faults
     \/ dl[t].token # valid /\ End(t, 401, EmptyFile) /\ UNCHANGED faults
     \/ TransferFails(t, EmptyFile)
  /\ UNCHANGED <<version, valid, boot, managerVars, agentVars>>

Get(t) ==
  /\ dl[t].pc = "get"
  /\ \/ dl[t].token = valid /\ End(t, 200, version[t]) /\ UNCHANGED faults
     \/ dl[t].token # valid /\ End(t, 401, Partial) /\ UNCHANGED faults
     \/ TransferFails(t, Partial)
  /\ UNCHANGED <<version, valid, boot, managerVars, agentVars>>

-----------------------------------------------------------------------------
\* The manager, run by the instance thread.

\* ProcessBootstrapRequest: the token the rest of Update works with.
Granted ==
  IF boot.pc = "ended" /\ boot.grant # NoToken THEN boot.grant ELSE token

\* The bootstrap part of Update: an ended request is removed, a missing one
\* created, unless its thread cannot be.
Bootstrap ==
  \/ boot.pc = "ended" /\ boot' = NoRequest
  \/ boot.pc = "none" /\ boot' \in {NoRequest, [pc |-> "post"]}
  \/ boot.pc = "post" /\ UNCHANGED boot

\* boot' is known: the thread of a new bootstrap request was not created.
BootFaults == IF boot.pc = "none" /\ boot' = NoRequest THEN 1 ELSE 0

Active == {t \in Types : dl[t].pc # "none"}
Ended == {t \in Types : dl[t].pc = "ended"}

\* 401 and 403: the token is dropped and ttl_last_update is 0 again.
Rejected == \E t \in Ended : dl[t].http = 401

\* Mutant: ttl_last_update is kept.
AgeKept == age

AgeAfter == IF Rejected THEN uptime ELSE age

\* Mutant: curl_rc is not looked at.
InstallableAny == {t \in Ended : dl[t].http \in {200, -1}}

\* Downloads that ProcessDownloadRequest copies over the local file.
Installable == {t \in Ended : dl[t].http = 200}

\* There are downloads: the ended ones are processed, the copy of those in
\* failed cannot open a file.
UpdateDownloads ==
  /\ phase = "run" /\ Active # {}
  /\ Bootstrap
  /\ \E failed \in SUBSET Installable :
       /\ Fault(BootFaults + (IF failed = {} THEN 0 ELSE 1))
       /\ disk' = [t \in Types |->
                     IF t \in Installable \ failed THEN dl[t].body ELSE disk[t]]
       /\ results' = [t \in Types |->
                        IF t \in Installable \ failed THEN "installed"
                        ELSE IF t \in Ended THEN "kept"
                        ELSE results[t]]
  /\ dl' = [t \in Types |-> IF t \in Ended THEN NoRequest ELSE dl[t]]
  /\ token' = IF Rejected THEN NoToken ELSE Granted
  /\ age' = AgeAfter
  /\ UNCHANGED <<version, valid, uptime, loaded, phase>>

\* ndInstance::Reload.  A missing file is not loaded; an empty file resets
\* the applications, but is no JSON and leaves the categories alone.
Loadable(t) ==
  disk[t] # NoFile /\ (t = Categories => disk[t] # EmptyFile)

Reload ==
  loaded' = [t \in Types |-> IF Loadable(t) THEN disk[t] ELSE loaded[t]]

\* A RELOAD message loads the files too, and leaves the results alone.
ReloadMessage ==
  /\ phase = "run"
  /\ Reload
  /\ UNCHANGED <<serverVars, boot, dl, managerVars, disk, phase>>

HaveResults == \E t \in Types : results[t] # "none"

\* Mutant: the reload waits for a round in which every file is new.
ReloadDueAll == \A t \in Types : results[t] = "installed"

\* Whether Update returns true.
ReloadDue == \E t \in Types : results[t] = "installed"

\* All downloads are over: their results are counted and forgotten, and no
\* download is started before the next Update.
UpdateResults ==
  /\ phase = "run" /\ Active = {} /\ HaveResults
  /\ Bootstrap /\ Fault(BootFaults)
  /\ token' = Granted
  /\ results' = [t \in Types |-> "none"]
  /\ IF ReloadDue THEN Reload ELSE UNCHANGED loaded
  /\ UNCHANGED <<version, valid, dl, age, uptime, disk, phase>>

Due == Granted # NoToken /\ age > Ttl

\* ndNetifyApiDownload::ndNetifyApiDownload
NewDownload(t) ==
  [pc |-> "head", token |-> Granted, digest |-> disk[t],
   http |-> -1, body |-> EmptyFile]

\* The threads of the downloads in failed cannot be created.
UpdateStart ==
  /\ phase = "run" /\ Active = {} /\ ~HaveResults /\ Due
  /\ Bootstrap
  /\ \E failed \in SUBSET Types :
       /\ Fault(BootFaults + (IF failed = {} THEN 0 ELSE 1))
       /\ dl' = [t \in Types |->
                   IF t \in failed THEN NoRequest ELSE NewDownload(t)]
  /\ token' = Granted /\ age' = 0
  /\ UNCHANGED <<version, valid, results, uptime, agentVars>>

UpdateIdle ==
  /\ phase = "run" /\ Active = {} /\ ~HaveResults /\ ~Due
  /\ Bootstrap /\ Fault(BootFaults)
  /\ token' = Granted
  /\ UNCHANGED <<version, valid, dl, results, age, uptime, agentVars>>

Update == UpdateDownloads \/ UpdateResults \/ UpdateStart \/ UpdateIdle

-----------------------------------------------------------------------------
\* The instance thread has ended: api_manager.Terminate() asks all requests
\* to terminate, and joins and deletes each.

Stop ==
  /\ phase = "run" /\ phase' = "stop"
  /\ UNCHANGED <<serverVars, boot, dl, managerVars, disk, loaded>>

Joined ==
  /\ phase = "stop"
  /\ boot.pc # "post" /\ \A t \in Types : dl[t].pc \in {"none", "ended"}
  /\ phase' = "gone"
  /\ boot' = NoRequest /\ dl' = [t \in Types |-> NoRequest]
  /\ UNCHANGED <<serverVars, managerVars, disk, loaded>>

Request == BootstrapAnswer \/ \E t \in Types : Head(t) \/ Get(t)

Next ==
  \/ \E t \in Types : Publish(t)
  \/ IssueToken \/ Clock
  \/ Request
  \/ Update \/ ReloadMessage
  \/ Stop \/ Joined

Spec == Init /\ [][Next]_vars

\* The clock and the timer of UPDATE_NAPI go on, and curl ends every
\* transfer within CURLOPT_TIMEOUT.
FairSpec ==
  /\ Spec
  /\ WF_vars(Clock) /\ WF_vars(Update) /\ WF_vars(Joined)
  /\ WF_vars(BootstrapAnswer)
  /\ \A t \in Types : WF_vars(Head(t) \/ Get(t))

-----------------------------------------------------------------------------
\* A file that was installed is loaded: as long as the agent runs with
\* something else than what is on disk, the result that makes Update ask
\* for the reload is waiting in download_results.
LoadPending ==
  \A t \in Types :
    Loadable(t) /\ disk[t] # loaded[t] => results[t] = "installed"

\* An agent without a token does not wait for ttl_napi_update when it gets
\* one: ttl_last_update is 0 whenever the token is empty.
RetrySoon == token = NoToken => age = uptime

\* A local file is only ever replaced by a newer one the server sent whole:
\* never by the rest of a broken transfer, never by an older file, and by
\* an empty one only when there was no file.
OnlyNewer == [][\A t \in Types : disk'[t] >= disk[t]]_vars

\* When the server has published its last file, issued its last token and
\* the faults have ended, the agent runs with the files of the server, from
\* any start, also without any local file.
Converges ==
  <>[](phase # "run" \/ \A t \in Types : loaded[t] = version[t])
=============================================================================
