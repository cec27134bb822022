----------------------------- MODULE GuiSession -----------------------------
(***************************************************************************)
(* A session of the GUI: the controller (apps/crossscp-gui/qml/Main.qml),  *)
(* the remote pane (cpp/RemoteFileModel.cpp) and, as far as they matter    *)
(* here, the tunnel (TunnelService) and the transfer queue, which serves   *)
(* its jobs one at a time in their order (SerialTransferQueue).            *)
(*                                                                         *)
(* The pane keeps connection fields of its own and the controller keeps    *)
(* another copy, the active session.  The pane lists, checks and deletes;  *)
(* transfers are queued for the active session.  What an address of either *)
(* stands for is decided when it is used: a local port leads wherever the  *)
(* tunnel leads at that time.                                              *)
(*                                                                         *)
(* A click and the blocking commands it runs are one action.  A command    *)
(* that fails, for whatever reason, is a choice.  Fields are complete if   *)
(* host and user are filled in.  Paths are left out: a destination is one  *)
(* of a few names, the same in every folder that is opened.                *)
(***************************************************************************)
EXTENDS Naturals, Sequences

CONSTANTS
  Hosts,         \* the servers
  LocalPorts,    \* local addresses a tunnel can listen on
  Nowhere,       \* an empty host field, no host
  Names,         \* the destinations of transfers
  Batches,       \* the selections the user transfers: entries of one folder,
                 \* each ticked once, so that no two have one name
  MaxJobs,       \* bound: how many transfers are ever queued
  Answers,       \* bound: the buttons of the overwrite prompt that are used
  Circumstances  \* what may happen in a run, see below

(***************************************************************************)
(* cancel   the Site Manager may be closed without a connection            *)
(* tunnel   sessions may use a tunnel                                      *)
(* scp      sessions may use SCP, which cannot look at the remote side     *)
(* overlap  things may be done while transfers wait or run                 *)
(* others   somebody else may write to the servers                         *)
(***************************************************************************)
AllCircumstances == {"cancel", "tunnel", "scp", "overlap", "others"}

ASSUME ConstantsAssumption ==
  /\ Hosts \cap LocalPorts = {}
  /\ Nowhere \notin Hosts \cup LocalPorts
  /\ MaxJobs \in Nat
  /\ Batches \subseteq Seq(Names)
  /\ \A batch \in Batches : \A i, j \in DOMAIN batch : i # j => batch[i] # batch[j]
  /\ Answers \subseteq {"keep-existing", "replace", "keep-both"}
  /\ Circumstances \subseteq AllCircumstances

VARIABLES
  pane,        \* RemoteFileModel: address, scp, complete, connected, shown
  active,      \* activeHost and its fellows: address, scp, complete
  tunnel,      \* see TunnelService
  dialog,      \* the modal dialog that is open
  pendingUploads,    \* pendingUploads
  pendingDownloads,  \* pendingDownloads
  conflicting,       \* conflictingUploadPaths, conflictingDownloadPaths
  isDownload,        \* pendingConflictIsDownload
  jobs,        \* the transfers waiting, the first one running
  serving,     \* the host the first one talks to, once it has found it
  nextId,      \* how many transfers have been queued
  remote,      \* what is at each destination of each server
  local        \* what is at each local destination

sessionVars == <<pane, active, tunnel, dialog>>
pendingVars == <<pendingUploads, pendingDownloads, conflicting, isDownload>>
queueVars   == <<jobs, serving, nextId>>
fileVars    == <<remote, local>>
vars        == <<sessionVars, pendingVars, queueVars, fileVars>>

Tunnel == INSTANCE TunnelService

-----------------------------------------------------------------------------

Ids == 1..MaxJobs

\* What is at a destination: nothing, what job i wrote, or something else.
Absent == 0
Theirs == MaxJobs + 1
Contents == 0..(MaxJobs + 1)

Addresses == Hosts \cup LocalPorts \cup {Nowhere}

Policies == {"none"} \cup Answers

\* What a job needs to run, and for the properties the address and the host
\* of the pane it was asked for in.
Job == [id : Ids, upload : BOOLEAN, name : Names, policy : Policies,
        address : Addresses, scp : BOOLEAN,
        via : Addresses, shown : Hosts \cup {Nowhere}]

TypeOK ==
  /\ pane \in [address : Addresses, scp : BOOLEAN, complete : BOOLEAN,
               connected : BOOLEAN, shown : Hosts \cup {Nowhere}]
  /\ active \in [address : Addresses, scp : BOOLEAN, complete : BOOLEAN]
  /\ tunnel \in Tunnel!Tunnels
  /\ dialog \in {"none", "sites", "overwrite"}
  /\ pendingUploads \in Seq(Names) /\ pendingDownloads \in Seq(Names)
  /\ conflicting \subseteq Names
  /\ isDownload \in BOOLEAN
  /\ jobs \in Seq(Job)
  /\ serving \in Hosts \cup {Nowhere}
  /\ nextId \in 0..MaxJobs
  /\ remote \in [Hosts -> [Names -> Contents]]
  /\ local \in [Names -> Contents]

Init ==
  /\ pane = [address |-> Nowhere, scp |-> FALSE, complete |-> FALSE,
             connected |-> FALSE, shown |-> Nowhere]
  /\ active = [address |-> Nowhere, scp |-> FALSE, complete |-> FALSE]
  /\ Tunnel!Init
  /\ dialog = "none"
  /\ pendingUploads = <<>> /\ pendingDownloads = <<>>
  /\ conflicting = {}
  /\ isDownload = FALSE
  /\ jobs = <<>>
  /\ serving = Nowhere
  /\ nextId = 0
  /\ remote \in [Hosts -> [Names -> {Absent, Theirs}]]
  /\ local \in [Names -> {Absent, Theirs}]

\* The host an address stands for.
HostOf(address) ==
  IF address \in LocalPorts
  THEN IF tunnel.port = address THEN tunnel.host ELSE Nowhere
  ELSE address

\* Does a connection to the address arrive?
Arrives(address) ==
  /\ HostOf(address) # Nowhere
  /\ address \in LocalPorts => tunnel.phase = "forwarding"

-----------------------------------------------------------------------------
(***************************************************************************)
(* Connecting.                                                             *)
(***************************************************************************)
OpenSiteManager ==
  /\ dialog = "none"
  /\ dialog' = "sites"
  /\ UNCHANGED <<pane, active, tunnel, pendingVars, queueVars, fileVars>>

CloseSiteManager ==
  /\ "cancel" \in Circumstances
  /\ dialog = "sites"
  /\ dialog' = "none"
  /\ UNCHANGED <<pane, active, tunnel, pendingVars, queueVars, fileVars>>

\* connectPassword and connectKey set connected_ before the first listing.
PaneConnected(address, scp, complete, shown) ==
  [address |-> address, scp |-> scp, complete |-> complete,
   connected |-> TRUE, shown |-> shown]

MayBeScp == IF "scp" \in Circumstances THEN BOOLEAN ELSE {FALSE}

\* A protocol the authentication does not support, an empty password or key.
PaneRejects(address, scp, complete) ==
  pane' = [pane EXCEPT !.address = address, !.scp = scp,
                       !.complete = complete, !.connected = FALSE]

\* Fields without a user: refresh returns before it lists or clears.
PaneUnlisted(address) ==
  pane' = PaneConnected(address, FALSE, FALSE, pane.shown)

\* Faulty variant of PaneListFails: the old rows stay.
PaneKeepsRows(address) ==
  pane' = PaneConnected(address, FALSE, TRUE, pane.shown)

\* The result is the error text: a command that fails without one, because it
\* was killed, passes for a success.
PaneListFails(address) ==
  pane' = PaneConnected(address, FALSE, TRUE, Nowhere)

PaneLists(address, host) ==
  pane' = PaneConnected(address, FALSE, TRUE, host)

PaneTransferOnly(address, complete) ==
  pane' = PaneConnected(address, TRUE, complete, Nowhere)

SessionOpened(address, scp, complete) ==
  /\ active' = [address |-> address, scp |-> scp, complete |-> complete]
  /\ dialog' = "none"

\* Faulty variant of SessionNotOpened: the dialog is closed all the same.
SessionNotOpenedButClosed == active' = active /\ dialog' = "none"

SessionNotOpened == UNCHANGED <<active, dialog>>

\* Connect without starting a tunnel.  In the mode "Use existing local tunnel"
\* the address is a local port, which may be that of the application's tunnel.
\* A tunnel of the user's own is a server like any other.
ConnectDirectly(address) ==
  /\ dialog = "sites"
  /\ address \in LocalPorts => "tunnel" \in Circumstances
  /\ \/ /\ \/ \E scp \in MayBeScp, complete \in BOOLEAN : PaneRejects(address, scp, complete)
           \/ PaneUnlisted(address)
           \/ PaneListFails(address)
        /\ SessionNotOpened
     \/ /\ \/ Arrives(address) /\ PaneLists(address, HostOf(address))
           \/ PaneListFails(address)
        /\ SessionOpened(address, FALSE, TRUE)
     \/ /\ "scp" \in Circumstances
        /\ \E complete \in BOOLEAN : /\ PaneTransferOnly(address, complete)
                                     /\ SessionOpened(address, TRUE, complete)
  /\ UNCHANGED <<tunnel, pendingVars, queueVars, fileVars>>

(***************************************************************************)
(* Connect through a tunnel the application starts.  If the tunnel does    *)
(* not start the pane is not asked to connect; if the pane does not        *)
(* connect the tunnel is stopped.  Either way the tunnel of the session    *)
(* before is gone.  (A start refused for a missing field changes nothing.) *)
(***************************************************************************)
ConnectThroughTunnel(port, host) ==
  /\ "tunnel" \in Circumstances
  /\ dialog = "sites"
  /\ \/ /\ Tunnel!Stop
        /\ UNCHANGED pane
        /\ SessionNotOpened
     \/ /\ Tunnel!Stop
        /\ \/ \E scp \in MayBeScp, complete \in BOOLEAN : PaneRejects(port, scp, complete)
           \/ PaneUnlisted(port)
           \/ PaneListFails(port)
        /\ SessionNotOpened
     \/ /\ Tunnel!Start(port, host)
        /\ \/ tunnel'.phase = "forwarding" /\ PaneLists(port, host)
           \/ PaneListFails(port)
        /\ SessionOpened(port, FALSE, TRUE)
     \/ /\ "scp" \in Circumstances
        /\ Tunnel!Start(port, host)
        /\ \E complete \in BOOLEAN : /\ PaneTransferOnly(port, complete)
                                     /\ SessionOpened(port, TRUE, complete)
  /\ UNCHANGED <<pendingVars, queueVars, fileVars>>

JobsAfterDisconnect == <<>>

\* The host of the active session is cleared, the protocol is not.
Disconnect ==
  /\ dialog = "none"
  /\ pane.connected
  /\ pane' = [address |-> Nowhere, scp |-> FALSE, complete |-> FALSE,
              connected |-> FALSE, shown |-> Nowhere]
  /\ Tunnel!Stop
  /\ active' = [active EXCEPT !.address = Nowhere, !.complete = FALSE]
  /\ jobs' = JobsAfterDisconnect
  /\ serving' = Nowhere
  /\ UNCHANGED <<dialog, pendingVars, nextId, fileVars>>

\* The tunnel gets through, or ends by itself.
TunnelChanges ==
  /\ Tunnel!Forward \/ Tunnel!End
  /\ UNCHANGED <<pane, active, dialog, pendingVars, queueVars, fileVars>>

-----------------------------------------------------------------------------
(***************************************************************************)
(* The remote pane.                                                        *)
(***************************************************************************)

\* refresh, also after a command of the pane or an upload of the queue.
Refresh ==
  pane' \in
    {[pane EXCEPT !.shown = host] :
       host \in IF pane.scp THEN {Nowhere}
                ELSE IF pane.address = Nowhere \/ ~pane.complete THEN {pane.shown}
                ELSE IF Arrives(pane.address) THEN {Nowhere, HostOf(pane.address)}
                ELSE {Nowhere}}

\* Refresh, Up, a folder that is opened, a path that is typed.
Browse ==
  /\ dialog = "none"
  /\ Refresh
  /\ UNCHANGED <<active, tunnel, dialog, pendingVars, queueVars, fileVars>>

\* createDirectory and deletePath, when their command succeeds.
PaneCommandRuns ==
  /\ pane.connected
  /\ ~pane.scp
  /\ pane.complete
  /\ Arrives(pane.address)

PaneCommand ==
  /\ dialog = "none"
  /\ "overlap" \in Circumstances \/ jobs = <<>>
  /\ PaneCommandRuns
  /\ \E name \in Names :
       \/ /\ remote[HostOf(pane.address)][name] = Absent
          /\ remote' = [remote EXCEPT ![HostOf(pane.address)][name] = Theirs]
       \/ remote' = [remote EXCEPT ![HostOf(pane.address)][name] = Absent]
  /\ Refresh
  /\ UNCHANGED <<active, tunnel, dialog, pendingVars, queueVars, local>>

-----------------------------------------------------------------------------
(***************************************************************************)
(* Transfers.                                                              *)
(***************************************************************************)

MayTransfer ==
  /\ dialog = "none"
  /\ pane.connected
  /\ "overlap" \in Circumstances \/ jobs = <<>>

\* The jobs of a batch, for the active session.
Queued(batch, upload, policy) ==
  [i \in 1..Len(batch) |->
     [id |-> nextId + i, upload |-> upload, name |-> batch[i], policy |-> policy,
      address |-> active.address, scp |-> active.scp,
      via |-> pane.address, shown |-> HostOf(pane.address)]]

\* queuePendingUploads and queuePendingDownloads.  The queue refuses each
\* transfer of a session without host or user.
QueuePending(batch, upload, policy) ==
  /\ IF active.address = Nowhere \/ ~active.complete
     THEN UNCHANGED <<jobs, nextId>>
     ELSE /\ nextId + Len(batch) <= MaxJobs
          /\ jobs' = jobs \o Queued(batch, upload, policy)
          /\ nextId' = nextId + Len(batch)
  /\ UNCHANGED serving

NamesIn(batch) == {batch[i] : i \in DOMAIN batch}

\* Faulty variant of RemoteConflicts: the check looks at nothing.
NoConflicts(batch) == {}

\* entryStatus of the remote pane; SCP answers that there is nothing.
RemoteConflicts(batch) ==
  IF pane.scp THEN {}
  ELSE {name \in NamesIn(batch) : remote[HostOf(pane.address)][name] # Absent}

LocalConflicts(batch) == {name \in NamesIn(batch) : local[name] # Absent}

\* Faulty variant of BatchDone: the question is still about downloads.
StillDownload(upload) ==
  /\ IF upload THEN pendingUploads' = <<>> /\ UNCHANGED pendingDownloads
               ELSE pendingDownloads' = <<>> /\ UNCHANGED pendingUploads
  /\ UNCHANGED <<conflicting, isDownload>>

\* The end of queuePendingUploads and of queuePendingDownloads.
BatchDone(upload) ==
  /\ IF upload THEN pendingUploads' = <<>> /\ UNCHANGED pendingDownloads
               ELSE pendingDownloads' = <<>> /\ UNCHANGED pendingUploads
  /\ conflicting' = {}
  /\ isDownload' = FALSE

\* Without a conflict the batch is queued at once, with no policy.
QueueOrAsk(batch, upload, conflicts) ==
  IF conflicts = {}
  THEN /\ QueuePending(batch, upload, "none")
       /\ BatchDone(upload)
       /\ UNCHANGED dialog
  ELSE /\ dialog' = "overwrite"
       /\ conflicting' = conflicts
       /\ isDownload' = ~upload
       /\ IF upload
          THEN pendingUploads' = batch /\ UNCHANGED pendingDownloads
          ELSE pendingDownloads' = batch /\ UNCHANGED pendingUploads
       /\ UNCHANGED queueVars

\* A check that fails ends performUpload.
PerformUpload(batch) ==
  /\ MayTransfer
  /\ pane.scp \/ (pane.complete /\ Arrives(pane.address))
  /\ QueueOrAsk(batch, TRUE, RemoteConflicts(batch))
  /\ UNCHANGED <<pane, active, tunnel, fileVars>>

PerformDownload(batch) ==
  /\ MayTransfer
  /\ QueueOrAsk(batch, FALSE, LocalConflicts(batch))
  /\ UNCHANGED <<pane, active, tunnel, fileVars>>

\* A button of overwritePromptDialog.
AnswerPrompt(policy) ==
  /\ dialog = "overwrite"
  /\ IF isDownload THEN QueuePending(pendingDownloads, FALSE, policy)
                   ELSE QueuePending(pendingUploads, TRUE, policy)
  /\ BatchDone(~isDownload)
  /\ dialog' = "none"
  /\ UNCHANGED <<pane, active, tunnel, fileVars>>

CancelPrompt ==
  /\ dialog = "overwrite"
  /\ pendingUploads' = <<>> /\ pendingDownloads' = <<>>
  /\ conflicting' = {}
  /\ isDownload' = FALSE
  /\ dialog' = "none"
  /\ UNCHANGED <<pane, active, tunnel, queueVars, fileVars>>

-----------------------------------------------------------------------------
(***************************************************************************)
(* The running transfer.  What it does with its destination is modelled    *)
(* from the command line program: an existing one is written over without  *)
(* a policy or with Replace, skipped with Keep existing, and with Keep     *)
(* both a free name is used, which is none of Names.                       *)
(***************************************************************************)

Writes(policy, content) == content = Absent \/ policy \in {"none", "replace"}

\* What a transfer leaves at a destination of the given name.
Outcome(job, content) ==
  IF job.policy # "keep-both" /\ Writes(job.policy, content) THEN job.id ELSE content

\* The running transfer has found its server and treats its destination.
TransferBegins ==
  LET job  == Head(jobs)
      host == HostOf(job.address)
  IN /\ jobs # <<>>
     /\ serving = Nowhere
     /\ Arrives(job.address)
     /\ job.scp /\ job.upload => job.policy \notin {"keep-existing", "keep-both"}
     /\ serving' = host
     /\ IF job.upload
        THEN /\ remote' = [remote EXCEPT ![host][job.name] = Outcome(job, @)]
             /\ UNCHANGED local
        ELSE /\ local' = [local EXCEPT ![job.name] = Outcome(job, @)]
             /\ UNCHANGED remote
     /\ UNCHANGED <<sessionVars, pendingVars, jobs, nextId>>

\* onTransferCompleted refreshes the pane of the destination.
TransferCompletes ==
  /\ serving # Nowhere
  /\ jobs' = Tail(jobs)
  /\ serving' = Nowhere
  /\ IF Head(jobs).upload THEN Refresh ELSE UNCHANGED pane
  /\ UNCHANGED <<active, tunnel, dialog, pendingVars, nextId, fileVars>>

\* onTransferFailed, before or after the transfer has begun.
TransferFails ==
  /\ jobs # <<>>
  /\ jobs' = Tail(jobs)
  /\ serving' = Nowhere
  /\ UNCHANGED <<sessionVars, pendingVars, nextId, fileVars>>

\* Somebody else writes to a server.
OthersWrite ==
  /\ "others" \in Circumstances
  /\ \E host \in Hosts, name \in Names :
       /\ remote[host][name] = Absent
       /\ remote' = [remote EXCEPT ![host][name] = Theirs]
  /\ UNCHANGED <<sessionVars, pendingVars, queueVars, local>>

Next ==
  \/ OpenSiteManager
  \/ CloseSiteManager
  \/ \E address \in Hosts \cup LocalPorts : ConnectDirectly(address)
  \/ \E port \in LocalPorts, host \in Hosts : ConnectThroughTunnel(port, host)
  \/ Disconnect
  \/ TunnelChanges
  \/ Browse
  \/ PaneCommand
  \/ \E batch \in Batches : PerformUpload(batch) \/ PerformDownload(batch)
  \/ \E policy \in Answers : AnswerPrompt(policy)
  \/ CancelPrompt
  \/ TransferBegins
  \/ TransferCompletes
  \/ TransferFails
  \/ OthersWrite

Spec == Init /\ [][Next]_vars

-----------------------------------------------------------------------------
(***************************************************************************)
(* Safety.                                                                 *)
(***************************************************************************)

\* Rows on display are those of the host a command of the pane goes to, or the
\* command goes nowhere: no refresh, late or failed, no reconnect and no tunnel
\* that is led elsewhere shows one host while Delete means another.
PaneShowsItsHost ==
  pane.connected /\ pane.complete /\ pane.shown # Nowhere =>
    HostOf(pane.address) \in {pane.shown, Nowhere}

\* The overwrite prompt is about one pending batch, in the direction it is
\* about to queue, and a batch is pending only while the prompt is open.
PromptIsAboutPending ==
  IF dialog = "overwrite"
  THEN LET batch == IF isDownload THEN pendingDownloads ELSE pendingUploads
           other == IF isDownload THEN pendingUploads ELSE pendingDownloads
       IN /\ conflicting # {} /\ conflicting \subseteq NamesIn(batch)
          /\ other = <<>>
  ELSE pendingUploads = <<>> /\ pendingDownloads = <<>> /\ conflicting = {}

\* The pane, which is asked about conflicts, and the active session, which
\* gets the transfers, have the same address, if the Site Manager is left by
\* connecting only.
AsksTheRightHost ==
  "cancel" \notin Circumstances /\ dialog # "sites" /\ pane.connected =>
    pane.address = active.address /\ pane.scp = active.scp

\* Every transfer talks to the host that was shown when the user asked for it,
\* on the same condition, unless it goes through a tunnel, which may have been
\* led elsewhere in the meantime.
TransfersReachTheirHost ==
  "cancel" \notin Circumstances /\ serving # Nowhere =>
    serving = Head(jobs).shown \/ Head(jobs).via \in LocalPorts

\* No transfer outlives its session: none waits while no session is active.
NoTransferWithoutSession == jobs # <<>> => active.address # Nowhere

\* What a transfer does to a destination that was not free.
Replaced(before, after) == before # Absent /\ after \in Ids /\ after # before

ReplacesUploads ==
  \E name \in Names, host \in Hosts : Replaced(remote[host][name], remote'[host][name])

ReplacesDownloads == \E name \in Names : Replaced(local[name], local'[name])

\* A transfer replaces something only if the user chose Replace, whatever was
\* connected, disconnected, browsed and created between the check and the
\* transfer.  Uploads through SCP cannot be checked; the other circumstances
\* are out of the question.
NothingReplacedUnasked ==
  [][Circumstances \subseteq {"scp"} =>
       /\ ReplacesUploads => Head(jobs).policy = "replace" \/ Head(jobs).scp
       /\ ReplacesDownloads => Head(jobs).policy = "replace"]_vars

(***************************************************************************)
(* What the program says of itself and does not keep.                      *)
(***************************************************************************)

\* "Resolve upload conflicts by keeping the existing file, replacing it, or
\* keeping both": an upload replaces something only if that was chosen.
UploadConflictsResolved == [][ReplacesUploads => Head(jobs).policy = "replace"]_vars

\* "An item named ... already exists at the destination": the host asked about
\* conflicts is the one the uploads are queued for.
PromptSpeaksOfDestination ==
  dialog = "overwrite" /\ ~isDownload => pane.address = active.address

=============================================================================
