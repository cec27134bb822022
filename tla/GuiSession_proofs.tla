------------------------ MODULE GuiSession_proofs ------------------------
(***************************************************************************)
(* Theorems about a session of the GUI.  The inductive invariant is the    *)
(* conjunction of the invariants the runs check with four more facts:      *)
(*                                                                         *)
(*   ServingFirst     only a transfer that is queued runs, so the queue    *)
(*                    can be shortened when it ends;                       *)
(*   PromptNeedsPane  the prompt is open only while the pane is connected, *)
(*                    so that its answer queues for the host it was about; *)
(*   JobsAsked        each queued transfer has the address and the host of *)
(*                    the pane it was asked for in, which is what makes it *)
(*                    reach that host when its turn comes;                 *)
(*   JobsFindNothing  when the user is alone and waits for the transfers,  *)
(*                    nothing is at the destination of a transfer that was *)
(*                    queued without asking, until that transfer begins,   *)
(*                    which is what makes NothingReplacedUnasked hold.     *)
(*                                                                         *)
(* The parts are shown one after the other, each from those before it.     *)
(***************************************************************************)
EXTENDS GuiSession, SequenceTheorems, TLAPS

Shown == Hosts \cup {Nowhere}

Panes == [address : Addresses, scp : BOOLEAN, complete : BOOLEAN,
          connected : BOOLEAN, shown : Shown]

Actives == [address : Addresses, scp : BOOLEAN, complete : BOOLEAN]

SessionTypes ==
  /\ pane \in Panes
  /\ active \in Actives
  /\ tunnel \in Tunnel!Tunnels
  /\ dialog \in {"none", "sites", "overwrite"}

PendingTypes ==
  /\ pendingUploads \in Seq(Names) /\ pendingDownloads \in Seq(Names)
  /\ conflicting \subseteq Names
  /\ isDownload \in BOOLEAN

QueueTypes ==
  /\ jobs \in Seq(Job)
  /\ serving \in Shown
  /\ nextId \in 0..MaxJobs

FileTypes ==
  /\ remote \in [Hosts -> [Names -> Contents]]
  /\ local \in [Names -> Contents]

ServingFirst == serving # Nowhere => jobs # <<>>

Types == SessionTypes /\ PendingTypes /\ QueueTypes /\ FileTypes /\ ServingFirst

LEMMA TypesAreTypeOK == Types => TypeOK
BY DEF Types, SessionTypes, PendingTypes, QueueTypes, FileTypes, TypeOK, Panes, Actives, Shown

-----------------------------------------------------------------------------
(***************************************************************************)
(* Addresses.                                                              *)
(***************************************************************************)

\* An address stands for a host or for none.
LEMMA HostOfType ==
  ASSUME SessionTypes, NEW address \in Addresses
  PROVE  /\ HostOf(address) \in Shown
         /\ address \notin LocalPorts => HostOf(address) = address
<1>1. tunnel.host \in Shown
  BY DEF SessionTypes, Tunnel!Tunnels, Tunnel!NoTunnel, Shown
<1> QED
  BY <1>1 DEF HostOf, Addresses, Shown

LEMMA ArrivesAtHost ==
  ASSUME SessionTypes, NEW address \in Addresses, Arrives(address)
  PROVE  HostOf(address) \in Hosts
BY HostOfType DEF Arrives, Shown

\* A refresh changes the rows only: to none, to those of the host the pane's
\* address stands for, or not at all if the pane's fields are incomplete.
LEMMA RefreshChangesRows ==
  ASSUME SessionTypes, Refresh
  PROVE  /\ pane' \in Panes
         /\ pane'.address = pane.address /\ pane'.scp = pane.scp
         /\ pane'.complete = pane.complete /\ pane'.connected = pane.connected
         /\ \/ pane'.shown \in {Nowhere, HostOf(pane.address)}
            \/ pane'.shown = pane.shown
<1>1. pane \in Panes /\ pane.address \in Addresses /\ pane.shown \in Shown
  BY DEF SessionTypes, Panes
<1>2. HostOf(pane.address) \in Shown
  BY <1>1, HostOfType
<1>3. PICK host \in {Nowhere, HostOf(pane.address), pane.shown} :
        pane' = [pane EXCEPT !.shown = host]
  BY DEF Refresh
<1>4. host \in Shown
  BY <1>1, <1>2, <1>3 DEF Shown
<1> QED
  BY <1>1, <1>3, <1>4 DEF Panes

LEMMA PaneConnectedType ==
  ASSUME NEW address \in Addresses, NEW scp \in BOOLEAN, NEW complete \in BOOLEAN,
         NEW shown \in Shown
  PROVE  PaneConnected(address, scp, complete, shown) \in Panes
BY DEF PaneConnected, Panes

\* What a tunnel does leaves a tunnel.
LEMMA TunnelType ==
  ASSUME SessionTypes,
         \/ Tunnel!Stop
         \/ Tunnel!Forward
         \/ Tunnel!End
         \/ \E port \in LocalPorts, host \in Hosts : Tunnel!Start(port, host)
  PROVE  tunnel' \in Tunnel!Tunnels
<1>1. CASE Tunnel!Stop
  BY <1>1 DEF Tunnel!Stop, Tunnel!Tunnels
<1>2. CASE Tunnel!Forward
  BY <1>2 DEF SessionTypes, Tunnel!Forward, Tunnel!Tunnels, Tunnel!NoTunnel
<1>3. CASE Tunnel!End
  BY <1>3 DEF SessionTypes, Tunnel!End, Tunnel!Tunnels, Tunnel!NoTunnel
<1>4. CASE \E port \in LocalPorts, host \in Hosts : Tunnel!Start(port, host)
  BY <1>4 DEF Tunnel!Start, Tunnel!Tunnels
<1> QED
  BY <1>1, <1>2, <1>3, <1>4

-----------------------------------------------------------------------------
(***************************************************************************)
(* The queue.                                                              *)
(***************************************************************************)

LEMMA QueuedType ==
  ASSUME SessionTypes, QueueTypes,
         NEW batch \in Seq(Names), NEW upload \in BOOLEAN, NEW policy \in Policies,
         nextId + Len(batch) <= MaxJobs
  PROVE  Queued(batch, upload, policy) \in Seq(Job)
<1>1. nextId \in Nat /\ Len(batch) \in Nat /\ MaxJobs \in Nat
  BY ConstantsAssumption DEF QueueTypes
<1>2. pane.address \in Addresses /\ active.address \in Addresses /\ active.scp \in BOOLEAN
  BY DEF SessionTypes, Panes, Actives
<1>3. HostOf(pane.address) \in Hosts \cup {Nowhere}
  BY <1>2, HostOfType DEF Shown
<1>4. ASSUME NEW i \in 1..Len(batch)
      PROVE  Queued(batch, upload, policy)[i] \in Job
  <2>1. nextId + i \in Ids
    BY <1>1 DEF Ids
  <2>2. batch[i] \in Names
    OBVIOUS
  <2> QED
    BY <1>2, <1>3, <2>1, <2>2 DEF Queued, Job
<1>5. Queued(batch, upload, policy) = [i \in 1..Len(batch) |-> Queued(batch, upload, policy)[i]]
  BY DEF Queued
<1> HIDE DEF Queued
<1> QED
  BY <1>1, <1>4, <1>5

\* What queueing a batch does to the queue: the jobs before stay where they
\* are, the new ones have the address and the host the pane has now.
LEMMA QueuePendingEffect ==
  ASSUME SessionTypes, QueueTypes,
         NEW batch \in Seq(Names), NEW upload \in BOOLEAN, NEW policy \in Policies,
         QueuePending(batch, upload, policy)
  PROVE  /\ jobs' \in Seq(Job) /\ nextId' \in 0..MaxJobs
         /\ serving' = serving
         /\ jobs # <<>> => jobs' # <<>> /\ Head(jobs') = Head(jobs)
         /\ jobs' # jobs => active.address # Nowhere
         /\ \A i \in DOMAIN jobs' :
              \/ i \in DOMAIN jobs /\ jobs'[i] = jobs[i]
              \/ /\ jobs'[i].address = active.address
                 /\ jobs'[i].via = pane.address
                 /\ jobs'[i].shown = HostOf(pane.address)
<1>1. CASE active.address = Nowhere \/ ~active.complete
  BY <1>1 DEF QueuePending, QueueTypes
<1>2. CASE ~(active.address = Nowhere \/ ~active.complete)
  <2> DEFINE added == Queued(batch, upload, policy)
  <2>1. /\ nextId + Len(batch) <= MaxJobs
        /\ jobs' = jobs \o added
        /\ nextId' = nextId + Len(batch)
        /\ serving' = serving
    BY <1>2 DEF QueuePending
  <2>2. added \in Seq(Job)
    BY <2>1, QueuedType
  <2>3. \A i \in 1..Len(added) : /\ added[i].address = active.address
                                 /\ added[i].via = pane.address
                                 /\ added[i].shown = HostOf(pane.address)
    BY <2>2 DEF Queued
  <2> HIDE DEF added
  <2>4. jobs \in Seq(Job) /\ nextId \in Nat /\ MaxJobs \in Nat
    BY ConstantsAssumption DEF QueueTypes
  <2>5. jobs' \in Seq(Job) /\ Len(jobs') = Len(jobs) + Len(added)
    BY <2>1, <2>2, <2>4
  <2>6. \A i \in 1..Len(jobs') :
          IF i <= Len(jobs) THEN jobs'[i] = jobs[i] ELSE jobs'[i] = added[i - Len(jobs)]
    BY <2>1, <2>2, <2>4
  <2>7. ASSUME NEW i \in DOMAIN jobs'
        PROVE  \/ i \in DOMAIN jobs /\ jobs'[i] = jobs[i]
               \/ /\ jobs'[i].address = active.address
                  /\ jobs'[i].via = pane.address
                  /\ jobs'[i].shown = HostOf(pane.address)
    <3>1. i \in 1..Len(jobs) + Len(added) /\ Len(jobs) \in Nat /\ Len(added) \in Nat
      BY <2>2, <2>4, <2>5
    <3>2. CASE i <= Len(jobs)
      BY <2>4, <2>5, <2>6, <3>1, <3>2
    <3>3. CASE ~(i <= Len(jobs))
      <4>1. i - Len(jobs) \in 1..Len(added)
        BY <3>1, <3>3
      <4>2. jobs'[i] = added[i - Len(jobs)]
        BY <2>5, <2>6, <3>1, <3>3
      <4> QED
        BY <2>3, <4>1, <4>2
    <3> QED
      BY <3>2, <3>3
  <2>8. jobs # <<>> => jobs' # <<>> /\ Head(jobs') = Head(jobs)
    BY <2>1, <2>2, <2>4
  <2>9. nextId' \in 0..MaxJobs
    BY <2>1, <2>4
  <2> QED
    BY <1>2, <2>1, <2>5, <2>7, <2>8, <2>9
<1> QED
  BY <1>1, <1>2

LEMMA TailType ==
  ASSUME QueueTypes, jobs # <<>>
  PROVE  /\ Tail(jobs) \in Seq(Job)
         /\ \A i \in DOMAIN Tail(jobs) : i + 1 \in DOMAIN jobs /\ Tail(jobs)[i] = jobs[i + 1]
BY DEF QueueTypes

LEMMA HeadType ==
  ASSUME QueueTypes, jobs # <<>>
  PROVE  1 \in DOMAIN jobs /\ Head(jobs) = jobs[1] /\ Head(jobs) \in Job
BY DEF QueueTypes
-----------------------------------------------------------------------------
(***************************************************************************)
(* Types.                                                                  *)
(***************************************************************************)

LEMMA InitTypes == Init => Types
<1> SUFFICES ASSUME Init
             PROVE  Types
  OBVIOUS
<1>1. SessionTypes
  BY DEF Init, SessionTypes, Panes, Actives, Addresses, Shown, Tunnel!Init, Tunnel!Tunnels
<1>2. PendingTypes
  BY EmptySeq DEF Init, PendingTypes
<1>3. QueueTypes /\ ServingFirst
  BY ConstantsAssumption DEF Init, QueueTypes, ServingFirst, Shown
<1>4. Absent \in Contents /\ Theirs \in Contents
  BY ConstantsAssumption DEF Absent, Theirs, Contents
<1>5. FileTypes
  BY <1>4 DEF Init, FileTypes
<1> QED
  BY <1>1, <1>2, <1>3, <1>5 DEF Types

\* A connection that is refused leaves a pane, too.
LEMMA PaneRejectsType ==
  ASSUME SessionTypes, NEW address \in Addresses, NEW scp \in BOOLEAN,
         NEW complete \in BOOLEAN, PaneRejects(address, scp, complete)
  PROVE  /\ pane' \in Panes
         /\ ~pane'.connected
BY DEF SessionTypes, PaneRejects, Panes

LEMMA PaneRejectsAddress ==
  ASSUME SessionTypes, NEW address, NEW scp, NEW complete, PaneRejects(address, scp, complete)
  PROVE  pane'.address = address
BY DEF SessionTypes, PaneRejects, Panes

LEMMA MayBeScpType == MayBeScp \subseteq BOOLEAN
BY DEF MayBeScp

LEMMA SessionChangeType ==
  ASSUME SessionTypes, NEW address \in Addresses,
         SessionNotOpened \/ \E scp, complete \in BOOLEAN : SessionOpened(address, scp, complete)
  PROVE  active' \in Actives /\ dialog' \in {"none", "sites", "overwrite"}
BY DEF SessionTypes, SessionNotOpened, SessionOpened, Actives

LEMMA ConnectDirectlyTypes ==
  ASSUME SessionTypes, NEW address \in Hosts \cup LocalPorts, ConnectDirectly(address)
  PROVE  SessionTypes'
<1>1. address \in Addresses /\ pane.shown \in Shown /\ Nowhere \in Shown
  BY DEF Addresses, SessionTypes, Panes, Shown
<1>2. tunnel' = tunnel
  BY DEF ConnectDirectly
<1>3. pane' \in Panes
  <2>1. CASE \E scp \in MayBeScp, complete \in BOOLEAN : PaneRejects(address, scp, complete)
    BY <1>1, <2>1, MayBeScpType, PaneRejectsType
  <2>2. CASE PaneUnlisted(address) \/ PaneListFails(address)
    BY <1>1, <2>2, PaneConnectedType DEF PaneUnlisted, PaneListFails
  <2>3. CASE Arrives(address) /\ PaneLists(address, HostOf(address))
    BY <1>1, <2>3, HostOfType, PaneConnectedType DEF PaneLists
  <2>4. CASE \E complete \in BOOLEAN : PaneTransferOnly(address, complete)
    BY <1>1, <2>4, PaneConnectedType DEF PaneTransferOnly
  <2> QED
    BY <2>1, <2>2, <2>3, <2>4 DEF ConnectDirectly
<1>4. active' \in Actives /\ dialog' \in {"none", "sites", "overwrite"}
  <2>1. SessionNotOpened \/ \E scp, complete \in BOOLEAN : SessionOpened(address, scp, complete)
    BY DEF ConnectDirectly
  <2> QED
    BY <1>1, <2>1, SessionChangeType
<1> QED
  BY <1>2, <1>3, <1>4 DEF SessionTypes

LEMMA ConnectThroughTunnelTypes ==
  ASSUME SessionTypes, NEW port \in LocalPorts, NEW host \in Hosts,
         ConnectThroughTunnel(port, host)
  PROVE  SessionTypes'
<1>1. port \in Addresses /\ host \in Shown /\ pane.shown \in Shown /\ Nowhere \in Shown
  BY DEF Addresses, SessionTypes, Panes, Shown
<1>2. tunnel' \in Tunnel!Tunnels
  BY TunnelType DEF ConnectThroughTunnel
<1>3. pane' \in Panes
  <2>1. CASE \E scp \in MayBeScp, complete \in BOOLEAN : PaneRejects(port, scp, complete)
    BY <1>1, <2>1, MayBeScpType, PaneRejectsType
  <2>2. CASE PaneUnlisted(port) \/ PaneListFails(port)
    BY <1>1, <2>2, PaneConnectedType DEF PaneUnlisted, PaneListFails
  <2>3. CASE PaneLists(port, host)
    BY <1>1, <2>3, PaneConnectedType DEF PaneLists
  <2>4. CASE \E complete \in BOOLEAN : PaneTransferOnly(port, complete)
    BY <1>1, <2>4, PaneConnectedType DEF PaneTransferOnly
  <2>5. CASE UNCHANGED pane
    BY <2>5 DEF SessionTypes
  <2> QED
    BY <2>1, <2>2, <2>3, <2>4, <2>5 DEF ConnectThroughTunnel
<1>4. active' \in Actives /\ dialog' \in {"none", "sites", "overwrite"}
  <2>1. SessionNotOpened \/ \E scp, complete \in BOOLEAN : SessionOpened(port, scp, complete)
    BY DEF ConnectThroughTunnel
  <2> QED
    BY <1>1, <2>1, SessionChangeType
<1> QED
  BY <1>2, <1>3, <1>4 DEF SessionTypes

LEMMA SessionTypesStep ==
  ASSUME SessionTypes, [Next]_vars
  PROVE  SessionTypes'
<1>1. CASE UNCHANGED sessionVars
  BY <1>1 DEF sessionVars, SessionTypes
<1>2. CASE OpenSiteManager \/ CloseSiteManager \/ CancelPrompt
  BY <1>2 DEF OpenSiteManager, CloseSiteManager, CancelPrompt, SessionTypes
<1>3. CASE \E address \in Hosts \cup LocalPorts : ConnectDirectly(address)
  BY <1>3, ConnectDirectlyTypes
<1>4. CASE \E port \in LocalPorts, host \in Hosts : ConnectThroughTunnel(port, host)
  BY <1>4, ConnectThroughTunnelTypes
<1>5. CASE Disconnect
  <2>1. tunnel' \in Tunnel!Tunnels
    BY <1>5, TunnelType DEF Disconnect
  <2> QED
    BY <1>5, <2>1 DEF Disconnect, SessionTypes, Panes, Actives, Addresses, Shown
<1>6. CASE TunnelChanges
  <2>1. tunnel' \in Tunnel!Tunnels
    BY <1>6, TunnelType DEF TunnelChanges
  <2> QED
    BY <1>6, <2>1 DEF TunnelChanges, SessionTypes
<1>7. CASE Browse \/ PaneCommand \/ TransferCompletes
  <2>1. pane' \in Panes
    BY <1>7, RefreshChangesRows DEF Browse, PaneCommand, TransferCompletes, SessionTypes
  <2> QED
    BY <1>7, <2>1 DEF Browse, PaneCommand, TransferCompletes, SessionTypes
<1>8. CASE \/ \E batch \in Batches : PerformUpload(batch) \/ PerformDownload(batch)
           \/ \E policy \in Answers : AnswerPrompt(policy)
  BY <1>8 DEF PerformUpload, PerformDownload, AnswerPrompt, QueueOrAsk, SessionTypes
<1>9. CASE TransferBegins \/ TransferFails \/ OthersWrite
  BY <1>9, <1>1 DEF TransferBegins, TransferFails, OthersWrite
<1>10. CASE UNCHANGED vars
  BY <1>10, <1>1 DEF vars
<1> QED
  BY <1>2, <1>3, <1>4, <1>5, <1>6, <1>7, <1>8, <1>9, <1>10 DEF Next

LEMMA ConflictsAreNames ==
  ASSUME NEW batch \in Seq(Names)
  PROVE  /\ NamesIn(batch) \subseteq Names
         /\ RemoteConflicts(batch) \subseteq NamesIn(batch)
         /\ LocalConflicts(batch) \subseteq NamesIn(batch)
BY DEF NamesIn, RemoteConflicts, LocalConflicts

LEMMA QueueOrAskTypes ==
  ASSUME PendingTypes, NEW batch \in Seq(Names), NEW upload \in BOOLEAN,
         NEW conflicts \in SUBSET NamesIn(batch), QueueOrAsk(batch, upload, conflicts)
  PROVE  PendingTypes'
BY ConflictsAreNames, EmptySeq DEF QueueOrAsk, BatchDone, PendingTypes

LEMMA PendingTypesStep ==
  ASSUME PendingTypes, [Next]_vars
  PROVE  PendingTypes'
<1>1. CASE UNCHANGED pendingVars
  BY <1>1 DEF pendingVars, PendingTypes
<1>2. CASE \E batch \in Batches : PerformUpload(batch) \/ PerformDownload(batch)
  <2>1. PICK batch \in Batches : PerformUpload(batch) \/ PerformDownload(batch)
    BY <1>2
  <2>2. batch \in Seq(Names)
    BY ConstantsAssumption
  <2> QED
    BY <2>1, <2>2, ConflictsAreNames, QueueOrAskTypes DEF PerformUpload, PerformDownload
<1>3. CASE \E policy \in Answers : AnswerPrompt(policy)
  BY <1>3, EmptySeq DEF AnswerPrompt, BatchDone, PendingTypes
<1>4. CASE CancelPrompt
  BY <1>4, EmptySeq DEF CancelPrompt, PendingTypes
<1>5. CASE \/ OpenSiteManager \/ CloseSiteManager \/ Disconnect \/ TunnelChanges
           \/ \E address \in Hosts \cup LocalPorts : ConnectDirectly(address)
           \/ \E port \in LocalPorts, host \in Hosts : ConnectThroughTunnel(port, host)
  BY <1>1, <1>5 DEF OpenSiteManager, CloseSiteManager, Disconnect, TunnelChanges,
                    ConnectDirectly, ConnectThroughTunnel
<1>6. CASE \/ Browse \/ PaneCommand \/ TransferBegins \/ TransferCompletes
           \/ TransferFails \/ OthersWrite
  BY <1>1, <1>6 DEF Browse, PaneCommand, TransferBegins, TransferCompletes, TransferFails,
                    OthersWrite
<1>7. CASE UNCHANGED vars
  BY <1>1, <1>7 DEF vars
<1> QED
  BY <1>2, <1>3, <1>4, <1>5, <1>6, <1>7 DEF Next

\* An upload or a download is asked for, or the prompt is answered: the only
\* steps that add to the queue.
QueueingStep ==
  \/ \E batch \in Batches : PerformUpload(batch) \/ PerformDownload(batch)
  \/ \E policy \in Answers : AnswerPrompt(policy)

\* What each of them does to the queue.
LEMMA QueueingEffect ==
  ASSUME SessionTypes, PendingTypes, QueueTypes, QueueingStep
  PROVE  /\ jobs' \in Seq(Job) /\ nextId' \in 0..MaxJobs
         /\ serving' = serving
         /\ jobs # <<>> => jobs' # <<>> /\ Head(jobs') = Head(jobs)
         /\ jobs' # jobs => active.address # Nowhere
         /\ \A i \in DOMAIN jobs' :
              \/ i \in DOMAIN jobs /\ jobs'[i] = jobs[i]
              \/ /\ jobs'[i].address = active.address
                 /\ jobs'[i].via = pane.address
                 /\ jobs'[i].shown = HostOf(pane.address)
<1>1. \/ UNCHANGED queueVars
      \/ \E batch \in Seq(Names), upload \in BOOLEAN, policy \in Policies :
           QueuePending(batch, upload, policy)
  <2>1. CASE \E batch \in Batches : PerformUpload(batch) \/ PerformDownload(batch)
    <3>1. PICK batch \in Batches : PerformUpload(batch) \/ PerformDownload(batch)
      BY <2>1
    <3>2. batch \in Seq(Names) /\ "none" \in Policies
      BY ConstantsAssumption DEF Policies
    <3>3. \/ UNCHANGED queueVars
          \/ \E upload \in BOOLEAN : QueuePending(batch, upload, "none")
      BY <3>1 DEF PerformUpload, PerformDownload, QueueOrAsk
    <3> QED
      BY <3>2, <3>3
  <2>2. CASE \E policy \in Answers : AnswerPrompt(policy)
    BY <2>2 DEF AnswerPrompt, Policies, PendingTypes
  <2> QED
    BY <2>1, <2>2 DEF QueueingStep
<1>2. CASE UNCHANGED queueVars
  BY <1>2 DEF queueVars, QueueTypes
<1> QED
  BY <1>1, <1>2, QueuePendingEffect

LEMMA QueueTypesStep ==
  ASSUME SessionTypes, PendingTypes, QueueTypes, ServingFirst, [Next]_vars
  PROVE  QueueTypes' /\ ServingFirst'
<1>1. CASE UNCHANGED queueVars
  BY <1>1 DEF queueVars, QueueTypes, ServingFirst
<1>2. CASE Disconnect
  BY <1>2, EmptySeq DEF Disconnect, JobsAfterDisconnect, QueueTypes, ServingFirst, Shown
<1>3. CASE QueueingStep
  BY <1>3, QueueingEffect DEF QueueTypes, ServingFirst
<1>4. CASE TransferBegins
  <2>1. jobs # <<>> /\ Head(jobs).address \in Addresses
    BY <1>4, HeadType DEF TransferBegins, Job
  <2>2. serving' = HostOf(Head(jobs).address) /\ jobs' = jobs /\ nextId' = nextId
    BY <1>4 DEF TransferBegins
  <2>3. serving' \in Shown
    BY <2>1, <2>2, HostOfType
  <2> QED
    BY <2>1, <2>2, <2>3 DEF QueueTypes, ServingFirst
<1>5. CASE TransferCompletes \/ TransferFails
  <2>1. jobs # <<>> /\ jobs' = Tail(jobs) /\ serving' = Nowhere /\ nextId' = nextId
    BY <1>5 DEF TransferCompletes, TransferFails, ServingFirst
  <2> QED
    BY <2>1, TailType DEF QueueTypes, ServingFirst, Shown
<1>6. CASE \/ OpenSiteManager \/ CloseSiteManager \/ TunnelChanges \/ CancelPrompt
           \/ \E address \in Hosts \cup LocalPorts : ConnectDirectly(address)
           \/ \E port \in LocalPorts, host \in Hosts : ConnectThroughTunnel(port, host)
  BY <1>1, <1>6 DEF OpenSiteManager, CloseSiteManager, TunnelChanges, CancelPrompt,
                    ConnectDirectly, ConnectThroughTunnel
<1>7. CASE Browse \/ PaneCommand \/ OthersWrite
  BY <1>1, <1>7 DEF Browse, PaneCommand, OthersWrite
<1>8. CASE UNCHANGED vars
  BY <1>1, <1>8 DEF vars
<1> QED
  BY <1>2, <1>3, <1>4, <1>5, <1>6, <1>7, <1>8 DEF Next, QueueingStep

\* A transfer leaves at its destination what was there or what it wrote.
LEMMA OutcomeType ==
  ASSUME NEW job \in Job, NEW content \in Contents
  PROVE  Outcome(job, content) \in Contents
<1>1. job.id \in Contents
  BY ConstantsAssumption DEF Job, Ids, Contents
<1> QED
  BY <1>1 DEF Outcome

LEMMA FileTypesStep ==
  ASSUME SessionTypes, QueueTypes, FileTypes, [Next]_vars
  PROVE  FileTypes'
<1>1. CASE UNCHANGED fileVars
  BY <1>1 DEF fileVars, FileTypes
<1>2. Absent \in Contents /\ Theirs \in Contents
  BY ConstantsAssumption DEF Absent, Theirs, Contents
<1>3. CASE PaneCommand
  <2>1. pane.address \in Addresses
    BY DEF SessionTypes, Panes
  <2>2. HostOf(pane.address) \in Hosts
    BY <1>3, <2>1, ArrivesAtHost DEF PaneCommand, PaneCommandRuns
  <2>3. \E name \in Names, content \in {Absent, Theirs} :
          remote' = [remote EXCEPT ![HostOf(pane.address)][name] = content]
    BY <1>3 DEF PaneCommand
  <2> QED
    BY <1>2, <1>3, <2>2, <2>3 DEF PaneCommand, FileTypes
<1>4. CASE TransferBegins
  <2> DEFINE job == Head(jobs)
             host == HostOf(job.address)
  <2>1. job \in Job
    BY <1>4, HeadType DEF TransferBegins
  <2>2. job.address \in Addresses /\ job.name \in Names
    BY <2>1 DEF Job
  <2>3. host \in Hosts
    BY <1>4, <2>2, ArrivesAtHost DEF TransferBegins
  <2>4. CASE job.upload
    <3>1. /\ remote' = [remote EXCEPT ![host][job.name] = Outcome(job, @)]
          /\ local' = local
      BY <1>4, <2>4 DEF TransferBegins
    <3>2. remote[host][job.name] \in Contents
      BY <2>2, <2>3 DEF FileTypes
    <3>3. Outcome(job, remote[host][job.name]) \in Contents
      BY <2>1, <3>2, OutcomeType
    <3> HIDE DEF job, host
    <3> QED
      BY <2>2, <2>3, <3>1, <3>3 DEF FileTypes
  <2>5. CASE ~job.upload
    <3>1. /\ local' = [local EXCEPT ![job.name] = Outcome(job, @)]
          /\ remote' = remote
      BY <1>4, <2>5 DEF TransferBegins
    <3>2. Outcome(job, local[job.name]) \in Contents
      BY <2>1, <2>2, OutcomeType DEF FileTypes
    <3> HIDE DEF job, host
    <3> QED
      BY <2>2, <3>1, <3>2 DEF FileTypes
  <2> QED
    BY <2>4, <2>5
<1>5. CASE OthersWrite
  BY <1>2, <1>5 DEF OthersWrite, FileTypes
<1>6. CASE \/ OpenSiteManager \/ CloseSiteManager \/ Disconnect \/ TunnelChanges
           \/ \E address \in Hosts \cup LocalPorts : ConnectDirectly(address)
           \/ \E port \in LocalPorts, host \in Hosts : ConnectThroughTunnel(port, host)
           \/ Browse \/ CancelPrompt
  BY <1>1, <1>6 DEF OpenSiteManager, CloseSiteManager, Disconnect, TunnelChanges,
                    ConnectDirectly, ConnectThroughTunnel, Browse, CancelPrompt
<1>7. CASE QueueingStep \/ TransferCompletes \/ TransferFails
  BY <1>1, <1>7 DEF QueueingStep, PerformUpload, PerformDownload, AnswerPrompt,
                    TransferCompletes, TransferFails
<1>8. CASE UNCHANGED vars
  BY <1>1, <1>8 DEF vars
<1> QED
  BY <1>3, <1>4, <1>5, <1>6, <1>7, <1>8 DEF Next, QueueingStep

LEMMA TypesStep == Types /\ [Next]_vars => Types'
BY SessionTypesStep, PendingTypesStep, QueueTypesStep, FileTypesStep DEF Types

-----------------------------------------------------------------------------
(***************************************************************************)
(* The pane shows the host it is connected to.                             *)
(***************************************************************************)

LEMMA PaneRefreshed ==
  ASSUME SessionTypes, PaneShowsItsHost, Refresh, tunnel' = tunnel
  PROVE  PaneShowsItsHost'
<1>1. /\ pane'.address = pane.address /\ pane'.complete = pane.complete
      /\ pane'.connected = pane.connected
      /\ pane'.shown \in {Nowhere, HostOf(pane.address)} \/ pane'.shown = pane.shown
  BY RefreshChangesRows
<1>2. HostOf(pane.address)' = HostOf(pane.address)
  BY <1>1 DEF HostOf
<1> QED
  BY <1>1, <1>2 DEF PaneShowsItsHost

LEMMA PaneConnectsDirectly ==
  ASSUME SessionTypes, NEW address \in Hosts \cup LocalPorts, ConnectDirectly(address)
  PROVE  PaneShowsItsHost'
<1>1. address \in Addresses /\ tunnel' = tunnel
  BY DEF Addresses, ConnectDirectly
<1>2. CASE \E scp \in MayBeScp, complete \in BOOLEAN : PaneRejects(address, scp, complete)
  BY <1>1, <1>2, MayBeScpType, PaneRejectsType DEF PaneShowsItsHost
<1>3. CASE \/ PaneUnlisted(address) \/ PaneListFails(address)
           \/ \E complete \in BOOLEAN : PaneTransferOnly(address, complete)
  BY <1>3 DEF PaneUnlisted, PaneListFails, PaneTransferOnly, PaneConnected, PaneShowsItsHost
<1>4. CASE PaneLists(address, HostOf(address))
  <2>1. pane'.address = address /\ pane'.shown = HostOf(address)
    BY <1>4 DEF PaneLists, PaneConnected
  <2> QED
    BY <1>1, <2>1 DEF HostOf, PaneShowsItsHost
<1> QED
  BY <1>2, <1>3, <1>4 DEF ConnectDirectly

LEMMA PaneConnectsThroughTunnel ==
  ASSUME SessionTypes, PaneShowsItsHost, NEW port \in LocalPorts, NEW host \in Hosts,
         ConnectThroughTunnel(port, host)
  PROVE  PaneShowsItsHost'
<1>1. port \in Addresses
  BY DEF Addresses
<1>2. CASE Tunnel!Stop /\ UNCHANGED pane
  <2>1. pane.address \in Addresses
    BY DEF SessionTypes, Panes
  <2>2. HostOf(pane.address)' \in {HostOf(pane.address), Nowhere}
    <3>1. tunnel'.port = Nowhere /\ Nowhere \notin LocalPorts
      BY <1>2, ConstantsAssumption DEF Tunnel!Stop, Tunnel!NoTunnel
    <3> QED
      BY <1>2, <3>1 DEF HostOf
  <2> QED
    BY <1>2, <2>2 DEF PaneShowsItsHost
<1>3. CASE \E scp \in MayBeScp, complete \in BOOLEAN : PaneRejects(port, scp, complete)
  BY <1>1, <1>3, MayBeScpType, PaneRejectsType DEF PaneShowsItsHost
<1>4. CASE \/ PaneUnlisted(port) \/ PaneListFails(port)
           \/ \E complete \in BOOLEAN : PaneTransferOnly(port, complete)
  BY <1>4 DEF PaneUnlisted, PaneListFails, PaneTransferOnly, PaneConnected, PaneShowsItsHost
<1>5. CASE Tunnel!Start(port, host) /\ PaneLists(port, host)
  <2>1. pane'.address = port /\ pane'.shown = host
    BY <1>5 DEF PaneLists, PaneConnected
  <2>2. tunnel'.port = port /\ tunnel'.host = host
    BY <1>5 DEF Tunnel!Start
  <2> QED
    BY <2>1, <2>2 DEF HostOf, PaneShowsItsHost
<1> QED
  BY <1>2, <1>3, <1>4, <1>5 DEF ConnectThroughTunnel

LEMMA PaneStep ==
  ASSUME SessionTypes, PaneShowsItsHost, [Next]_vars
  PROVE  PaneShowsItsHost'
<1>1. CASE UNCHANGED <<pane, tunnel>>
  BY <1>1 DEF PaneShowsItsHost, HostOf
<1>2. CASE \E address \in Hosts \cup LocalPorts : ConnectDirectly(address)
  BY <1>2, PaneConnectsDirectly
<1>3. CASE \E port \in LocalPorts, host \in Hosts : ConnectThroughTunnel(port, host)
  BY <1>3, PaneConnectsThroughTunnel
<1>4. CASE Disconnect
  BY <1>4 DEF Disconnect, PaneShowsItsHost
<1>5. CASE TunnelChanges
  <2>1. pane' = pane /\ pane.address \in Addresses
    BY <1>5 DEF TunnelChanges, SessionTypes, Panes
  <2>2. tunnel'.port = tunnel.port /\ tunnel'.host = tunnel.host
    BY <1>5 DEF TunnelChanges, SessionTypes, Tunnel!Forward, Tunnel!End, Tunnel!Tunnels,
                Tunnel!NoTunnel
  <2> QED
    BY <2>1, <2>2 DEF HostOf, PaneShowsItsHost
<1>6. CASE Browse \/ PaneCommand
  BY <1>6, PaneRefreshed DEF Browse, PaneCommand
<1>7. CASE TransferCompletes
  BY <1>1, <1>7, PaneRefreshed DEF TransferCompletes
<1>8. CASE \/ OpenSiteManager \/ CloseSiteManager \/ CancelPrompt \/ QueueingStep
           \/ TransferBegins \/ TransferFails \/ OthersWrite
  BY <1>1, <1>8 DEF OpenSiteManager, CloseSiteManager, CancelPrompt, QueueingStep,
                    PerformUpload, PerformDownload, AnswerPrompt, TransferBegins,
                    TransferFails, OthersWrite, sessionVars
<1>9. CASE UNCHANGED vars
  BY <1>1, <1>9 DEF vars, sessionVars
<1> QED
  BY <1>2, <1>3, <1>4, <1>5, <1>6, <1>7, <1>8, <1>9 DEF Next, QueueingStep

-----------------------------------------------------------------------------
(***************************************************************************)
(* The prompt is about what is pending.                                    *)
(***************************************************************************)

LEMMA QueueOrAskPrompt ==
  ASSUME PromptIsAboutPending, dialog = "none",
         NEW batch \in Seq(Names), NEW upload \in BOOLEAN,
         NEW conflicts \in SUBSET NamesIn(batch), QueueOrAsk(batch, upload, conflicts)
  PROVE  PromptIsAboutPending'
<1>1. pendingUploads = <<>> /\ pendingDownloads = <<>> /\ conflicting = {}
  BY DEF PromptIsAboutPending
<1>2. CASE conflicts = {}
  BY <1>1, <1>2 DEF QueueOrAsk, BatchDone, PromptIsAboutPending
<1>3. CASE conflicts # {}
  BY <1>1, <1>3 DEF QueueOrAsk, NamesIn, PromptIsAboutPending
<1> QED
  BY <1>2, <1>3

LEMMA PromptStep ==
  ASSUME PendingTypes, PromptIsAboutPending, [Next]_vars
  PROVE  PromptIsAboutPending'
<1>1. CASE UNCHANGED pendingVars /\ (dialog' = "overwrite" <=> dialog = "overwrite")
  BY <1>1 DEF pendingVars, NamesIn, PromptIsAboutPending
<1>2. CASE \E batch \in Batches : PerformUpload(batch) \/ PerformDownload(batch)
  <2>1. PICK batch \in Batches : PerformUpload(batch) \/ PerformDownload(batch)
    BY <1>2
  <2>2. batch \in Seq(Names) /\ dialog = "none"
    BY <2>1, ConstantsAssumption DEF PerformUpload, PerformDownload, MayTransfer
  <2> QED
    BY <2>1, <2>2, ConflictsAreNames, QueueOrAskPrompt DEF PerformUpload, PerformDownload
<1>3. CASE \E policy \in Answers : AnswerPrompt(policy)
  BY <1>3 DEF AnswerPrompt, BatchDone, PromptIsAboutPending, PendingTypes
<1>4. CASE CancelPrompt
  BY <1>4 DEF CancelPrompt, PromptIsAboutPending
<1>5. CASE OpenSiteManager \/ CloseSiteManager \/ Disconnect \/ TunnelChanges
  BY <1>1, <1>5 DEF OpenSiteManager, CloseSiteManager, Disconnect, TunnelChanges
<1>6. CASE \/ \E address \in Hosts \cup LocalPorts : ConnectDirectly(address)
           \/ \E port \in LocalPorts, host \in Hosts : ConnectThroughTunnel(port, host)
  <2>1. UNCHANGED pendingVars /\ dialog = "sites" /\ dialog' \in {"sites", "none"}
    BY <1>6 DEF ConnectDirectly, ConnectThroughTunnel, SessionNotOpened, SessionOpened
  <2> QED
    BY <1>1, <2>1
<1>7. CASE \/ Browse \/ PaneCommand \/ TransferBegins \/ TransferCompletes
           \/ TransferFails \/ OthersWrite
  BY <1>1, <1>7 DEF Browse, PaneCommand, TransferBegins, TransferCompletes, TransferFails,
                    OthersWrite, sessionVars
<1>8. CASE UNCHANGED vars
  BY <1>1, <1>8 DEF vars, sessionVars
<1> QED
  BY <1>2, <1>3, <1>4, <1>5, <1>6, <1>7, <1>8 DEF Next

-----------------------------------------------------------------------------
(***************************************************************************)
(* Transfers reach the host they were asked for.                           *)
(***************************************************************************)

PromptNeedsPane == dialog = "overwrite" => pane.connected

JobAsked(job) ==
  "cancel" \notin Circumstances =>
    job.via \in LocalPorts \/ (job.address = job.via /\ job.shown = job.via)

JobsAsked == \A i \in DOMAIN jobs : JobAsked(jobs[i])

\* A connection leaves the dialog open, or the pane and the active session
\* with the same address.
LEMMA ConnectionsAgree ==
  ASSUME \/ \E address \in Hosts \cup LocalPorts : ConnectDirectly(address)
         \/ \E port \in LocalPorts, host \in Hosts : ConnectThroughTunnel(port, host)
  PROVE  \/ dialog' = "sites" /\ active' = active
         \/ /\ dialog' = "none"
            /\ active'.address # Nowhere
            /\ pane'.address = active'.address /\ pane'.scp = active'.scp
<1>1. PICK address \in Hosts \cup LocalPorts :
        \/ ConnectDirectly(address)
        \/ \E port \in LocalPorts, host \in Hosts :
             address = port /\ ConnectThroughTunnel(port, host)
  OBVIOUS
<1>2. address # Nowhere
  BY ConstantsAssumption
<1>3. \/ dialog = "sites" /\ SessionNotOpened
      \/ /\ SessionOpened(address, FALSE, TRUE)
         /\ \E complete \in BOOLEAN, shown \in {Nowhere, HostOf(address)} \cup Hosts :
              pane' = PaneConnected(address, FALSE, complete, shown)
      \/ \E complete \in BOOLEAN : /\ PaneTransferOnly(address, complete)
                                   /\ SessionOpened(address, TRUE, complete)
  BY <1>1 DEF ConnectDirectly, ConnectThroughTunnel, PaneLists, PaneListFails
<1>4. CASE dialog = "sites" /\ SessionNotOpened
  BY <1>4 DEF SessionNotOpened
<1>5. CASE SessionOpened(address, FALSE, TRUE)
           /\ \E complete \in BOOLEAN, shown \in {Nowhere, HostOf(address)} \cup Hosts :
                pane' = PaneConnected(address, FALSE, complete, shown)
  BY <1>2, <1>5 DEF SessionOpened, PaneConnected
<1>6. CASE \E complete \in BOOLEAN : /\ PaneTransferOnly(address, complete)
                                     /\ SessionOpened(address, TRUE, complete)
  BY <1>2, <1>6 DEF SessionOpened, PaneTransferOnly, PaneConnected
<1> QED
  BY <1>3, <1>4, <1>5, <1>6

\* A refresh keeps the connection, only the rows change.
LEMMA RefreshKeepsConnection ==
  ASSUME SessionTypes, Browse \/ PaneCommand \/ TransferCompletes
  PROVE  /\ pane'.address = pane.address /\ pane'.scp = pane.scp
         /\ pane'.connected = pane.connected
         /\ active' = active /\ dialog' = dialog
<1>1. active' = active /\ dialog' = dialog /\ (Refresh \/ pane' = pane)
  BY DEF Browse, PaneCommand, TransferCompletes
<1> QED
  BY <1>1, RefreshChangesRows

\* The pane and the active session agree, and the prompt is open only while
\* the pane is connected.
LEMMA AsksStep ==
  ASSUME SessionTypes, AsksTheRightHost, PromptNeedsPane, [Next]_vars
  PROVE  AsksTheRightHost' /\ PromptNeedsPane'
<1>1. CASE UNCHANGED <<pane, active, dialog>>
  BY <1>1 DEF AsksTheRightHost, PromptNeedsPane
<1>2. CASE OpenSiteManager \/ CloseSiteManager
  BY <1>2 DEF OpenSiteManager, CloseSiteManager, AsksTheRightHost, PromptNeedsPane
<1>3. CASE \/ \E address \in Hosts \cup LocalPorts : ConnectDirectly(address)
           \/ \E port \in LocalPorts, host \in Hosts : ConnectThroughTunnel(port, host)
  BY <1>3, ConnectionsAgree DEF AsksTheRightHost, PromptNeedsPane
<1>4. CASE Disconnect
  BY <1>4 DEF Disconnect, AsksTheRightHost, PromptNeedsPane
<1>5. CASE Browse \/ PaneCommand \/ TransferCompletes
  BY <1>5, RefreshKeepsConnection DEF AsksTheRightHost, PromptNeedsPane
<1>6. CASE QueueingStep
  <2>1. /\ pane' = pane /\ active' = active
        /\ dialog # "sites" /\ pane.connected
    BY <1>6 DEF QueueingStep, PerformUpload, PerformDownload, AnswerPrompt, MayTransfer,
                PromptNeedsPane
  <2> QED
    BY <2>1 DEF AsksTheRightHost, PromptNeedsPane
<1>7. CASE CancelPrompt
  BY <1>7 DEF CancelPrompt, AsksTheRightHost, PromptNeedsPane
<1>8. CASE TunnelChanges \/ TransferBegins \/ TransferFails \/ OthersWrite
  BY <1>1, <1>8 DEF TunnelChanges, TransferBegins, TransferFails, OthersWrite, sessionVars
<1>9. CASE UNCHANGED vars
  BY <1>1, <1>9 DEF vars, sessionVars
<1> QED
  BY <1>2, <1>3, <1>4, <1>5, <1>6, <1>7, <1>8, <1>9 DEF Next, QueueingStep

\* Steps that are none of the queue's.
LEMMA QueueKept ==
  ASSUME \/ OpenSiteManager \/ CloseSiteManager \/ TunnelChanges
         \/ \E address \in Hosts \cup LocalPorts : ConnectDirectly(address)
         \/ \E port \in LocalPorts, host \in Hosts : ConnectThroughTunnel(port, host)
         \/ Browse \/ PaneCommand \/ CancelPrompt \/ OthersWrite \/ UNCHANGED vars
  PROVE  jobs' = jobs /\ serving' = serving
BY DEF OpenSiteManager, CloseSiteManager, TunnelChanges, ConnectDirectly,
       ConnectThroughTunnel, Browse, PaneCommand, CancelPrompt, OthersWrite, vars, queueVars

\* A transfer that ends leaves the others in their order.
LEMMA TransferEnds ==
  ASSUME QueueTypes, ServingFirst, TransferCompletes \/ TransferFails
  PROVE  /\ active' = active /\ serving' = Nowhere
         /\ jobs # <<>>
         /\ \A i \in DOMAIN jobs' : i + 1 \in DOMAIN jobs /\ jobs'[i] = jobs[i + 1]
<1>1. jobs # <<>> /\ jobs' = Tail(jobs) /\ serving' = Nowhere /\ active' = active
  BY DEF TransferCompletes, TransferFails, ServingFirst, sessionVars
<1> QED
  BY <1>1, TailType

LEMMA NoTransferWithoutSessionStep ==
  ASSUME Types, NoTransferWithoutSession, [Next]_vars
  PROVE  NoTransferWithoutSession'
<1> USE DEF Types
<1>1. CASE jobs' = jobs /\ active' = active
  BY <1>1 DEF NoTransferWithoutSession
<1>2. CASE OpenSiteManager \/ CloseSiteManager \/ TunnelChanges \/ CancelPrompt
  BY <1>1, <1>2, QueueKept DEF OpenSiteManager, CloseSiteManager, TunnelChanges, CancelPrompt
<1>3. CASE \/ \E address \in Hosts \cup LocalPorts : ConnectDirectly(address)
           \/ \E port \in LocalPorts, host \in Hosts : ConnectThroughTunnel(port, host)
  BY <1>1, <1>3, QueueKept, ConnectionsAgree DEF NoTransferWithoutSession
<1>4. CASE Disconnect
  BY <1>4 DEF Disconnect, JobsAfterDisconnect, NoTransferWithoutSession
<1>5. CASE QueueingStep
  <2>1. active' = active
    BY <1>5 DEF QueueingStep, PerformUpload, PerformDownload, AnswerPrompt
  <2>2. jobs' # jobs => active.address # Nowhere
    BY <1>5, QueueingEffect
  <2> QED
    BY <2>1, <2>2 DEF NoTransferWithoutSession
<1>6. CASE TransferCompletes \/ TransferFails
  BY <1>6, TransferEnds DEF NoTransferWithoutSession
<1>7. CASE Browse \/ PaneCommand \/ TransferBegins \/ OthersWrite
  BY <1>1, <1>7 DEF Browse, PaneCommand, TransferBegins, OthersWrite, sessionVars, queueVars
<1>8. CASE UNCHANGED vars
  BY <1>1, <1>8 DEF vars, sessionVars, queueVars
<1> QED
  BY <1>2, <1>3, <1>4, <1>5, <1>6, <1>7, <1>8 DEF Next, QueueingStep

LEMMA JobsAskedStep ==
  ASSUME Types, AsksTheRightHost, PromptNeedsPane, JobsAsked, [Next]_vars
  PROVE  JobsAsked'
<1> USE DEF Types
<1>1. CASE jobs' = jobs
  BY <1>1 DEF JobsAsked, JobAsked
<1>2. CASE Disconnect
  BY <1>2 DEF Disconnect, JobsAfterDisconnect, JobsAsked
<1>3. CASE QueueingStep
  <2>1. dialog # "sites" /\ pane.connected /\ pane.address \in Addresses
    BY <1>3 DEF QueueingStep, PerformUpload, PerformDownload, AnswerPrompt, MayTransfer,
                PromptNeedsPane, SessionTypes, Panes
  <2>2. "cancel" \notin Circumstances => pane.address = active.address
    BY <2>1 DEF AsksTheRightHost
  <2>3. pane.address \notin LocalPorts => HostOf(pane.address) = pane.address
    BY <2>1, HostOfType
  <2>4. \A i \in DOMAIN jobs' :
          \/ i \in DOMAIN jobs /\ jobs'[i] = jobs[i]
          \/ /\ jobs'[i].address = active.address
             /\ jobs'[i].via = pane.address
             /\ jobs'[i].shown = HostOf(pane.address)
    BY <1>3, QueueingEffect
  <2> QED
    BY <2>2, <2>3, <2>4 DEF JobsAsked, JobAsked
<1>4. CASE TransferCompletes \/ TransferFails
  BY <1>4, TransferEnds DEF JobsAsked, JobAsked
<1>5. CASE TransferBegins
  BY <1>1, <1>5 DEF TransferBegins
<1> QED
  BY <1>1, <1>2, <1>3, <1>4, <1>5, QueueKept DEF Next, QueueingStep

LEMMA TransfersReachTheirHostStep ==
  ASSUME Types, JobsAsked, TransfersReachTheirHost, [Next]_vars
  PROVE  TransfersReachTheirHost'
<1> USE DEF Types
<1>1. CASE jobs' = jobs /\ serving' = serving
  BY <1>1 DEF TransfersReachTheirHost
<1>2. CASE Disconnect \/ TransferCompletes \/ TransferFails
  BY <1>2 DEF Disconnect, TransferCompletes, TransferFails, TransfersReachTheirHost
<1>3. CASE QueueingStep
  BY <1>3, QueueingEffect DEF ServingFirst, TransfersReachTheirHost
<1>4. CASE TransferBegins
  <2>1. jobs # <<>> /\ jobs' = jobs /\ serving' = HostOf(Head(jobs).address)
    BY <1>4 DEF TransferBegins
  <2>2. JobAsked(Head(jobs)) /\ Head(jobs).address \in Addresses
    BY <2>1, HeadType DEF JobsAsked, Job
  <2>3. Head(jobs).address \notin LocalPorts => serving' = Head(jobs).address
    BY <2>1, <2>2, HostOfType
  <2> QED
    BY <2>1, <2>2, <2>3 DEF JobAsked, TransfersReachTheirHost
<1> QED
  BY <1>1, <1>2, <1>3, <1>4, QueueKept DEF Next, QueueingStep

-----------------------------------------------------------------------------
(***************************************************************************)
(* Nothing is replaced unasked.  The user is alone with the servers, uses  *)
(* no tunnel and waits for the transfers.                                  *)
(***************************************************************************)

UserAlone == Circumstances \subseteq {"scp"}

\* Queued because nothing was found at the destination.
Unasked(job) == job.policy = "none" /\ ~(job.upload /\ job.scp)

AtDestination(job) ==
  IF job.upload THEN remote[job.address][job.name] ELSE local[job.name]

DirectAddresses ==
  /\ active.address \notin LocalPorts /\ pane.address \notin LocalPorts
  /\ \A i \in DOMAIN jobs : jobs[i].address \in Hosts

PromptWithoutJobs == dialog = "overwrite" => jobs = <<>>

OneEach ==
  \A i, j \in DOMAIN jobs : i # j /\ Unasked(jobs[i]) => jobs[i].name # jobs[j].name

StillFree ==
  \A i \in DOMAIN jobs :
    Unasked(jobs[i]) /\ (i = 1 => serving = Nowhere) => AtDestination(jobs[i]) = Absent

JobsFindNothing ==
  UserAlone => DirectAddresses /\ PromptWithoutJobs /\ OneEach /\ StillFree

\* Queueing while no job waits: nothing is queued, or the batch for a host.
LEMMA QueuedAlone ==
  ASSUME SessionTypes, jobs = <<>>,
         NEW batch \in Seq(Names), NEW upload \in BOOLEAN, NEW policy \in Policies,
         QueuePending(batch, upload, policy)
  PROVE  \/ jobs' = <<>>
         \/ /\ active.address # Nowhere
            /\ jobs' = Queued(batch, upload, policy)
<1>1. CASE active.address = Nowhere \/ ~active.complete
  BY <1>1 DEF QueuePending
<1>2. CASE ~(active.address = Nowhere \/ ~active.complete)
  <2> DEFINE added == Queued(batch, upload, policy)
  <2>1. jobs' = <<>> \o added
    BY <1>2 DEF QueuePending
  <2>2. added = [i \in 1..Len(batch) |-> added[i]] /\ Len(batch) \in Nat
    BY DEF Queued
  <2> HIDE DEF added
  <2>3. added \in Seq({added[i] : i \in 1..Len(batch)})
    BY <2>2
  <2>4. jobs' = added
    BY <2>1, <2>3
  <2> QED
    BY <1>2, <2>4 DEF added
<1> QED
  BY <1>1, <1>2

\* A batch that is queued with an answer is none the user was not asked about.
LEMMA AnsweredFindNothing ==
  ASSUME Types, UserAlone, JobsFindNothing, NEW policy \in Answers, AnswerPrompt(policy)
  PROVE  JobsFindNothing'
<1>1. /\ DirectAddresses /\ jobs = <<>>
      /\ pane' = pane /\ active' = active /\ dialog' = "none"
  BY DEF JobsFindNothing, PromptWithoutJobs, AnswerPrompt
<1>2. policy \in Policies /\ policy # "none"
  BY ConstantsAssumption DEF Policies
<1>3. PICK batch \in Seq(Names), upload \in BOOLEAN : QueuePending(batch, upload, policy)
  BY DEF AnswerPrompt, Types, PendingTypes
<1>4. CASE jobs' = <<>>
  BY <1>1, <1>4 DEF JobsFindNothing, DirectAddresses, PromptWithoutJobs, OneEach, StillFree
<1>5. CASE active.address # Nowhere /\ jobs' = Queued(batch, upload, policy)
  <2>1. \A i \in DOMAIN jobs' : jobs'[i].policy # "none" /\ jobs'[i].address \in Hosts
    BY <1>1, <1>2, <1>5 DEF Queued, DirectAddresses, Types, SessionTypes, Actives, Addresses
  <2> QED
    BY <1>1, <2>1 DEF JobsFindNothing, DirectAddresses, PromptWithoutJobs, OneEach,
                      StillFree, Unasked
<1> QED
  BY <1>1, <1>2, <1>3, <1>4, <1>5, QueuedAlone DEF Types

\* A batch without a policy has destinations where nothing is, each its own.
LEMMA QueuedFindNothing ==
  ASSUME Types, UserAlone, JobsFindNothing, AsksTheRightHost, NEW batch \in Batches,
         PerformUpload(batch) \/ PerformDownload(batch)
  PROVE  JobsFindNothing'
<1>1. /\ DirectAddresses
      /\ jobs = <<>> /\ dialog = "none" /\ pane.connected
      /\ pane' = pane /\ active' = active /\ remote' = remote /\ local' = local
  BY DEF JobsFindNothing, UserAlone, PerformUpload, PerformDownload, MayTransfer, fileVars
<1>2. batch \in Seq(Names) /\ "none" \in Policies
  BY ConstantsAssumption DEF Policies
<1>3. pane.address = active.address /\ pane.scp = active.scp
  BY <1>1 DEF AsksTheRightHost, UserAlone
<1>4. HostOf(pane.address) = active.address
  BY <1>1, <1>3, HostOfType DEF DirectAddresses, Types, SessionTypes, Panes
<1>5. CASE jobs' = <<>>
  BY <1>1, <1>5 DEF JobsFindNothing, DirectAddresses, PromptWithoutJobs, OneEach, StillFree
<1>6. ASSUME NEW upload \in BOOLEAN,
             active.address # Nowhere, jobs' = Queued(batch, upload, "none"),
             dialog' = dialog,
             IF upload THEN RemoteConflicts(batch) = {} ELSE LocalConflicts(batch) = {}
      PROVE  JobsFindNothing'
  <2>1. \A i \in DOMAIN jobs' :
          /\ i \in DOMAIN batch
          /\ jobs'[i].name = batch[i] /\ jobs'[i].upload = upload
          /\ jobs'[i].address = active.address /\ jobs'[i].scp = active.scp
    BY <1>2, <1>6 DEF Queued
  <2>2. active.address \in Hosts
    BY <1>1, <1>6 DEF DirectAddresses, Types, SessionTypes, Actives, Addresses
  <2>3. DirectAddresses'
    BY <1>1, <2>1, <2>2 DEF DirectAddresses
  <2>4. OneEach'
    BY <2>1, ConstantsAssumption DEF OneEach
  <2>5. ASSUME NEW i \in DOMAIN jobs', Unasked(jobs'[i])
        PROVE  IF upload THEN remote[active.address][batch[i]] = Absent
                         ELSE local[batch[i]] = Absent
    <3>1. batch[i] \in NamesIn(batch)
      BY <2>1 DEF NamesIn
    <3>2. upload => ~pane.scp
      BY <1>3, <2>1, <2>5 DEF Unasked
    <3> QED
      BY <1>4, <1>6, <3>1, <3>2 DEF RemoteConflicts, LocalConflicts
  <2>6. StillFree'
    BY <1>1, <2>1, <2>5 DEF StillFree, AtDestination
  <2>7. PromptWithoutJobs'
    BY <1>1, <1>6 DEF PromptWithoutJobs
  <2> QED
    BY <2>3, <2>4, <2>6, <2>7 DEF JobsFindNothing
<1>7. \/ jobs' = jobs
      \/ \E upload \in BOOLEAN :
           /\ QueuePending(batch, upload, "none") /\ dialog' = dialog
           /\ IF upload THEN RemoteConflicts(batch) = {} ELSE LocalConflicts(batch) = {}
  BY DEF PerformUpload, PerformDownload, QueueOrAsk, queueVars
<1> QED
  BY <1>1, <1>2, <1>5, <1>6, <1>7, QueuedAlone DEF Types

\* What a job finds at its destination when its turn comes.
LEMMA BeginsAtDestination ==
  ASSUME Types, UserAlone, JobsFindNothing, TransferBegins
  PROVE  LET job == Head(jobs)
         IN /\ job \in Job /\ job.address \in Hosts /\ serving' = job.address
            /\ IF job.upload
               THEN /\ remote' = [remote EXCEPT ![job.address][job.name] = Outcome(job, @)]
                    /\ local' = local
               ELSE /\ local' = [local EXCEPT ![job.name] = Outcome(job, @)]
                    /\ remote' = remote
            /\ Unasked(job) => AtDestination(job) = Absent
<1>1. /\ jobs # <<>> /\ serving = Nowhere
      /\ 1 \in DOMAIN jobs /\ Head(jobs) = jobs[1] /\ Head(jobs) \in Job
  BY HeadType DEF TransferBegins, Types
<1>2. Head(jobs).address \in Hosts /\ Head(jobs).address \in Addresses
  BY <1>1 DEF JobsFindNothing, DirectAddresses, Addresses
<1>3. HostOf(Head(jobs).address) = Head(jobs).address
  BY <1>2, HostOfType, ConstantsAssumption DEF Types
<1>4. Unasked(Head(jobs)) => AtDestination(Head(jobs)) = Absent
  BY <1>1 DEF JobsFindNothing, StillFree
<1> QED
  BY <1>1, <1>2, <1>3, <1>4 DEF TransferBegins

\* The running transfer writes at its own destination only.
LEMMA OthersFindNothing ==
  ASSUME Types, UserAlone, JobsFindNothing, TransferBegins
  PROVE  JobsFindNothing'
<1> DEFINE job == Head(jobs)
<1>1. /\ jobs' = jobs /\ UNCHANGED sessionVars
      /\ jobs # <<>> /\ 1 \in DOMAIN jobs /\ job = jobs[1]
  BY HeadType DEF TransferBegins, Types
<1>2. /\ job \in Job /\ job.address \in Hosts /\ serving' = job.address
      /\ IF job.upload
         THEN /\ remote' = [remote EXCEPT ![job.address][job.name] = Outcome(job, @)]
              /\ local' = local
         ELSE /\ local' = [local EXCEPT ![job.name] = Outcome(job, @)]
              /\ remote' = remote
  BY BeginsAtDestination
<1> HIDE DEF job
<1>3. serving' # Nowhere
  BY <1>2, ConstantsAssumption
<1>4. ASSUME NEW i \in DOMAIN jobs, i # 1, Unasked(jobs[i])
      PROVE  IF jobs[i].upload THEN remote'[jobs[i].address][jobs[i].name] = Absent
                               ELSE local'[jobs[i].name] = Absent
  <2>1. /\ jobs[i].name # job.name
        /\ AtDestination(jobs[i]) = Absent
        /\ jobs[i].address \in Hosts
    BY <1>1, <1>4 DEF JobsFindNothing, OneEach, StillFree, DirectAddresses
  <2>2. jobs[i].name \in Names
    <3>1. jobs \in Seq(Job)
      BY DEF Types, QueueTypes
    <3>2. jobs[i] \in Job
      BY <3>1
    <3> QED
      BY <3>2 DEF Job
  <2> QED
    BY <1>2, <2>1, <2>2 DEF AtDestination, Types, FileTypes
<1>5. StillFree'
  BY <1>1, <1>3, <1>4 DEF StillFree, AtDestination
<1> QED
  BY <1>1, <1>5 DEF JobsFindNothing, DirectAddresses, PromptWithoutJobs, OneEach, sessionVars

LEMMA JobsFindNothingStep ==
  ASSUME Types, AsksTheRightHost, JobsFindNothing, [Next]_vars
  PROVE  JobsFindNothing'
<1> SUFFICES ASSUME UserAlone
             PROVE  JobsFindNothing'
  BY DEF JobsFindNothing
<1> USE DEF Types
<1>1. /\ DirectAddresses /\ PromptWithoutJobs /\ OneEach /\ StillFree
      /\ Circumstances \cap {"cancel", "tunnel", "overlap", "others"} = {}
  BY DEF JobsFindNothing, UserAlone
<1>2. ASSUME jobs' = jobs, serving' = serving, UNCHANGED fileVars,
             active'.address \notin LocalPorts, pane'.address \notin LocalPorts,
             dialog' = "overwrite" => dialog = "overwrite"
      PROVE  JobsFindNothing'
  BY <1>1, <1>2 DEF JobsFindNothing, DirectAddresses, PromptWithoutJobs, OneEach, StillFree,
                    AtDestination, fileVars
<1>3. CASE OpenSiteManager \/ CloseSiteManager \/ CancelPrompt \/ TunnelChanges
  BY <1>1, <1>2, <1>3 DEF OpenSiteManager, CloseSiteManager, CancelPrompt, TunnelChanges,
                          queueVars, DirectAddresses
<1>4. CASE \E address \in Hosts \cup LocalPorts : ConnectDirectly(address)
  <2>1. PICK address \in Hosts \cup LocalPorts : ConnectDirectly(address)
    BY <1>4
  <2>2. address \notin LocalPorts /\ dialog = "sites"
        /\ jobs' = jobs /\ serving' = serving /\ UNCHANGED fileVars
    BY <1>1, <2>1 DEF ConnectDirectly, queueVars
  <2>3. pane'.address = address
    <3>1. CASE \E scp \in MayBeScp, complete \in BOOLEAN : PaneRejects(address, scp, complete)
      BY <3>1, PaneRejectsAddress
    <3>2. CASE \/ PaneUnlisted(address) \/ PaneListFails(address)
               \/ PaneLists(address, HostOf(address))
               \/ \E complete \in BOOLEAN : PaneTransferOnly(address, complete)
      BY <3>2 DEF PaneUnlisted, PaneListFails, PaneLists, PaneTransferOnly, PaneConnected
    <3> QED
      BY <2>1, <3>1, <3>2 DEF ConnectDirectly
  <2>4. active'.address \in {address, active.address} /\ dialog' # "overwrite"
    BY <2>1, <2>2 DEF ConnectDirectly, SessionOpened, SessionNotOpened
  <2> QED
    BY <1>1, <1>2, <2>2, <2>3, <2>4 DEF DirectAddresses
<1>5. CASE \E port \in LocalPorts, host \in Hosts : ConnectThroughTunnel(port, host)
  BY <1>1, <1>5 DEF ConnectThroughTunnel
<1>6. CASE Disconnect
  <2>1. /\ active'.address = Nowhere /\ pane'.address = Nowhere
        /\ jobs' = <<>> /\ dialog' = "none"
    BY <1>6 DEF Disconnect, JobsAfterDisconnect, SessionTypes, Actives
  <2> QED
    BY <2>1, ConstantsAssumption
    DEF JobsFindNothing, DirectAddresses, PromptWithoutJobs, OneEach, StillFree
<1>7. CASE Browse
  BY <1>1, <1>2, <1>7, RefreshKeepsConnection DEF Browse, queueVars, DirectAddresses
<1>8. CASE PaneCommand
  <2>1. jobs = <<>> /\ jobs' = jobs
    BY <1>1, <1>8 DEF PaneCommand, queueVars
  <2>2. pane'.address = pane.address /\ active' = active /\ dialog' = dialog
    BY <1>8, RefreshKeepsConnection
  <2> QED
    BY <1>1, <2>1, <2>2
    DEF JobsFindNothing, DirectAddresses, PromptWithoutJobs, OneEach, StillFree
<1>9. CASE \E batch \in Batches : PerformUpload(batch) \/ PerformDownload(batch)
  BY <1>9, QueuedFindNothing
<1>10. CASE \E policy \in Answers : AnswerPrompt(policy)
  BY <1>10, AnsweredFindNothing
<1>11. CASE TransferBegins
  BY <1>11, OthersFindNothing
<1>12. CASE TransferCompletes \/ TransferFails
  <2>1. /\ active' = active /\ serving' = Nowhere /\ UNCHANGED fileVars
        /\ jobs # <<>>
        /\ \A i \in DOMAIN jobs' : i + 1 \in DOMAIN jobs /\ jobs'[i] = jobs[i + 1]
    BY <1>12, TransferEnds DEF TransferCompletes, TransferFails
  <2>2. pane'.address = pane.address /\ dialog' = dialog
    BY <1>12, RefreshKeepsConnection DEF TransferFails, sessionVars
  <2>3. jobs' \in Seq(Job) /\ DOMAIN jobs' \subseteq Nat \ {0}
    BY <1>12, QueueTypesStep DEF QueueTypes, Next
  <2>4. DirectAddresses'
    BY <1>1, <2>1, <2>2 DEF DirectAddresses
  <2>5. PromptWithoutJobs'
    BY <1>1, <2>1, <2>2 DEF PromptWithoutJobs
  <2>6. OneEach'
    <3>1. ASSUME NEW i \in DOMAIN jobs', NEW j \in DOMAIN jobs', i # j, Unasked(jobs'[i])
          PROVE  jobs'[i].name # jobs'[j].name
      <4>1. i + 1 # j + 1
        BY <2>3, <3>1
      <4>2. /\ i + 1 \in DOMAIN jobs /\ jobs'[i] = jobs[i + 1]
            /\ j + 1 \in DOMAIN jobs /\ jobs'[j] = jobs[j + 1]
        BY <2>1
      <4> QED
        BY <1>1, <3>1, <4>1, <4>2 DEF OneEach
    <3> QED
      BY <3>1 DEF OneEach
  <2>7. StillFree'
    BY <1>1, <2>1, <2>3 DEF StillFree, AtDestination, fileVars
  <2> QED
    BY <2>4, <2>5, <2>6, <2>7 DEF JobsFindNothing
<1>13. CASE OthersWrite
  BY <1>1, <1>13 DEF OthersWrite
<1>14. CASE UNCHANGED vars
  BY <1>1, <1>2, <1>14 DEF vars, sessionVars, queueVars, DirectAddresses
<1> QED
  BY <1>3, <1>4, <1>5, <1>6, <1>7, <1>8, <1>9, <1>10, <1>11, <1>12, <1>13, <1>14 DEF Next

\* An answer other than Replace leaves what is there.
LEMMA OutcomeReplaces ==
  ASSUME NEW job \in Job, NEW content, content # Absent, Outcome(job, content) # content
  PROVE  job.policy \in {"none", "replace"}
BY DEF Outcome, Writes

\* Only the running transfer replaces something, and only as its policy says.
LEMMA ReplacingStep ==
  ASSUME Types, JobsFindNothing, [Next]_vars, UserAlone
  PROVE  /\ ReplacesUploads => Head(jobs).policy = "replace" \/ Head(jobs).scp
         /\ ReplacesDownloads => Head(jobs).policy = "replace"
<1> USE DEF Types
<1>1. CASE UNCHANGED fileVars
  BY <1>1 DEF fileVars, ReplacesUploads, ReplacesDownloads, Replaced
<1>2. CASE PaneCommand
  <2>1. \E host \in Hosts, name \in Names, content \in {Absent, Theirs} :
          remote' = [remote EXCEPT ![host][name] = content]
    <3>1. HostOf(pane.address) \in Hosts
      BY <1>2, ArrivesAtHost DEF PaneCommand, PaneCommandRuns, SessionTypes, Panes
    <3> QED
      BY <1>2, <3>1 DEF PaneCommand
  <2>2. Absent \notin Ids /\ Theirs \notin Ids
    BY ConstantsAssumption DEF Absent, Theirs, Ids
  <2>3. ~ReplacesUploads
    BY <2>1, <2>2 DEF ReplacesUploads, Replaced, FileTypes
  <2>4. ~ReplacesDownloads
    BY <1>2 DEF PaneCommand, ReplacesDownloads, Replaced
  <2> QED
    BY <2>3, <2>4
<1>3. CASE TransferBegins
  <2> DEFINE job == Head(jobs)
  <2>1. /\ job \in Job /\ job.address \in Hosts
        /\ IF job.upload
           THEN /\ remote' = [remote EXCEPT ![job.address][job.name] = Outcome(job, @)]
                /\ local' = local
           ELSE /\ local' = [local EXCEPT ![job.name] = Outcome(job, @)]
                /\ remote' = remote
        /\ Unasked(job) => AtDestination(job) = Absent
    BY <1>3, BeginsAtDestination
  <2> HIDE DEF job
  <2>2. job.name \in Names /\ job.upload \in BOOLEAN /\ job.scp \in BOOLEAN
    BY <2>1 DEF Job
  <2>3. CASE job.upload
    <3>1. ~ReplacesDownloads
      BY <2>1, <2>3 DEF ReplacesDownloads, Replaced
    <3>2. ASSUME NEW name \in Names, NEW host \in Hosts,
                 Replaced(remote[host][name], remote'[host][name])
          PROVE  job.policy = "replace" \/ job.scp
      <4>1. host = job.address /\ name = job.name
        BY <2>1, <2>2, <2>3, <3>2 DEF FileTypes, Replaced
      <4>2. /\ AtDestination(job) # Absent
            /\ Outcome(job, AtDestination(job)) # AtDestination(job)
        BY <2>1, <2>2, <2>3, <3>2, <4>1 DEF FileTypes, Replaced, AtDestination
      <4>3. job.policy \in {"none", "replace"}
        BY <2>1, <4>2, OutcomeReplaces
      <4> QED
        BY <2>1, <4>2, <4>3 DEF Unasked
    <3> QED
      BY <3>1, <3>2 DEF ReplacesUploads, job
  <2>4. CASE ~job.upload
    <3>1. ~ReplacesUploads
      BY <2>1, <2>4 DEF ReplacesUploads, Replaced
    <3>2. ASSUME NEW name \in Names, Replaced(local[name], local'[name])
          PROVE  job.policy = "replace"
      <4>1. name = job.name
        BY <2>1, <2>2, <2>4, <3>2 DEF FileTypes, Replaced
      <4>2. /\ AtDestination(job) # Absent
            /\ Outcome(job, AtDestination(job)) # AtDestination(job)
        BY <2>1, <2>2, <2>4, <3>2, <4>1 DEF FileTypes, Replaced, AtDestination
      <4>3. job.policy \in {"none", "replace"}
        BY <2>1, <4>2, OutcomeReplaces
      <4> QED
        BY <2>1, <2>4, <4>2, <4>3 DEF Unasked
    <3> QED
      BY <3>1, <3>2 DEF ReplacesDownloads, job
  <2> QED
    BY <2>3, <2>4
<1>4. CASE OthersWrite
  BY <1>4 DEF OthersWrite, UserAlone
<1>5. CASE \/ OpenSiteManager \/ CloseSiteManager \/ Disconnect \/ TunnelChanges
           \/ \E address \in Hosts \cup LocalPorts : ConnectDirectly(address)
           \/ \E port \in LocalPorts, host \in Hosts : ConnectThroughTunnel(port, host)
           \/ Browse \/ CancelPrompt
  BY <1>1, <1>5 DEF OpenSiteManager, CloseSiteManager, Disconnect, TunnelChanges,
                    ConnectDirectly, ConnectThroughTunnel, Browse, CancelPrompt
<1>6. CASE QueueingStep \/ TransferCompletes \/ TransferFails
  BY <1>1, <1>6 DEF QueueingStep, PerformUpload, PerformDownload, AnswerPrompt,
                    TransferCompletes, TransferFails
<1>7. CASE UNCHANGED vars
  BY <1>1, <1>7 DEF vars
<1> QED
  BY <1>2, <1>3, <1>4, <1>5, <1>6, <1>7 DEF Next, QueueingStep

-----------------------------------------------------------------------------

Inv ==
  /\ Types
  /\ PaneShowsItsHost
  /\ PromptIsAboutPending
  /\ AsksTheRightHost /\ PromptNeedsPane
  /\ NoTransferWithoutSession
  /\ JobsAsked
  /\ TransfersReachTheirHost
  /\ JobsFindNothing

LEMMA InitInv == Init => Inv
<1> SUFFICES ASSUME Init
             PROVE  Inv
  OBVIOUS
<1>1. /\ pane.connected = FALSE /\ dialog = "none" /\ jobs = <<>> /\ serving = Nowhere
      /\ pendingUploads = <<>> /\ pendingDownloads = <<>> /\ conflicting = {}
  BY DEF Init
<1>2. active.address \notin LocalPorts /\ pane.address \notin LocalPorts
  BY ConstantsAssumption DEF Init
<1> QED
  BY <1>1, <1>2, InitTypes
  DEF Inv, PaneShowsItsHost, PromptIsAboutPending, AsksTheRightHost, PromptNeedsPane,
      NoTransferWithoutSession, JobsAsked, TransfersReachTheirHost, JobsFindNothing,
      DirectAddresses, PromptWithoutJobs, OneEach, StillFree

LEMMA NextInv == Inv /\ [Next]_vars => Inv'
BY TypesStep, PaneStep, PromptStep, AsksStep, NoTransferWithoutSessionStep, JobsAskedStep,
   TransfersReachTheirHostStep, JobsFindNothingStep
DEF Inv, Types

\* The inductive invariant holds in every reachable state.
THEOREM InvHolds == Spec => []Inv
BY InitInv, NextInv, PTL DEF Spec

\* Pane, session, prompt, queue and files are well typed in every state.
THEOREM SessionTypeCorrect == Spec => []TypeOK
<1>1. Inv => TypeOK
  BY TypesAreTypeOK DEF Inv
<1> QED
  BY <1>1, InvHolds, PTL

\* For any hosts, ports and tunnels: the rows of the remote pane are never
\* those of one host while a command of the pane goes to another.
THEOREM PaneAlwaysShowsItsHost == Spec => []PaneShowsItsHost
<1>1. Inv => PaneShowsItsHost
  BY DEF Inv
<1> QED
  BY <1>1, InvHolds, PTL

\* The overwrite prompt is always about the one batch its answer queues.
THEOREM PromptIsAlwaysAboutPending == Spec => []PromptIsAboutPending
<1>1. Inv => PromptIsAboutPending
  BY DEF Inv
<1> QED
  BY <1>1, InvHolds, PTL

\* The host asked about conflicts is the one that gets the transfers, as long
\* as the Site Manager is left by connecting only.
THEOREM RightHostIsAsked == Spec => []AsksTheRightHost
<1>1. Inv => AsksTheRightHost
  BY DEF Inv
<1> QED
  BY <1>1, InvHolds, PTL

\* No transfer waits while no session is active, however many were queued.
THEOREM TransfersHaveASession == Spec => []NoTransferWithoutSession
<1>1. Inv => NoTransferWithoutSession
  BY DEF Inv
<1> QED
  BY <1>1, InvHolds, PTL

\* However long a transfer waits and whatever is connected in the meantime, it
\* talks to the host it was asked for, or goes through a tunnel.
THEOREM TransfersAlwaysReachTheirHost == Spec => []TransfersReachTheirHost
<1>1. Inv => TransfersReachTheirHost
  BY DEF Inv
<1> QED
  BY <1>1, InvHolds, PTL

\* Alone with the servers, a user who waits for the transfers loses nothing: a
\* transfer replaces a file or a directory only after the answer Replace, or
\* over SCP, which cannot look.
THEOREM NothingIsReplacedUnasked == Spec => NothingReplacedUnasked
<1>1. Inv /\ [Next]_vars =>
        [Circumstances \subseteq {"scp"} =>
           /\ ReplacesUploads => Head(jobs).policy = "replace" \/ Head(jobs).scp
           /\ ReplacesDownloads => Head(jobs).policy = "replace"]_vars
  BY ReplacingStep DEF Inv, UserAlone
<1> QED
  BY <1>1, InvHolds, PTL DEF Spec, NothingReplacedUnasked
=============================================================================
