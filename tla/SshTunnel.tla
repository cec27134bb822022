----------------------------- MODULE SshTunnel -----------------------------
(***************************************************************************)
(* The tunnel of apps/crossscp-gui/cpp/AppBackend.cpp: one ssh process,    *)
(* the askpass helper and the config file it is given, and the members     *)
(* that remember their paths.  Both paths are made from the process id of  *)
(* the application, so there is one file of each kind.                     *)
(*                                                                         *)
(* Each start is one action from its validation to its return: it blocks   *)
(* the GUI thread until ssh has run for 1.2 seconds or is gone.            *)
(***************************************************************************)
CONSTANTS
  Hosts,       \* the servers a tunnel can lead to
  LocalPorts,  \* the local addresses it can listen on
  Nowhere      \* no host and no address

ASSUME AddressesAssumption == Nowhere \notin Hosts \cup LocalPorts

VARIABLES
  process,  \* sshTunnelProcess_: none, or how far ssh has come
  forward,  \* the local port and the host of the -L argument
  given,    \* the files ssh was told to use
  named,    \* which of sshAskPassPath_ and sshConfigPath_ hold a path
  disk      \* which of the files exist

tunnelVars == <<process, forward, given, named, disk>>

Files == {"askpass", "config"}

NoForward == [port |-> Nowhere, host |-> Nowhere]
Forwards == [port : LocalPorts, host : Hosts]

LivePhases == {"connecting", "forwarding"}

TunnelTypeOK ==
  /\ process \in {"none", "ended"} \cup LivePhases
  /\ forward \in {NoForward} \cup Forwards
  /\ given \subseteq Files
  /\ named \subseteq Files
  /\ disk \subseteq Files
  /\ process = "none" <=> forward = NoForward

TunnelInit ==
  /\ process = "none"
  /\ forward = NoForward
  /\ given = {}
  /\ named = {}
  /\ disk = {}

-----------------------------------------------------------------------------

\* stopSshTunnel returns at once if there is no process, paths or not.
NamedAfterStop == IF process = "none" THEN named ELSE {}

DiskAfterStop == IF process = "none" THEN disk ELSE disk \ named

\* Faulty variant of DiskAfterWriting: the old tunnel is stopped too late.
DiskWrittenThenStopped(files) ==
  IF process = "none" THEN disk \cup files ELSE (disk \cup files) \ named

\* The old tunnel is stopped before the files of the new one are written.
DiskAfterWriting(files) == DiskAfterStop \cup files

\* Faulty variant of NoProcessLeft: a failed start keeps the pointer.
ProcessKept ==
  /\ process' = "ended"
  /\ UNCHANGED forward
  /\ given' = {}

\* sshTunnelProcess_ = nullptr
NoProcessLeft ==
  /\ process' = "none"
  /\ forward' = NoForward
  /\ given' = {}

\* ssh runs when the grace period is over.
Started(port, host, files) ==
  /\ process' \in LivePhases
  /\ forward' = [port |-> port, host |-> host]
  /\ given' = files

StopSshTunnel ==
  /\ NoProcessLeft
  /\ named' = NamedAfterStop
  /\ disk' = DiskAfterStop

(***************************************************************************)
(* startSshTunnel, for arguments it accepts.  The helper is written if     *)
(* there is a jump password.  A helper that cannot be opened leaves its    *)
(* path behind.                                                            *)
(***************************************************************************)
StartSshTunnel(port, host, password) ==
  LET files == IF password THEN {"askpass"} ELSE {}
      names == NamedAfterStop \cup files
      written == DiskAfterWriting(files)
  IN \/ /\ password
        /\ NoProcessLeft
        /\ named' = names
        /\ disk' = DiskAfterStop
     \/ /\ NoProcessLeft
        /\ named' = names \ {"askpass"}
        /\ disk' = written \ (names \cap {"askpass"})
     \/ /\ Started(port, host, files)
        /\ named' = names
        /\ disk' = written

\* startProxyJumpTunnel gives ssh other arguments and does the same.
StartProxyJumpTunnel(port, host, password) == StartSshTunnel(port, host, password)

(***************************************************************************)
(* startManagedNestedTunnel writes the config file, then the helper, which *)
(* holds the passwords of the hops.  The three ways to fail are a config   *)
(* that cannot be opened, a helper that cannot be opened, and an ssh that  *)
(* does not start or does not last; only the last one calls stopSshTunnel. *)
(***************************************************************************)

\* Faulty variant of StartManagedNestedTunnel: a helper that cannot be opened
\* leaves the config file.
StartNestedKeepsConfig(port, host) ==
  \/ /\ NoProcessLeft
     /\ named' = NamedAfterStop \cup Files
     /\ disk' = DiskAfterStop \cup {"config"}
  \/ /\ Started(port, host, Files)
     /\ named' = Files
     /\ disk' = Files

StartManagedNestedTunnel(port, host) ==
  \/ /\ NoProcessLeft
     /\ named' = NamedAfterStop \cup {"config"}
     /\ disk' = DiskAfterStop
  \/ /\ NoProcessLeft
     /\ named' = (NamedAfterStop \ {"config"}) \cup {"askpass"}
     /\ disk' = DiskAfterStop \ {"config"}
  \/ /\ NoProcessLeft
     /\ named' = {}
     /\ disk' = DiskAfterStop \ Files
  \/ /\ Started(port, host, Files)
     /\ named' = Files
     /\ disk' = Files

\* ssh has logged in and listens on the local port.
SshForwards ==
  /\ process = "connecting"
  /\ process' = "forwarding"
  /\ UNCHANGED <<forward, given, named, disk>>

\* ssh ends by itself: no slot is connected to it.
SshEnds ==
  /\ process \in LivePhases
  /\ process' = "ended"
  /\ UNCHANGED <<forward, given, named, disk>>

TunnelNext ==
  \/ \E port \in LocalPorts, host \in Hosts :
       \/ \E password \in BOOLEAN : \/ StartSshTunnel(port, host, password)
                                     \/ StartProxyJumpTunnel(port, host, password)
       \/ StartManagedNestedTunnel(port, host)
  \/ StopSshTunnel
  \/ SshForwards
  \/ SshEnds

TunnelSpec == TunnelInit /\ [][TunnelNext]_tunnelVars

-----------------------------------------------------------------------------

\* No helper or config file, which may hold passwords, is on disk without a
\* tunnel, whichever of the early returns ended the last start.
NothingLeftBehind == process = "none" => disk = {}

\* A file on disk is one that the next stop removes: its path is remembered.
FilesAreNamed == disk \subseteq named

\* ssh never loses a file it was told to use: no start, failed or not, removes
\* a file of the process that runs after it.
FilesKept == process \in LivePhases => given \subseteq disk

\* The tunnel as the session sees it.
Service == INSTANCE TunnelService
             WITH tunnel <- [phase |-> process, port |-> forward.port,
                             host |-> forward.host]

\* Every start, stop and end is one of the service's.
ImplementsTunnelService == Service!Spec

=============================================================================
