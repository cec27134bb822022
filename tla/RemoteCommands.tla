--------------------------- MODULE RemoteCommands ---------------------------
(***************************************************************************)
(* The remote-... and sftp-... commands of crates/crossscp-cli/src/main.rs *)
(* as one process from its arguments to its exit code, and the GUI's       *)
(* AppBackend::runCommand, which starts it and kills it after two minutes. *)
(* What the adapters do is in other modules: here an operation is a number *)
(* of requests to the server, each answered before the next.               *)
(***************************************************************************)
EXTENDS Naturals, Sequences, SequencesExt

CONSTANTS
  Requests, \* [style, command, protocol, given, conflict, junk, port, user, gui]:
            \* style "remote" (flags) or "sftp" (positional); given: the flags
            \* with a value; junk: an unknown flag, or one without a value
  Systems,  \* [vars, timeout, linked]: the variables of the environment that
            \* are set, to "blank" or "system", CROSSSCP_SFTP_TIMEOUT_SECS in
            \* minutes, and whether the ssh2 backend is built in
  Logins,   \* subsets of {"password", "key"}: what the GUI's user enters
  Calls     \* bound: requests of one operation to the server

ASSUME CallsAssumption == Calls \in Nat \ {0}

VARIABLES
  request, system, login,    \* what is asked, in which environment
  caller,                    \* "asking", "waiting", "ok" or "failed"
  step, secret, called,      \* the process: its next step, its credential, its adapter call
  sent, acted, printed, exit,
  minutes, since             \* since the start, and since the last answer

asked == <<request, system, login>>
time == <<minutes, since>>
vars == <<asked, caller, step, secret, called, sent, acted, printed, exit, time>>

Transfers == {"upload", "download"}
Live == {"sftp", "scp", "ftp", "ftps"}
Protocols == Live \cup {"webdav", "s3", "local"}
None == [op |-> "none", protocol |-> "none", policy |-> "none", bye |-> FALSE]
NoSecret == [kind |-> "none", of |-> "none"]
Running == [code |-> "none", why |-> "none"]
CallerLimit == 2   \* runCommand: 120 s

-----------------------------------------------------------------------------
(* What a protocol can do: ProtocolCapabilities                            *)

SftpCan == {"list", "upload", "download", "delete", "mkdir"}
ScpTransferOnly == Transfers
FtpLike == SftpCan \cup {"rename"}
WebDavCan == FtpLike
S3Can == FtpLike
LocalCan == {}
CapabilitiesFor(protocol) ==
  CASE protocol = "sftp"            -> SftpCan
    [] protocol = "scp"             -> ScpTransferOnly
    [] protocol \in {"ftp", "ftps"} -> FtpLike
    [] protocol = "webdav"          -> WebDavCan
    [] protocol = "s3"              -> S3Can
    [] protocol = "local"           -> LocalCan

-----------------------------------------------------------------------------
(* Arguments                                                               *)

FileConflictPolicies == {"keep_existing", "replace", "keep_both"}
ParseRemoteArgs(r) ==
  /\ ~r.junk
  /\ "protocol" \in r.given => r.protocol \in Protocols
  /\ r.conflict \in FileConflictPolicies \cup {"none"}

RemoteProtocol(r) == "protocol" \in r.given
HasDefaultPort(protocol) == protocol # "local"
RemoteHostPortUsername(r) ==
  /\ RemoteProtocol(r)
  /\ "host" \in r.given
  /\ "port" \in r.given \/ HasDefaultPort(r.protocol)
  /\ "username" \in r.given

Operands(command) ==
  CASE command = "list"               -> {}
    [] command \in Transfers          -> {"local", "remote"}
    [] command \in {"mkdir", "delete"} -> {"path"}
    [] command = "rename"             -> {"from", "to"}

\* The sftp-... commands count their arguments: a host, a port, a name and paths.
Positional(r) ==
  {"host", "port", "username"} \cup (IF r.command = "list" THEN {"path"} ELSE Operands(r.command))

\* There is no sftp-rename, and the sftp-... commands know no conflict policy.
ASSUME RequestsAssumption ==
  \A r \in Requests :
    /\ r.style \in {"remote", "sftp"}
    /\ r.command \in FtpLike \cup {"capabilities", "other"}
    /\ r.style = "sftp" => /\ r.command \in SftpCan \cup {"other"}
                           /\ r.protocol = "sftp" /\ r.conflict = "none"

-----------------------------------------------------------------------------
(* Which adapter is called, and how. bye: it says goodbye to the server.   *)

PolicyOf(r) == IF r.conflict = "none" THEN "replace" ELSE r.conflict
Adapter(protocol, op, policy, bye) ==
  [op |-> op, protocol |-> protocol, policy |-> policy, bye |-> bye]

NotLinked == None
RunSftpList == IF system.linked THEN Adapter("sftp", "list", "none", FALSE) ELSE NotLinked
RunSftpMkdir == IF system.linked THEN Adapter("sftp", "mkdir", "none", FALSE) ELSE NotLinked
RunSftpDelete == IF system.linked THEN Adapter("sftp", "delete", "none", FALSE) ELSE NotLinked
RunSftpTransfer(kind, policy) ==
  IF system.linked THEN Adapter("sftp", kind, policy, FALSE) ELSE NotLinked
RunScpTransfer(kind, policy) ==
  Adapter("scp", kind, IF kind = "upload" THEN "replace" ELSE policy, TRUE)
RunFtpList(protocol) == Adapter(protocol, "list", "none", TRUE)
RunFtpMkdir(protocol) == Adapter(protocol, "mkdir", "none", TRUE)
RunFtpDelete(protocol) == Adapter(protocol, "delete", "none", TRUE)
RunFtpRename(protocol) == Adapter(protocol, "rename", "none", TRUE)
RunFtpTransfer(protocol, kind, conflict) == Adapter(protocol, kind, conflict, TRUE)

Unsupported == None
Ftp(r) == r.protocol \in {"ftp", "ftps"}

RemoteList(r) ==
  CASE r.protocol = "sftp" -> RunSftpList
    [] Ftp(r)              -> RunFtpList(r.protocol)
    [] OTHER               -> Unsupported
\* Faulty variant of RemoteTransfer: SCP uploads whatever the policy is.
ScpUploadsAnyway(r) ==
  CASE r.protocol = "sftp" -> RunSftpTransfer(r.command, PolicyOf(r))
    [] Ftp(r)              -> RunFtpTransfer(r.protocol, r.command, r.conflict)
    [] r.protocol = "scp"  -> RunScpTransfer(r.command, PolicyOf(r))
    [] OTHER               -> Unsupported
RemoteTransfer(r) ==
  CASE r.protocol = "sftp" -> RunSftpTransfer(r.command, PolicyOf(r))
    [] Ftp(r)              -> RunFtpTransfer(r.protocol, r.command, r.conflict)
    [] r.protocol = "scp" /\ (r.command = "download" \/ PolicyOf(r) = "replace")
                           -> RunScpTransfer(r.command, PolicyOf(r))
    [] OTHER               -> Unsupported
RemoteMkdir(r) ==
  CASE r.protocol = "sftp" -> RunSftpMkdir
    [] Ftp(r)              -> RunFtpMkdir(r.protocol)
    [] OTHER               -> Unsupported
RemoteDelete(r) ==
  CASE r.protocol = "sftp" -> RunSftpDelete
    [] Ftp(r)              -> RunFtpDelete(r.protocol)
    [] OTHER               -> Unsupported
RemoteRename(r) == IF Ftp(r) THEN RunFtpRename(r.protocol) ELSE Unsupported

\* main: the sftp-... commands replace; there is no sftp-rename.
SftpCommand(r) ==
  CASE r.command = "list"        -> RunSftpList
    [] r.command = "mkdir"       -> RunSftpMkdir
    [] r.command = "delete"      -> RunSftpDelete
    [] r.command \in Transfers   -> RunSftpTransfer(r.command, "replace")
Plan(r) ==
  IF r.style = "sftp" THEN SftpCommand(r)
  ELSE CASE r.command = "list"      -> RemoteList(r)
         [] r.command \in Transfers -> RemoteTransfer(r)
         [] r.command = "mkdir"     -> RemoteMkdir(r)
         [] r.command = "delete"    -> RemoteDelete(r)
         [] r.command = "rename"    -> RemoteRename(r)

-----------------------------------------------------------------------------
(* The credential                                                          *)

\* runCommand: the environment of the GUI, and what the user has entered over it.
Entered ==
  (IF "password" \in login THEN {"REMOTE_PASSWORD", "SFTP_PASSWORD"} ELSE {})
    \cup (IF "key" \in login THEN {"REMOTE_KEY", "SFTP_KEY"} ELSE {})
Env == [v \in DOMAIN system.vars \cup Entered |-> IF v \in Entered THEN "entered" ELSE system.vars[v]]
FirstSet(names) ==
  LET set == {i \in DOMAIN names : names[i] \in DOMAIN Env}
  IN IF set = {} THEN "unset" ELSE Env[names[CHOOSE i \in set : \A j \in set : i <= j]]

\* An empty password is an error, as is none.
Password(value) ==
  IF value \in {"unset", "blank"} THEN NoSecret ELSE [kind |-> "password", of |-> value]

SshSecretFromEnv(own) ==
  LET key == FirstSet(<<"REMOTE_KEY", own \o "_KEY">>)
  IN IF key \notin {"unset", "blank"} THEN [kind |-> "key", of |-> key]
     ELSE Password(FirstSet(<<"REMOTE_PASSWORD", own \o "_PASSWORD">>))
FtpSecretFromEnv == Password(FirstSet(<<"REMOTE_PASSWORD", "FTP_PASSWORD", "FTPS_PASSWORD">>))

\* The checks before the adapter connects.
ConnectSftp(r) == IF r.port = "number" THEN SshSecretFromEnv("SFTP") ELSE NoSecret
ConnectScp(r) == IF r.port = "number" THEN SshSecretFromEnv("SCP") ELSE NoSecret
ConnectFtp(r) == IF r.port = "number" THEN FtpSecretFromEnv ELSE NoSecret
Credential(r) ==
  CASE Plan(r).protocol = "sftp" -> ConnectSftp(r)
    [] Plan(r).protocol = "scp"  -> ConnectScp(r)
    [] OTHER                     -> ConnectFtp(r)

\* sftp_timeout, for SFTP and SCP: 300 s unless a positive number is set.
SftpTimeout == IF system.timeout > 0 THEN system.timeout ELSE 5

-----------------------------------------------------------------------------
(* The process                                                             *)

Init ==
  /\ request \in Requests /\ system \in Systems
  /\ login \in Logins /\ (~request.gui => login = {})
  /\ caller = "asking" /\ step = "none" /\ secret = NoSecret /\ called = None
  /\ sent = 0 /\ acted = 0 /\ printed = FALSE /\ exit = Running
  /\ minutes = 0 /\ since = 0

Exit(code, why) == exit' = [code |-> code, why |-> why] /\ step' = "exited"

Start ==
  /\ caller = "asking"
  /\ caller' = "waiting" /\ step' = "parse"
  /\ UNCHANGED <<asked, secret, called, sent, acted, printed, exit, time>>
StartFails ==
  /\ caller = "asking" /\ request.gui
  /\ caller' = "failed"
  /\ UNCHANGED <<asked, step, secret, called, sent, acted, printed, exit, time>>

\* A command that main does not know prints the help and succeeds.
Help ==
  /\ step = "parse" /\ request.command = "other"
  /\ Exit("0", "help")
  /\ UNCHANGED <<asked, caller, secret, called, sent, acted, printed, time>>

RunRemoteCapabilities ==
  /\ step = "parse" /\ request.command = "capabilities"
  /\ IF ParseRemoteArgs(request) /\ RemoteProtocol(request)
       THEN Exit("0", "capabilities") ELSE Exit("2", "usage")
  /\ UNCHANGED <<asked, caller, secret, called, sent, acted, printed, time>>

\* Without the ssh2 backend the sftp-... commands do not look at their arguments.
Parse ==
  /\ step = "parse" /\ request.command \notin {"other", "capabilities"}
  /\ IF \/ request.style = "sftp" /\ (system.linked => request.given = Positional(request))
        \/ /\ request.style = "remote" /\ ParseRemoteArgs(request)
           /\ RemoteHostPortUsername(request)
           /\ Operands(request.command) \subseteq request.given
       THEN step' = "dispatch" /\ exit' = exit
       ELSE Exit("2", "usage")
  /\ UNCHANGED <<asked, caller, secret, called, sent, acted, printed, time>>

Dispatch ==
  /\ step = "dispatch"
  /\ IF Plan(request).op = "none" THEN Exit("1", "unsupported")
                                  ELSE step' = "credential" /\ exit' = exit
  /\ UNCHANGED <<asked, caller, secret, called, sent, acted, printed, time>>

\* FTP asks for a name before it connects, SFTP and SCP when they log in.
ReadCredential ==
  /\ step = "credential" /\ secret' = Credential(request)
  /\ IF secret' = NoSecret \/ (request.user = "blank" /\ Plan(request).protocol \notin {"sftp", "scp"})
       THEN Exit("1", "credential") ELSE step' = "connect" /\ exit' = exit
  /\ UNCHANGED <<asked, caller, called, sent, acted, printed, time>>

\* After the handshake.
NoName ==
  /\ step = "connect" /\ request.user = "blank"
  /\ Exit("1", "credential")
  /\ UNCHANGED <<asked, caller, secret, called, sent, acted, printed, time>>

Connected ==
  /\ step = "connect" /\ request.user # "blank"
  /\ step' = "operate" /\ called' = Plan(request) /\ since' = 0
  /\ UNCHANGED <<asked, caller, secret, sent, acted, printed, exit, minutes>>

Send ==
  /\ step = "operate"
  /\ sent' = sent + 1 /\ step' = "answer" /\ since' = 0
  /\ UNCHANGED <<asked, caller, secret, called, acted, printed, exit, minutes>>
\* The server, whether or not the process still waits.
Act ==
  /\ acted < sent
  /\ acted' = acted + 1
  /\ UNCHANGED <<asked, caller, step, secret, called, sent, printed, exit, time>>
\* Faulty variant of Answered: stops one request early.
AnsweredEarly ==
  /\ step = "answer" /\ acted = sent
  /\ step' = IF sent >= Calls - 1 THEN "print" ELSE "operate"
  /\ UNCHANGED <<asked, caller, secret, called, sent, acted, printed, exit, time>>
Answered ==
  /\ step = "answer" /\ acted = sent
  /\ step' = IF sent = Calls THEN "print" ELSE "operate"
  /\ UNCHANGED <<asked, caller, secret, called, sent, acted, printed, exit, time>>

\* The server refuses, or the connection is lost, before or after it has acted.
Refused ==
  /\ step \in {"connect", "answer"}
  /\ Exit("1", "server")
  /\ UNCHANGED <<asked, caller, secret, called, sent, acted, printed, time>>
SshTimesOut ==
  /\ step \in {"connect", "answer"} /\ since >= SftpTimeout
  /\ Plan(request).protocol \in {"sftp", "scp"}
  /\ Exit("1", "timeout")
  /\ UNCHANGED <<asked, caller, secret, called, sent, acted, printed, time>>

Report ==
  /\ step = "print" /\ printed' = TRUE /\ since' = 0
  /\ IF called.bye THEN step' = "goodbye" /\ exit' = exit ELSE Exit("0", "done")
  /\ UNCHANGED <<asked, caller, secret, called, sent, acted, minutes>>

\* Its result is dropped.
Goodbye ==
  /\ step = "goodbye"
  /\ Exit("0", "done")
  /\ UNCHANGED <<asked, caller, secret, called, sent, acted, printed, time>>

-----------------------------------------------------------------------------
(* The caller                                                              *)

Minute ==
  /\ caller = "waiting" /\ step \in {"connect", "answer", "goodbye"}
  /\ minutes < (IF request.gui THEN CallerLimit ELSE SftpTimeout)
  /\ minutes' = minutes + 1 /\ since' = since + 1
  /\ UNCHANGED <<asked, caller, step, secret, called, sent, acted, printed, exit>>

Collect ==
  /\ caller = "waiting" /\ step = "exited"
  /\ caller' = IF exit.code = "0" THEN "ok" ELSE "failed"
  /\ UNCHANGED <<asked, step, secret, called, sent, acted, printed, exit, time>>

\* Faulty variant of GiveUp: the process goes on.
GiveUpWithoutKill ==
  /\ caller = "waiting" /\ request.gui /\ step # "exited" /\ minutes = CallerLimit
  /\ caller' = "failed"
  /\ UNCHANGED <<asked, step, exit, secret, called, sent, acted, printed, time>>
\* Faulty variant of GiveUp: only while the server has not been asked for anything.
GiveUpConnecting ==
  /\ caller = "waiting" /\ request.gui /\ step = "connect" /\ minutes = CallerLimit
  /\ caller' = "failed" /\ Exit("-1", "killed")
  /\ UNCHANGED <<asked, secret, called, sent, acted, printed, time>>
GiveUp ==
  /\ caller = "waiting" /\ request.gui /\ step # "exited" /\ minutes = CallerLimit
  /\ caller' = "failed" /\ Exit("-1", "killed")
  /\ UNCHANGED <<asked, secret, called, sent, acted, printed, time>>

Stopped == caller \in {"ok", "failed"} /\ UNCHANGED vars

\* What the process does by itself, without an answer of the server.
Process ==
  Help \/ RunRemoteCapabilities \/ Parse \/ Dispatch \/ ReadCredential \/ Send
    \/ Answered \/ Report \/ SshTimesOut
Waiting == Start \/ Minute \/ Collect \/ GiveUp

Next == Process \/ Waiting \/ StartFails \/ NoName \/ Connected \/ Act \/ Refused \/ Goodbye \/ Stopped

Spec == Init /\ [][Next]_vars /\ WF_vars(Process) /\ WF_vars(Waiting)

-----------------------------------------------------------------------------
(* Properties                                                              *)

\* Every variable has its type, and no more is done than is sent.
TypeOK ==
  /\ request \in Requests /\ system \in Systems /\ login \in Logins
  /\ caller \in {"asking", "waiting", "ok", "failed"}
  /\ step \in {"none", "parse", "dispatch", "credential", "connect", "operate", "answer",
               "print", "goodbye", "exited"}
  /\ secret.kind \in {"none", "password", "key"}
  /\ acted \in 0..sent /\ sent \in 0..Calls /\ printed \in BOOLEAN
  /\ minutes \in Nat /\ since \in 0..minutes

\* What reaches the server is the operation that was asked for, on that
\* protocol, and under the conflict policy that was asked for: a policy which
\* an adapter cannot keep is refused, not dropped.
AsTold ==
  sent > 0 =>
    /\ called.op = request.command /\ called.protocol = request.protocol
    /\ request.command \in Transfers /\ request.conflict # "none" => called.policy = request.conflict

\* remote-capabilities tells the truth about the live protocols: what it says a
\* protocol cannot do never reaches the server, and what it says it can do is
\* refused only as an SCP upload that would have to look first.
CapableIffReached ==
  request.protocol \in Live =>
    /\ sent > 0 => request.command \in CapabilitiesFor(request.protocol)
    /\ exit.why = "unsupported" /\ system.linked =>
         \/ request.command \notin CapabilitiesFor(request.protocol)
         \/ request.protocol = "scp" /\ PolicyOf(request) # "replace"

\* If the GUI is told that an operation succeeded, the server has carried out all of it.
OkIsDone == caller = "ok" /\ exit.why = "done" => acted = Calls

\* After "completed" a command fails only by being killed: saying goodbye to
\* the server cannot turn success into failure.
CompletedIsNotFailed == printed => exit.code \in {"none", "0", "-1"}

\* A key that the user enters is the one SSH gets, and an entered password the
\* one FTP gets, whatever the environment of the GUI holds.
LoginIsUsed ==
  sent > 0 =>
    /\ "key" \in login /\ request.protocol = "sftp" => secret = [kind |-> "key", of |-> "entered"]
    /\ "key" \in login /\ request.protocol = "scp" => secret = [kind |-> "key", of |-> "entered"]
    /\ "password" \in login /\ Ftp(request) => secret = [kind |-> "password", of |-> "entered"]

\* Once the GUI has its answer, also the one that it has given up, the process
\* sends nothing more; the server may still carry out the last request.
NothingSentAfterAnswer == [][caller # "asking" /\ caller # "waiting" => sent' = sent]_vars

\* The GUI, whose only thread waits, gets an answer even if the server never does.
CallerAnswered == (caller = "waiting" /\ request.gui) ~> (caller # "waiting")

\* Not so: the key or the password that the help names for the sftp-...
\* commands is found whatever else is set.
NamedVariableIsFound ==
  request.style = "sftp" /\ exit.why = "credential" /\ request.port = "number" /\ request.user = "named" =>
    \A v \in {"SFTP_KEY", "SFTP_PASSWORD"} \cap DOMAIN system.vars : system.vars[v] = "blank"

\* Not so: an operation over SSH is given the whole timeout.
TimeoutIsKept ==
  exit.why = "killed" /\ called.protocol = "sftp" => since >= SftpTimeout

=============================================================================
