----------------------- MODULE RemoteCommands_proofs -----------------------
(***************************************************************************)
(* Theorems about a command of the CLI, for every request, environment and *)
(* number of requests to the server: what reaches the server is what was   *)
(* asked for, success means that all of it was done, and after the answer  *)
(* nothing more is sent.                                                   *)
(*                                                                         *)
(* The invariant ties each step of the process to what it has done so far: *)
(* who may send has planned and has a credential (Planned), and the        *)
(* counters say how far the server has got (Counted).                      *)
(***************************************************************************)
EXTENDS RemoteCommands, TLAPS

Parsed == {"dispatch", "credential", "connect", "operate", "answer", "print", "goodbye"}
Planning == Parsed \ {"dispatch"}
Calling == {"operate", "answer", "print", "goodbye"}
Steps == {"none", "parse", "exited"} \cup Parsed

AskedOK ==
  /\ request \in Requests /\ system \in Systems /\ login \in Logins
  /\ step \in Steps
  /\ step \in Parsed => request.command \in FtpLike
  /\ caller \in {"asking", "waiting", "ok", "failed"}
  /\ caller = "asking" => step = "none"
  /\ caller = "waiting" => step # "none"
  /\ caller # "waiting" => step \in {"none", "exited"}
  /\ step # "exited" => exit = Running
  /\ secret.kind \in {"none", "password", "key"}
  /\ minutes \in Nat /\ since \in 0..minutes

Planned ==
  /\ step \in Planning => Plan(request).op # "none"
  /\ step \in {"connect"} \cup Calling =>
       secret = Credential(request) /\ secret # NoSecret
  /\ step \in Calling => called = Plan(request)
  /\ sent > 0 => /\ request.command \in FtpLike /\ Plan(request).op # "none"
                 /\ called = Plan(request)
                 /\ secret = Credential(request) /\ secret # NoSecret
  /\ exit.why = "unsupported" => request.command \in FtpLike /\ Plan(request).op = "none"

Counted ==
  /\ sent \in 0..Calls /\ acted \in 0..sent /\ printed \in BOOLEAN
  /\ step \in Steps \ {"operate", "answer", "print", "goodbye", "exited"} => sent = 0
  /\ step = "operate" => sent < Calls
  /\ step \in {"print", "goodbye"} \/ exit.why = "done" => sent = Calls /\ acted = Calls
  /\ printed => step \in {"goodbye", "exited"} /\ exit.code \in {"none", "0", "-1"}

Inv == AskedOK /\ Planned /\ Counted

-----------------------------------------------------------------------------
(* What a command is planned to do.                                        *)

\* What is planned is what was asked for, or nothing.
LEMMA PlanIsAsked ==
  ASSUME NEW r \in Requests, r.command \in FtpLike, Plan(r).op # "none"
  PROVE  /\ Plan(r).op = r.command /\ Plan(r).protocol = r.protocol
         /\ r.command \in Transfers /\ r.conflict # "none" => Plan(r).policy = r.conflict
         /\ r.protocol \in Live => r.command \in CapabilitiesFor(r.protocol)
<1> USE RequestsAssumption DEF FtpLike, SftpCan, Transfers, Adapter, None, NotLinked, Unsupported, Ftp, Live,
          CapabilitiesFor, ScpTransferOnly
<1>1. CASE r.style = "sftp"
  <2>1. r.command \in SftpCan /\ r.protocol = "sftp" /\ r.conflict = "none"
    BY <1>1
  <2>2. Plan(r) = SftpCommand(r)
    BY <1>1 DEF Plan
  <2>3. CASE r.command \in Transfers
    BY <2>1, <2>2, <2>3 DEF SftpCommand, RunSftpTransfer
  <2>4. CASE r.command = "list"
    BY <2>1, <2>2, <2>4 DEF SftpCommand, RunSftpList
  <2>5. CASE r.command \in {"mkdir", "delete"}
    BY <2>1, <2>2, <2>5 DEF SftpCommand, RunSftpMkdir, RunSftpDelete
  <2> QED
    BY <2>1, <2>3, <2>4, <2>5
<1>2. CASE r.style = "remote" /\ r.command = "list"
  BY <1>2 DEF Plan, RemoteList, RunSftpList, RunFtpList
<1>3. CASE r.style = "remote" /\ r.command \in Transfers
  <2>1. Plan(r) = RemoteTransfer(r)
    BY <1>3 DEF Plan
  <2>2. CASE r.protocol = "sftp"
    BY <1>3, <2>1, <2>2 DEF RemoteTransfer, RunSftpTransfer, PolicyOf
  <2>3. CASE Ftp(r)
    BY <1>3, <2>1, <2>3 DEF RemoteTransfer, RunFtpTransfer
  <2>4. CASE r.protocol = "scp"
    <3>1. Plan(r) = RunScpTransfer(r.command, PolicyOf(r))
          /\ (r.command = "download" \/ PolicyOf(r) = "replace")
      BY <1>3, <2>1, <2>4 DEF RemoteTransfer
    <3> QED
      BY <1>3, <2>4, <3>1 DEF RunScpTransfer, PolicyOf
  <2>5. CASE r.protocol \notin {"sftp", "scp", "ftp", "ftps"}
    BY <1>3, <2>1, <2>5 DEF RemoteTransfer
  <2> QED
    BY <2>2, <2>3, <2>4, <2>5
<1>4. CASE r.style = "remote" /\ r.command = "mkdir"
  BY <1>4 DEF Plan, RemoteMkdir, RunSftpMkdir, RunFtpMkdir
<1>5. CASE r.style = "remote" /\ r.command = "delete"
  BY <1>5 DEF Plan, RemoteDelete, RunSftpDelete, RunFtpDelete
<1>6. CASE r.style = "remote" /\ r.command = "rename"
  BY <1>6 DEF Plan, RemoteRename, RunFtpRename
<1> QED
  BY <1>1, <1>2, <1>3, <1>4, <1>5, <1>6

\* A live protocol refuses only what it says it cannot do.
LEMMA RefusedIsIncapable ==
  ASSUME NEW r \in Requests, r.command \in FtpLike, Plan(r).op = "none",
         r.protocol \in Live, system.linked, r.command \in CapabilitiesFor(r.protocol)
  PROVE  r.protocol = "scp" /\ PolicyOf(r) # "replace"
<1> USE RequestsAssumption DEF FtpLike, SftpCan, Transfers, Adapter, Ftp, Live,
          CapabilitiesFor, ScpTransferOnly
<1>1. r.style = "remote"
  <2> SUFFICES ASSUME r.style = "sftp"
               PROVE  FALSE
    OBVIOUS
  <2>1. r.command \in SftpCan /\ Plan(r) = SftpCommand(r)
    BY DEF Plan
  <2>2. ~(r.command \in Transfers)
    BY <2>1 DEF SftpCommand, RunSftpTransfer
  <2>3. ~(r.command = "list")
    BY <2>1 DEF SftpCommand, RunSftpList
  <2>4. ~(r.command \in {"mkdir", "delete"})
    BY <2>1 DEF SftpCommand, RunSftpMkdir, RunSftpDelete
  <2> QED
    BY <2>1, <2>2, <2>3, <2>4
<1>2. ~(r.command = "list")
  BY <1>1 DEF Plan, RemoteList, RunSftpList, RunFtpList
<1>3. ~(r.command = "mkdir") /\ ~(r.command = "delete")
  BY <1>1 DEF Plan, RemoteMkdir, RunSftpMkdir, RunFtpMkdir,
              RemoteDelete, RunSftpDelete, RunFtpDelete
<1>4. ~(r.command = "rename")
  BY <1>1 DEF Plan, RemoteRename, RunFtpRename
<1>5. r.command \in Transfers /\ Plan(r) = RemoteTransfer(r)
  BY <1>1, <1>2, <1>3, <1>4 DEF Plan
<1>6. ~(r.protocol = "sftp") /\ ~Ftp(r)
  BY <1>5 DEF RemoteTransfer, RunSftpTransfer, RunFtpTransfer
<1>7. r.protocol = "scp" /\ r.command \in Transfers
  BY <1>5, <1>6
<1>8. ~(r.command = "download" \/ PolicyOf(r) = "replace")
  <2> SUFFICES ASSUME r.command = "download" \/ PolicyOf(r) = "replace"
               PROVE  FALSE
    OBVIOUS
  <2>1. RemoteTransfer(r) = RunScpTransfer(r.command, PolicyOf(r))
    BY <1>7 DEF RemoteTransfer
  <2>2. RunScpTransfer(r.command, PolicyOf(r)).op = r.command
    BY DEF RunScpTransfer
  <2> QED
    BY <1>5, <1>7, <2>1, <2>2
<1> QED
  BY <1>7, <1>8

LEMMA CredentialKinds ==
  ASSUME NEW r
  PROVE  Credential(r).kind \in {"none", "password", "key"}
<1>1. \A value : Password(value).kind \in {"none", "password"}
  BY DEF Password, NoSecret
<1>2. \A own : SshSecretFromEnv(own).kind \in {"none", "password", "key"}
  BY <1>1 DEF SshSecretFromEnv
<1> QED
  BY <1>1, <1>2 DEF Credential, ConnectSftp, ConnectScp, ConnectFtp, FtpSecretFromEnv, NoSecret

-----------------------------------------------------------------------------
(* The process.                                                            *)

LEMMA InitInv == Init => Inv
<1> SUFFICES ASSUME Init
             PROVE  Inv
  OBVIOUS
<1>1. AskedOK
  BY DEF Init, AskedOK, Steps, Parsed, NoSecret
<1>2. Planned
  BY DEF Init, Planned, Planning, Parsed, Calling, Running
<1>3. Counted
  <2>1. /\ sent = 0 /\ acted = 0 /\ printed = FALSE /\ step = "none"
        /\ exit.why = "none" /\ Calls \in Nat
    BY CallsAssumption DEF Init, Running
  <2>2. sent \in 0..Calls /\ acted \in 0..sent
    BY <2>1
  <2>3. printed \in BOOLEAN /\ ~printed
    BY <2>1, Zenon
  <2> QED
    BY <2>1, <2>2, <2>3 DEF Counted
<1> QED
  BY <1>1, <1>2, <1>3 DEF Inv

\* What is planned depends on what was asked only.
LEMMA PlanStays ==
  ASSUME UNCHANGED asked
  PROVE  Plan(request)' = Plan(request) /\ Credential(request)' = Credential(request)
<1>1. request' = request /\ system' = system /\ login' = login
  BY DEF asked
<1>2. Plan(request)' = Plan(request)
  BY <1>1 DEF Plan, SftpCommand, RemoteList, RemoteTransfer, RemoteMkdir, RemoteDelete, RemoteRename,
     RunSftpList, RunSftpMkdir, RunSftpDelete, RunSftpTransfer, RunScpTransfer,
     RunFtpList, RunFtpMkdir, RunFtpDelete, RunFtpRename, RunFtpTransfer, Ftp, PolicyOf
<1>3. Entered' = Entered
  BY <1>1 DEF Entered
<1>4. Env' = Env
  BY <1>1, <1>3 DEF Env
<1>5. ASSUME NEW names PROVE FirstSet(names)' = FirstSet(names)
  BY <1>4 DEF FirstSet
<1>6. SshSecretFromEnv("SFTP")' = SshSecretFromEnv("SFTP")
  BY <1>5 DEF SshSecretFromEnv, Password
<1>7. SshSecretFromEnv("SCP")' = SshSecretFromEnv("SCP")
  BY <1>5 DEF SshSecretFromEnv, Password
<1>8. FtpSecretFromEnv' = FtpSecretFromEnv
  BY <1>5 DEF FtpSecretFromEnv, Password
<1>9. Credential(request)' = Credential(request)
  BY <1>1, <1>2, <1>6, <1>7, <1>8 DEF Credential, ConnectSftp, ConnectScp, ConnectFtp
<1> QED
  BY <1>2, <1>9

\* A step that only ends the process, with one of the codes that fail.
LEMMA FailsInv ==
  ASSUME Inv, step \in Parsed \cup {"parse"}, UNCHANGED <<asked, secret, called, sent, acted, printed, time>>,
         NEW code, NEW why, Exit(code, why),
         caller' \in {caller, "failed"},
         why = "unsupported" => step = "dispatch" /\ Plan(request).op = "none",
         why # "done", printed => code \in {"0", "-1"}
  PROVE  Inv'
<1>1. /\ step' = "exited" /\ exit'.code = code /\ exit'.why = why
      /\ request' = request /\ system' = system /\ login' = login
      /\ secret' = secret /\ called' = called /\ sent' = sent /\ acted' = acted
      /\ printed' = printed /\ minutes' = minutes /\ since' = since
  BY DEF Exit, asked, time
<1>2. Plan(request)' = Plan(request) /\ Credential(request)' = Credential(request)
  BY PlanStays
<1>3. AskedOK'
  BY <1>1 DEF Inv, AskedOK, Steps, Parsed
<1>4. Planned'
  <2>1. why = "unsupported" => request.command \in FtpLike
    BY DEF Inv, AskedOK, Parsed
  <2> QED
    BY <1>1, <1>2, <2>1 DEF Inv, Planned, Planning, Parsed, Calling
<1>5. Counted'
  BY <1>1 DEF Inv, Counted, Steps, Parsed
<1> QED
  BY <1>3, <1>4, <1>5 DEF Inv

\* A step that goes on.
LEMMA GoesOn ==
  ASSUME Inv, step \in Parsed \cup {"parse"}, UNCHANGED <<asked, caller, exit>>,
         step' \in Parsed, request.command \in FtpLike,
         secret'.kind \in {"none", "password", "key"},
         minutes' \in Nat, since' \in 0..minutes'
  PROVE  AskedOK'
BY DEF Inv, AskedOK, Steps, Parsed, asked

LEMMA BeginInv ==
  ASSUME Inv, Start \/ StartFails \/ Collect \/ Minute
  PROVE  Inv'
<1>1. /\ UNCHANGED <<asked, secret, called, sent, acted, printed, exit>>
      /\ request' = request /\ system' = system /\ login' = login
  BY DEF Start, StartFails, Collect, Minute, asked
<1>2. Plan(request)' = Plan(request) /\ Credential(request)' = Credential(request)
  BY <1>1, PlanStays
<1>3. CASE Start
  <2>1. step = "none" /\ step' = "parse" /\ caller' = "waiting" /\ UNCHANGED time
    BY <1>3 DEF Start, Inv, AskedOK
  <2>2. AskedOK'
    BY <1>1, <2>1 DEF Inv, AskedOK, Steps, Parsed, time
  <2>3. Planned'
    BY <1>1, <1>2, <2>1 DEF Inv, Planned, Planning, Parsed, Calling
  <2>4. Counted'
    BY <1>1, <2>1 DEF Inv, Counted, Steps, Parsed
  <2> QED
    BY <2>2, <2>3, <2>4 DEF Inv
<1>4. CASE StartFails \/ Collect \/ Minute
  <2>1. step' = step
    BY <1>4 DEF StartFails, Collect, Minute
  <2>2. AskedOK'
    <3>1. CASE StartFails \/ Collect
      BY <1>1, <2>1, <3>1 DEF StartFails, Collect, Inv, AskedOK, time
    <3>2. CASE Minute
      <4>1. minutes' = minutes + 1 /\ since' = since + 1 /\ caller' = caller
        BY <3>2 DEF Minute
      <4> QED
        BY <1>1, <2>1, <4>1 DEF Inv, AskedOK
    <3> QED
      BY <1>4, <3>1, <3>2
  <2>3. Planned'
    BY <1>1, <1>2, <2>1 DEF Inv, Planned
  <2>4. Counted'
    BY <1>1, <2>1 DEF Inv, Counted
  <2> QED
    BY <2>2, <2>3, <2>4 DEF Inv
<1> QED
  BY <1>3, <1>4

LEMMA EndsInv ==
  ASSUME Inv, Help \/ RunRemoteCapabilities \/ NoName \/ Refused \/ SshTimesOut \/ GiveUp
  PROVE  Inv'
<1>1. /\ UNCHANGED <<asked, secret, called, sent, acted, printed, time>>
      /\ caller' \in {caller, "failed"}
      /\ step \in Parsed \cup {"parse"}
  BY DEF Help, RunRemoteCapabilities, NoName, Refused, SshTimesOut, GiveUp, Inv, AskedOK, Steps, Parsed
<1>2. CASE Help
  BY <1>1, <1>2, FailsInv DEF Help
<1>3. CASE RunRemoteCapabilities
  <2>1. printed = FALSE
    BY <1>3 DEF RunRemoteCapabilities, Inv, Counted
  <2> QED
    BY <1>1, <1>3, <2>1, FailsInv DEF RunRemoteCapabilities
<1>4. CASE NoName \/ Refused \/ SshTimesOut
  <2>1. ~printed
    BY <1>4 DEF NoName, Refused, SshTimesOut, Inv, Counted
  <2> QED
    BY <1>1, <1>4, <2>1, FailsInv DEF NoName, Refused, SshTimesOut
<1>5. CASE GiveUp
  BY <1>1, <1>5, FailsInv DEF GiveUp
<1> QED
  BY <1>2, <1>3, <1>4, <1>5

LEMMA ParseInv ==
  ASSUME Inv, Parse \/ Dispatch
  PROVE  Inv'
<1>1. /\ UNCHANGED <<asked, caller, secret, called, sent, acted, printed, time>>
      /\ request' = request /\ step \in {"parse", "dispatch"}
  BY DEF Parse, Dispatch, asked
<1>2. Plan(request)' = Plan(request) /\ Credential(request)' = Credential(request)
  BY <1>1, PlanStays
<1>3. request.command \in FtpLike
  BY RequestsAssumption DEF Parse, Dispatch, Inv, AskedOK, Parsed
<1>4. ~printed
  BY <1>1 DEF Inv, Counted
<1>5. CASE \/ Exit("2", "usage")
           \/ Exit("1", "unsupported") /\ step = "dispatch" /\ Plan(request).op = "none"
  BY <1>1, <1>4, <1>5, FailsInv DEF Parsed
<1>6. CASE /\ exit' = exit
           /\ \/ step' = "dispatch"
              \/ step' = "credential" /\ Plan(request).op # "none"
  <2>1. AskedOK'
    BY <1>1, <1>3, <1>6, GoesOn DEF Parsed, Inv, AskedOK, time
  <2>2. Planned'
    BY <1>1, <1>2, <1>6 DEF Inv, Planned, Planning, Parsed, Calling
  <2>3. Counted'
    BY <1>1, <1>6 DEF Inv, Counted, Steps, Parsed
  <2> QED
    BY <2>1, <2>2, <2>3 DEF Inv
<1> QED
  BY <1>5, <1>6 DEF Parse, Dispatch

LEMMA CredentialInv ==
  ASSUME Inv, ReadCredential
  PROVE  Inv'
<1>1. /\ UNCHANGED <<asked, caller, called, sent, acted, printed, time>>
      /\ request' = request /\ step = "credential" /\ secret' = Credential(request)
      /\ \/ Exit("1", "credential")
         \/ step' = "connect" /\ exit' = exit /\ secret' # NoSecret
  BY DEF ReadCredential, asked
<1>2. Plan(request)' = Plan(request) /\ Credential(request)' = Credential(request)
  BY <1>1, PlanStays
<1>3. /\ ~printed /\ sent = 0 /\ request.command \in FtpLike /\ Plan(request).op # "none"
      /\ secret'.kind \in {"none", "password", "key"} /\ exit.why = "none"
  BY <1>1, CredentialKinds DEF Inv, AskedOK, Planned, Planning, Parsed, Counted, Steps, Running
<1>4. CASE Exit("1", "credential")
  <2>1. AskedOK'
    BY <1>1, <1>3, <1>4 DEF Exit, Inv, AskedOK, asked, Steps, Parsed, time
  <2>2. Planned'
    BY <1>1, <1>2, <1>3, <1>4 DEF Exit, Inv, Planned, Planning, Parsed, Calling
  <2>3. Counted'
    BY <1>1, <1>3, <1>4 DEF Exit, Inv, Counted, Steps, Parsed
  <2> QED
    BY <2>1, <2>2, <2>3 DEF Inv
<1>5. CASE step' = "connect" /\ exit' = exit /\ secret' # NoSecret
  <2>1. AskedOK'
    BY <1>1, <1>3, <1>5, GoesOn DEF Parsed, Inv, AskedOK, time
  <2>2. Planned'
    BY <1>1, <1>2, <1>3, <1>5 DEF Inv, Planned, Planning, Parsed, Calling
  <2>3. Counted'
    BY <1>1, <1>3, <1>5 DEF Inv, Counted, Steps, Parsed
  <2> QED
    BY <2>1, <2>2, <2>3 DEF Inv
<1> QED
  BY <1>1, <1>4, <1>5

LEMMA CallInv ==
  ASSUME Inv, Connected \/ Send \/ Answered
  PROVE  Inv'
<1>1. /\ UNCHANGED <<asked, caller, secret, acted, printed, exit>>
      /\ request' = request /\ step \in {"connect", "operate", "answer"}
      /\ minutes' = minutes /\ since' \in {0, since}
  BY DEF Connected, Send, Answered, asked, time
<1>2. Plan(request)' = Plan(request) /\ Credential(request)' = Credential(request)
  BY <1>1, PlanStays
<1>3. /\ request.command \in FtpLike /\ Plan(request).op # "none"
      /\ secret = Credential(request) /\ secret # NoSecret
      /\ called' = Plan(request) /\ exit.why = "none" /\ ~printed
  BY <1>1 DEF Inv, AskedOK, Planned, Planning, Parsed, Calling, Counted, Running,
              Connected, Send, Answered
<1>4. step' \in Calling
  BY DEF Calling, Connected, Send, Answered
<1>5. AskedOK'
  <2>1. since' \in 0..minutes' /\ minutes' \in Nat
    BY <1>1 DEF Inv, AskedOK
  <2> QED
    BY <1>1, <1>3, <1>4, <2>1, GoesOn DEF Parsed, Calling, Inv, AskedOK
<1>6. Planned'
  BY <1>1, <1>2, <1>3, <1>4 DEF Planned, Planning, Parsed, Calling
<1>7. Counted'
  <2>1. CASE Connected
    <3>1. step' = "operate" /\ sent' = sent /\ sent = 0
      BY <2>1 DEF Connected, Inv, Counted, Steps, Parsed
    <3> QED
      BY <1>1, <1>3, <3>1, CallsAssumption DEF Inv, Counted
  <2>2. CASE Send
    <3>1. step' = "answer" /\ sent' = sent + 1 /\ sent < Calls
      BY <2>2 DEF Send, Inv, Counted
    <3> QED
      BY <1>1, <1>3, <3>1, CallsAssumption DEF Inv, Counted
  <2>3. CASE Answered
    <3>1. /\ acted = sent /\ sent' = sent
          /\ step' = IF sent = Calls THEN "print" ELSE "operate"
      BY <2>3 DEF Answered
    <3> QED
      BY <1>1, <1>3, <3>1, CallsAssumption DEF Inv, Counted
  <2> QED
    BY <2>1, <2>2, <2>3
<1> QED
  BY <1>5, <1>6, <1>7 DEF Inv

LEMMA ActInv ==
  ASSUME Inv, Act
  PROVE  Inv'
<1>1. /\ acted < sent /\ acted' = acted + 1
      /\ UNCHANGED <<asked, caller, step, secret, called, sent, printed, exit, time>>
      /\ request' = request /\ system' = system /\ login' = login
  BY DEF Act, asked
<1>2. Plan(request)' = Plan(request) /\ Credential(request)' = Credential(request)
  BY <1>1, PlanStays
<1>3. AskedOK'
  BY <1>1 DEF Inv, AskedOK, time
<1>4. Planned'
  BY <1>1, <1>2 DEF Inv, Planned
<1>5. Counted'
  BY <1>1, CallsAssumption DEF Inv, Counted
<1> QED
  BY <1>3, <1>4, <1>5 DEF Inv

LEMMA DoneInv ==
  ASSUME Inv, Report \/ Goodbye
  PROVE  Inv'
<1>1. /\ UNCHANGED <<asked, caller, secret, called, sent, acted>>
      /\ request' = request /\ step \in {"print", "goodbye"} /\ printed' \in {TRUE, printed}
      /\ minutes' = minutes /\ since' \in {0, since}
      /\ Exit("0", "done") \/ (step' = "goodbye" /\ exit' = exit)
  BY DEF Report, Goodbye, asked, time
<1>2. Plan(request)' = Plan(request) /\ Credential(request)' = Credential(request)
  BY <1>1, PlanStays
<1>3. sent = Calls /\ acted = Calls /\ request.command \in FtpLike /\ exit = Running
  BY <1>1 DEF Inv, AskedOK, Counted, Parsed
<1>4. since' \in 0..minutes' /\ minutes' \in Nat
  BY <1>1 DEF Inv, AskedOK
<1>5. CASE Exit("0", "done")
  <2>0. step' = "exited" /\ exit'.code = "0" /\ exit'.why = "done"
    BY <1>5 DEF Exit
  <2>1. AskedOK'
    BY <1>1, <1>4, <2>0 DEF Inv, AskedOK, asked, Steps, Parsed
  <2>2. Planned'
    BY <1>1, <1>2, <2>0 DEF Inv, Planned, Planning, Parsed, Calling
  <2>3. Counted'
    BY <1>1, <1>3, <2>0 DEF Inv, Counted, Steps, Parsed
  <2> QED
    BY <2>1, <2>2, <2>3 DEF Inv
<1>6. CASE step' = "goodbye" /\ exit' = exit
  <2>1. AskedOK'
    BY <1>1, <1>3, <1>4, <1>6, GoesOn DEF Parsed, Inv, AskedOK
  <2>2. Planned'
    BY <1>1, <1>2, <1>3, <1>6 DEF Inv, Planned, Planning, Parsed, Calling, Running
  <2>3. Counted'
    BY <1>1, <1>3, <1>6 DEF Inv, Counted, Steps, Parsed, Running
  <2> QED
    BY <2>1, <2>2, <2>3 DEF Inv
<1> QED
  BY <1>1, <1>5, <1>6

LEMMA UnchangedInv ==
  ASSUME Inv, UNCHANGED vars
  PROVE  Inv'
<1>1. /\ UNCHANGED <<asked, caller, step, secret, called, sent, acted, printed, exit, time>>
      /\ request' = request /\ system' = system /\ login' = login
  BY DEF vars, asked
<1>2. Plan(request)' = Plan(request) /\ Credential(request)' = Credential(request)
  BY <1>1, PlanStays
<1>3. AskedOK' /\ Counted'
  BY <1>1 DEF Inv, AskedOK, Counted, time
<1>4. Planned'
  BY <1>1, <1>2 DEF Inv, Planned
<1> QED
  BY <1>3, <1>4 DEF Inv

LEMMA NextInv == Inv /\ [Next]_vars => Inv'
BY BeginInv, EndsInv, ParseInv, CredentialInv, CallInv, ActInv, DoneInv, UnchangedInv
   DEF Next, Process, Waiting, Stopped

\* Each step of the process knows what the steps before it have done.
THEOREM InvHolds == Spec => []Inv
BY InitInv, NextInv, PTL DEF Spec

-----------------------------------------------------------------------------

\* Every variable has its type, and the server does no more than it is sent.
THEOREM CommandTypeCorrect == Spec => []TypeOK
<1>1. Inv => TypeOK
  BY DEF Inv, AskedOK, Counted, TypeOK, Steps, Parsed
<1> QED
  BY <1>1, InvHolds, PTL

\* For every request that parses, on every protocol and under every policy, the
\* server is asked for just that, or for nothing.
THEOREM CommandsAreAsTold == Spec => []AsTold
<1>1. Inv => AsTold
  BY PlanIsAsked DEF Inv, AskedOK, Planned, AsTold
<1> QED
  BY <1>1, InvHolds, PTL

\* The capabilities a live protocol declares are the ones its commands have.
THEOREM CapabilitiesAreTrue == Spec => []CapableIffReached
<1>1. Inv => CapableIffReached
  BY PlanIsAsked, RefusedIsIncapable DEF Inv, AskedOK, Planned, CapableIffReached
<1> QED
  BY <1>1, InvHolds, PTL

\* However many requests an operation takes, success means that all were answered.
THEOREM SuccessIsDone == Spec => []OkIsDone
<1>1. Inv => OkIsDone
  BY DEF Inv, Counted, OkIsDone
<1> QED
  BY <1>1, InvHolds, PTL

\* A completed operation is reported as one, unless its process is killed.
THEOREM CompletedNeverFails == Spec => []CompletedIsNotFailed
<1>1. Inv => CompletedIsNotFailed
  BY DEF Inv, Counted, CompletedIsNotFailed
<1> QED
  BY <1>1, InvHolds, PTL

\* The first of two variables, if it is set.
LEMMA FirstIsAsked ==
  ASSUME NEW v, NEW names, DOMAIN names \subseteq Nat \ {0}, 1 \in DOMAIN names, names[1] = v,
         v \in Entered
  PROVE  FirstSet(names) = "entered"
<1> DEFINE set == {i \in DOMAIN names : names[i] \in DOMAIN Env}
<1>1. v \in DOMAIN Env /\ Env[v] = "entered"
  BY DEF Env
<1>2. 1 \in set /\ \A j \in set : 1 <= j /\ j \in Nat
  BY <1>1
<1>3. \A i \in set : (\A j \in set : i <= j) => i = 1
  BY <1>2
<1>4. (CHOOSE i \in set : \A j \in set : i <= j) = 1
  BY <1>2, <1>3
<1> HIDE DEF set
<1>5. set # {}
  BY <1>2
<1> QED
  BY <1>1, <1>4, <1>5 DEF FirstSet, set

\* What the user enters in the dialog wins over the environment.
THEOREM LoginsAreUsed == Spec => []LoginIsUsed
<1>1. Inv => LoginIsUsed
  <2> SUFFICES ASSUME Inv, sent > 0
               PROVE  LoginIsUsed
    BY DEF LoginIsUsed
  <2>1. /\ request \in Requests /\ request.command \in FtpLike
        /\ secret = Credential(request) /\ secret # NoSecret
        /\ Plan(request).protocol = request.protocol
    BY PlanIsAsked DEF Inv, AskedOK, Planned
  <2>2. ASSUME NEW own \in {"SFTP", "SCP"}, "key" \in login
        PROVE  SshSecretFromEnv(own) = [kind |-> "key", of |-> "entered"]
    <3>1. "REMOTE_KEY" \in Entered
      BY <2>2 DEF Entered
    <3>2. ASSUME NEW other
          PROVE  FirstSet(<<"REMOTE_KEY", other>>) = "entered"
      <4> DEFINE names == <<"REMOTE_KEY", other>>
      <4>1. DOMAIN names \subseteq Nat \ {0} /\ 1 \in DOMAIN names /\ names[1] = "REMOTE_KEY"
        OBVIOUS
      <4> QED
        BY <3>1, <4>1, FirstIsAsked
    <3>3. FirstSet(<<"REMOTE_KEY", own \o "_KEY">>) = "entered"
      BY <3>2
    <3> QED
      BY <3>3 DEF SshSecretFromEnv
  <2>3. "password" \in login => FtpSecretFromEnv = [kind |-> "password", of |-> "entered"]
    <3>1. "password" \in login => "REMOTE_PASSWORD" \in Entered
      BY DEF Entered
    <3>2. "password" \in login =>
            FirstSet(<<"REMOTE_PASSWORD", "FTP_PASSWORD", "FTPS_PASSWORD">>) = "entered"
      <4> DEFINE names == <<"REMOTE_PASSWORD", "FTP_PASSWORD", "FTPS_PASSWORD">>
      <4>1. DOMAIN names \subseteq Nat \ {0} /\ 1 \in DOMAIN names /\ names[1] = "REMOTE_PASSWORD"
        OBVIOUS
      <4> QED
        BY <3>1, <4>1, FirstIsAsked
    <3> QED
      BY <3>2 DEF FtpSecretFromEnv, Password
  <2>4. CASE request.protocol = "sftp"
    BY <2>1, <2>2, <2>4 DEF LoginIsUsed, Credential, ConnectSftp, Ftp
  <2>5. CASE request.protocol = "scp"
    BY <2>1, <2>2, <2>5 DEF LoginIsUsed, Credential, ConnectScp, Ftp
  <2>6. CASE request.protocol \notin {"sftp", "scp"}
    BY <2>1, <2>3, <2>6 DEF LoginIsUsed, Credential, ConnectFtp, Ftp
  <2> QED
    BY <2>4, <2>5, <2>6
<1> QED
  BY <1>1, InvHolds, PTL

\* Once the caller has its answer, also when it has given up, nothing is sent.
THEOREM AnswerIsFinal == Spec => NothingSentAfterAnswer
<1>1. Inv /\ [Next]_vars =>
        [caller # "asking" /\ caller # "waiting" => sent' = sent]_vars
  <2> SUFFICES ASSUME Inv, [Next]_vars, caller # "asking", caller # "waiting"
               PROVE  sent' = sent
    OBVIOUS
  <2>1. ~Send
    BY DEF Send, Inv, AskedOK
  <2>2. CASE Help \/ RunRemoteCapabilities \/ Parse \/ Dispatch \/ ReadCredential \/ Answered
             \/ Report \/ SshTimesOut
    BY <2>2 DEF Help, RunRemoteCapabilities, Parse, Dispatch, ReadCredential, Answered,
                Report, SshTimesOut
  <2>3. CASE Waiting \/ StartFails \/ NoName \/ Connected \/ Act \/ Refused \/ Goodbye
             \/ Stopped \/ UNCHANGED vars
    BY <2>3 DEF Waiting, Start, Minute, Collect, GiveUp, StartFails, NoName, Connected, Act,
                Refused, Goodbye, Stopped, vars
  <2> QED
    BY <2>1, <2>2, <2>3 DEF Next, Process
<1> QED
  BY <1>1, InvHolds, PTL DEF Spec, NothingSentAfterAnswer
=============================================================================
