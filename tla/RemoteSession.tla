---------------------------- MODULE RemoteSession ----------------------------
(***************************************************************************)
(* One adapter (SFTP, SCP, FTP or FTPS) from a saved profile and a         *)
(* credential to the end of its sessions: SftpAdapter with Ssh2Backend or  *)
(* BackendNotLinked, ScpAdapter and FtpAdapter, with the configuration     *)
(* that the WebDAV and S3 crates make of a profile. The server may refuse, *)
(* and may drop a connection at any time.                                  *)
(***************************************************************************)
EXTENDS Naturals, Sequences

CONSTANTS
  Profiles,   \* [protocol, host, user, ref, port]: host "blank", "plain" or
              \* "bucket" (with a bucket after the last slash), user and port
              \* "none" or "some", ref "none", "blank" or "r"
  LiveEnvs,   \* [host, user, ref, port]: environments of sftp-live-config, each
              \* "none", "blank", "some" or, for the port, "bad"
  Secrets,    \* kinds of secret that are stored: "password", "key", "token", ...
  Linked,     \* whether the ssh2 backend may be built in: a set of BOOLEANs
  Directory,  \* the names in the directory that is listed
  MaxConnects, MaxStores  \* bounds

VARIABLES
  profile, live, linked, \* where the profile comes from
  service, stores,       \* InMemoryCredentialService, and how often it was told
  config, auth,          \* the adapter: "none", "ok" or an error; its credential
  session, dialing,      \* the connections of the session and of a connect, or 0
  conns,                 \* the server's side: [state, as] of every connection
  listing, entries,      \* a list under way, and what it has found
  result,                \* of the last call
  held, wanted           \* the session when connect was called; connected by the owner

\* What a profile and an environment can say.
ASSUME ProfilesAssumption ==
  /\ Profiles \subseteq [protocol : {"sftp", "scp", "ftp", "ftps", "webdav", "s3"},
                          host : {"blank", "plain", "bucket"}, user : {"none", "some"},
                          ref : {"none", "blank", "r"}, port : {"none", "some"}]
  /\ LiveEnvs \subseteq [host : {"none", "blank", "some"}, user : {"none", "blank", "some"},
                          ref : {"none", "blank", "some"}, port : {"none", "blank", "some", "bad"}]
  /\ MaxConnects \in Nat /\ MaxStores \in Nat /\ Directory \cap {".", ".."} = {}

made == <<profile, live, linked, config>>
creds == <<service, stores, auth>>
link == <<session, dialing, conns, held, wanted>>
view == <<listing, entries>>
vars == <<made, creds, link, view, result>>

NoSecret == [kind |-> "none", version |-> 0]
Ssh == {"sftp", "scp"}
Ftp == {"ftp", "ftps"}
Open == {i \in DOMAIN conns : conns[i].state = "open"}

-----------------------------------------------------------------------------
(* Profiles                                                                *)

ValidateProfile(p) ==
  /\ p.protocol \in Ssh \cup Ftp \cup {"webdav", "s3"} => p.host # "blank"
  /\ p.protocol \in Ssh \cup Ftp => p.port = "some"

NeedsHostAndRef(p) ==
  IF p.host = "blank" THEN "missing_host" ELSE IF p.ref = "blank" THEN "invalid_ref" ELSE "ok"
SftpFromProfile(p) == IF p.protocol = "sftp" THEN NeedsHostAndRef(p) ELSE "invalid_protocol"
ScpFromProfile(p) == IF p.protocol = "scp" THEN NeedsHostAndRef(p) ELSE "invalid_protocol"
FtpFromProfile(p) == IF p.protocol \in Ftp THEN NeedsHostAndRef(p) ELSE "invalid_protocol"
WebDavFromProfile(p) ==
  IF p.protocol # "webdav" THEN "invalid_protocol"
  ELSE IF p.host = "blank" THEN "missing_host" ELSE "ok"
SplitEndpointBucket(host) == IF host = "bucket" THEN "ok" ELSE "missing_bucket"
S3FromProfile(p) ==
  IF p.protocol = "s3" THEN SplitEndpointBucket(p.host) ELSE "invalid_protocol"
FromProfile(p) ==
  CASE p.protocol = "sftp"   -> SftpFromProfile(p)
    [] p.protocol = "scp"    -> ScpFromProfile(p)
    [] p.protocol \in Ftp    -> FtpFromProfile(p)
    [] p.protocol = "webdav" -> WebDavFromProfile(p)
    [] p.protocol = "s3"     -> S3FromProfile(p)

IsThere(value) == value \notin {"none", "blank"}   \* env_value
LiveIsSet(e) == IsThere(e.host) /\ IsThere(e.user) /\ IsThere(e.ref) /\ e.port # "bad"
ToSessionProfile(e) ==
  [protocol |-> "sftp", host |-> IF e.host = "some" THEN "plain" ELSE "blank",
   user |-> "some", ref |-> IF e.ref = "some" THEN "r" ELSE "blank", port |-> "some"]

Init ==
  /\ linked \in Linked
  /\ \/ profile \in Profiles /\ live = FALSE
     \/ live = TRUE /\ \E e \in LiveEnvs : LiveIsSet(e) /\ profile = ToSessionProfile(e)
  /\ service = NoSecret /\ stores = 0 /\ config = "none" /\ auth = NoSecret
  /\ session = 0 /\ dialing = 0 /\ conns = <<>> /\ listing = "none" /\ entries = {} /\ result = "none"
  /\ held = 0 /\ wanted = FALSE

Configure ==
  /\ config = "none" /\ config' = FromProfile(profile)
  /\ UNCHANGED <<profile, live, linked, creds, link, view, result>>

-----------------------------------------------------------------------------
(* Credentials                                                             *)

StoreSecret(kind) ==
  /\ stores < MaxStores
  /\ stores' = stores + 1 /\ service' = [kind |-> kind, version |-> stores + 1]
  /\ UNCHANGED <<made, auth, link, view, result>>
DeleteSecret ==
  /\ service # NoSecret /\ service' = NoSecret
  /\ UNCHANGED <<made, stores, auth, link, view, result>>

FtpTakes(kind) == kind \in {"password", "token"}
ResolveFtp ==
  IF ~FtpTakes(service.kind) THEN "unsupported_auth"
  ELSE IF profile.user = "none" THEN "missing_user" ELSE "ok"
ResolveSftp == "ok"
ResolveScp == "ok"
ResolveAny ==
  IF profile.ref = "none" THEN "missing_ref"
  ELSE IF service = NoSecret THEN "credential_not_found"
  ELSE CASE profile.protocol = "sftp" -> ResolveSftp
         [] profile.protocol = "scp"  -> ResolveScp
         [] OTHER                     -> ResolveFtp

\* The adapter is made with a copy of the secret.
Resolve ==
  /\ config = "ok" /\ profile.protocol \in Ssh \cup Ftp /\ auth = NoSecret
  /\ result' = ResolveAny
  /\ auth' = IF result' = "ok" THEN service ELSE auth
  /\ UNCHANGED <<made, service, stores, link, view>>

-----------------------------------------------------------------------------
(* Sessions                                                                *)

Free == auth # NoSecret /\ dialing = 0 /\ listing = "none"
IsLinked == profile.protocol = "sftp" => linked
Close(c, i) == [c EXCEPT ![i].state = "closed"]

NotLinked ==
  /\ Free /\ ~IsLinked /\ result # "not_linked"
  /\ result' = "not_linked"
  /\ UNCHANGED <<made, creds, link, view>>

\* Faulty variant of Dial: the old session is let go first.
DialAfresh ==
  /\ Free /\ IsLinked /\ Len(conns) < MaxConnects
  /\ conns' = Append(IF session = 0 THEN conns ELSE Close(conns, session),
                     [state |-> "open", as |-> NoSecret])
  /\ dialing' = Len(conns') /\ held' = session /\ session' = 0
  /\ UNCHANGED <<made, creds, wanted, view, result>>
\* Faulty variant of Dial: the session is set before the login.
DialIntoSession ==
  /\ Free /\ IsLinked /\ Len(conns) < MaxConnects
  /\ conns' = Append(conns, [state |-> "open", as |-> NoSecret])
  /\ dialing' = Len(conns') /\ held' = session /\ session' = dialing'
  /\ UNCHANGED <<made, creds, wanted, view, result>>
Dial ==
  /\ Free /\ IsLinked /\ Len(conns) < MaxConnects
  /\ conns' = Append(conns, [state |-> "open", as |-> NoSecret])
  /\ dialing' = Len(conns') /\ held' = session
  /\ UNCHANGED <<made, creds, session, wanted, view, result>>
DialFails ==
  /\ Free /\ IsLinked /\ Len(conns) < MaxConnects
  /\ result' = "io"
  /\ UNCHANGED <<made, creds, link, view>>

CanLogin ==
  /\ profile.user # "none"
  /\ profile.protocol \in Ssh => auth.kind \in {"password", "key"}
\* The new session replaces the old one, which is dropped.
LoginSsh ==
  /\ dialing # 0 /\ profile.protocol \in Ssh /\ CanLogin /\ dialing \in Open
  /\ conns' = [i \in DOMAIN conns |->
                 CASE i = dialing -> [state |-> "open", as |-> auth]
                   [] i = session -> Close(conns, i)[i]
                   [] OTHER       -> conns[i]]
  /\ session' = dialing /\ dialing' = 0 /\ held' = 0 /\ wanted' = TRUE /\ result' = "ok"
  /\ UNCHANGED <<made, creds, view>>
LoginFtp ==
  /\ dialing # 0 /\ profile.protocol \in Ftp /\ dialing \in Open
  /\ conns' = [i \in DOMAIN conns |->
                 CASE i = dialing -> [state |-> "open", as |-> auth]
                   [] i = session -> Close(conns, i)[i]
                   [] OTHER       -> conns[i]]
  /\ session' = dialing /\ dialing' = 0 /\ held' = 0 /\ wanted' = TRUE /\ result' = "ok"
  /\ UNCHANGED <<made, creds, view>>
\* Refused, impossible, or broken off: the new connection is dropped.
LoginFails ==
  /\ dialing # 0
  /\ conns' = Close(conns, dialing) /\ dialing' = 0 /\ held' = 0 /\ result' = "auth_failed"
  /\ UNCHANGED <<made, creds, session, wanted, view>>

\* Faulty variant of Disconnect: the session is let go once the server agrees.
DisconnectPolitely ==
  /\ Free /\ session # 0 /\ wanted' = FALSE /\ held' = 0
  /\ \/ session \in Open /\ result' = "ok" /\ session' = 0 /\ conns' = Close(conns, session)
     \/ result' = "io" /\ UNCHANGED <<session, conns>>
  /\ UNCHANGED <<made, creds, dialing, view>>
\* The session is taken before the server is told, which may fail.
Disconnect ==
  /\ Free /\ session # 0
  /\ result' \in (IF session \in Open THEN {"ok", "io"} ELSE {"io"})
  /\ conns' = Close(conns, session) /\ session' = 0 /\ wanted' = FALSE /\ held' = 0
  /\ UNCHANGED <<made, creds, dialing, view>>

ServerDrops(i) ==
  /\ i \in Open /\ conns' = [conns EXCEPT ![i].state = "lost"]
  /\ UNCHANGED <<made, creds, session, dialing, held, wanted, view, result>>

-----------------------------------------------------------------------------
(* Operations: list, and one call that changes something                   *)

NotConnected ==
  /\ Free /\ IsLinked /\ session = 0 /\ result # "not_connected"
  /\ result' = "not_connected"
  /\ UNCHANGED <<made, creds, link, view>>

\* create_directory, rename, ...: the server does it or refuses. FTP refuses a
\* path with control characters before it looks at the session.
Call ==
  /\ Free /\ session # 0
  /\ result' \in {"refused", "io"} \cup (IF session \in Open THEN {"done"} ELSE {})
  /\ UNCHANGED <<made, creds, link, view>>
InvalidPath ==
  /\ Free /\ profile.protocol \in Ftp /\ result # "invalid_path"
  /\ result' = "invalid_path"
  /\ UNCHANGED <<made, creds, link, view>>

\* A line of a reply says a name and, to MLSD only, what it is. The directory
\* and its parent go by "." and "..", or behind type=cdir and type=pdir by any name.
Line(name, type) == [name |-> name, type |-> type]
Dots == {".", ".."}
Told == {Line(name, "entry") : name \in Directory}
Themselves == {Line(name, "entry") : name \in Dots}
Marked == {Line("/", type) : type \in {"cdir", "pdir"}}
Replies(command) ==
  {Told \cup more : more \in SUBSET (Themselves \cup IF command = "MLSD" THEN Marked ELSE {})}

RemoteFileFromListing(lines) == {line \in lines : line.name \notin Dots}
Entries(reply) ==
  LET kept == {line \in reply : line.type \notin {"cdir", "pdir"}}
  IN {line.name : line \in RemoteFileFromListing(kept)}

ListSsh ==
  /\ Free /\ session # 0 /\ profile.protocol = "sftp"
  /\ \/ /\ session \in Open /\ listing' = "listed"
        /\ \E reply \in Replies("readdir") : entries' = Entries(reply)
     \/ listing' = "failed" /\ entries' = {}
  /\ UNCHANGED <<made, creds, link, result>>
\* A line that does not parse fails the whole list.
Replied(command) ==
  /\ session \in Open
  /\ \/ listing' = "failed" /\ entries' = {}
     \/ listing' = "listed" /\ \E reply \in Replies(command) : entries' = Entries(reply)
\* An error of MLSD, whatever it is, leads to LIST.
Mlsd ==
  /\ Free /\ session # 0 /\ profile.protocol \in Ftp
  /\ Replied("MLSD") \/ (listing' = "fallback" /\ entries' = {})
  /\ UNCHANGED <<made, creds, link, result>>
ListFallback ==
  /\ listing = "fallback"
  /\ Replied("LIST") \/ (listing' = "failed" /\ entries' = {})
  /\ UNCHANGED <<made, creds, link, result>>
Listed ==
  /\ listing \in {"listed", "failed"} /\ listing' = "none" /\ result' = listing /\ entries' = {}
  /\ UNCHANGED <<made, creds, link>>

\* Between two calls the owner may leave the adapter alone.
Stopped == dialing = 0 /\ listing = "none" /\ UNCHANGED vars

Next ==
  \/ Configure \/ \E kind \in Secrets : StoreSecret(kind)
  \/ DeleteSecret \/ Resolve
  \/ NotLinked \/ Dial \/ DialFails \/ LoginSsh \/ LoginFtp \/ LoginFails \/ Disconnect
  \/ \E i \in DOMAIN conns : ServerDrops(i)
  \/ NotConnected \/ Call \/ InvalidPath
  \/ ListSsh \/ Mlsd \/ ListFallback \/ Listed \/ Stopped

Spec == Init /\ [][Next]_vars

-----------------------------------------------------------------------------
(* Properties                                                              *)

\* Every variable has its type.
TypeOK ==
  /\ stores \in 0..MaxStores /\ service.version \in 0..stores /\ auth.version \in 0..stores
  /\ session \in 0..Len(conns) /\ dialing \in 0..Len(conns) /\ held \in 0..Len(conns)
  /\ \A i \in DOMAIN conns : conns[i].state \in {"open", "lost", "closed"}
  /\ listing \in {"none", "fallback", "listed", "failed"} /\ wanted \in BOOLEAN /\ live \in BOOLEAN

\* A profile that the session store accepts, its credential reference not
\* blank, is one that its adapter accepts. An S3 profile needs a bucket, too.
SavedConfigures ==
  ValidateProfile(profile) /\ profile.ref # "blank" /\ config # "none" =>
    \/ config = "ok"
    \/ profile.protocol = "s3" /\ profile.host = "plain"

\* What sftp-live-config accepts makes a profile that connects.
LiveConfigures == live => config \in {"none", "ok"}

\* A session has logged in, with the secret it was made for, and one that its
\* protocol takes: no operation is tried on a connection that has not.
SessionIsLoggedIn ==
  session # 0 =>
    /\ conns[session].as = auth /\ auth # NoSecret /\ profile.user # "none"
    /\ auth.kind \in (IF profile.protocol \in Ssh THEN {"password", "key"} ELSE {"password", "token"})

\* At the server only the session, and the connection that is being made, are
\* open; after a disconnect, even one that failed, nothing is.
NothingLeftOpen ==
  /\ Open \subseteq {session, dialing}
  /\ ~wanted => Open \subseteq {dialing}

\* A connect that fails leaves the session it found: the adapter goes on with
\* it, so that a retry never costs what worked.
FailedConnectKeepsSession ==
  [][(dialing # 0 /\ dialing' = 0 /\ session' # dialing) => session' = held]_vars

\* A list that succeeds names what is in the directory: not the directory
\* itself, not its parent, whichever command told it.
ListIsTheDirectory == listing = "listed" => entries = Directory

=============================================================================
