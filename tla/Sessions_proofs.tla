--------------------------- MODULE Sessions_proofs --------------------------
(***************************************************************************)
(* Theorems about what a session goes through: the adapter's connections,  *)
(* and the tunnel below.                                                   *)
(*                                                                         *)
(* 1. The sessions of an adapter, for every profile, every secret and any  *)
(*    number of connects: what a session is logged in as, what stays open  *)
(*    at the server, and what a failed connect costs.  The invariant adds  *)
(*    to the properties what each phase of a connect knows of the phases   *)
(*    before it: who dials has a secret (AuthOK), the session that was     *)
(*    found is kept while dialing (Held), and a session that is not wanted *)
(*    is gone (LinkOK).                                                    *)
(* 2. The tunnel.  Its inductive invariant is the conjunction of its four: *)
(*    that a stop removes everything needs that every file on disk is      *)
(*    remembered and that there are none without a process, and that a new *)
(*    ssh finds its files needs that the stop comes first.                 *)
(***************************************************************************)
EXTENDS RemoteSession, SshTunnel, TLAPS

-----------------------------------------------------------------------------
(***************************************************************************)
(* 1. The sessions of an adapter.                                          *)
(***************************************************************************)

Secret == [kind : Secrets \cup {"none"}, version : Nat]
Conn == [state : {"open", "lost", "closed"}, as : Secret]

CredsOK ==
  /\ stores \in Nat /\ service \in Secret /\ auth \in Secret
  /\ stores <= MaxStores
  /\ service.version <= stores /\ auth.version <= stores

ProfileOK ==
  /\ live = FALSE => profile \in Profiles
  /\ live = TRUE => \E e \in LiveEnvs : LiveIsSet(e) /\ profile = ToSessionProfile(e)
  /\ live \in BOOLEAN
  /\ config # "none" => config = FromProfile(profile)

\* Who has a secret may log in with it, as far as the protocol says.
AuthOK ==
  /\ auth # NoSecret => profile.protocol \in Ssh \cup Ftp
  /\ auth # NoSecret /\ profile.protocol \in Ftp =>
       profile.user # "none" /\ auth.kind \in {"password", "token"}
  /\ session # 0 \/ dialing # 0 => auth # NoSecret

LinkOK ==
  /\ conns \in Seq(Conn)
  /\ session \in 0..Len(conns) /\ dialing \in 0..Len(conns) /\ held \in 0..Len(conns)
  /\ dialing # 0 => session # dialing
  /\ wanted \in BOOLEAN /\ (~wanted => session = 0)

Held == dialing # 0 => held = session

ViewOK ==
  /\ listing \in {"none", "fallback", "listed", "failed"}
  /\ ListIsTheDirectory

Inv ==
  /\ CredsOK /\ ProfileOK /\ AuthOK /\ LinkOK /\ Held /\ ViewOK
  /\ SessionIsLoggedIn /\ NothingLeftOpen

-----------------------------------------------------------------------------
(* The parts of the invariant and the parts of the state they speak of.    *)

LEMMA InitInv == Init => Inv
<1> SUFFICES ASSUME Init
             PROVE  Inv
  OBVIOUS
<1>1. NoSecret \in Secret
  BY DEF NoSecret, Secret
<1>2. conns \in Seq(Conn) /\ Len(conns) = 0 /\ DOMAIN conns = {}
  BY DEF Init
<1>3. CredsOK
  <2>1. NoSecret.version = 0
    BY DEF NoSecret
  <2> QED
    BY <1>1, <2>1, ProfilesAssumption DEF Init, CredsOK
<1>4. ProfileOK
  BY DEF Init, ProfileOK
<1>5. AuthOK /\ Held /\ ViewOK
  BY DEF Init, AuthOK, Held, ViewOK, ListIsTheDirectory
<1>6. LinkOK
  <2>1. session = 0 /\ dialing = 0 /\ held = 0 /\ wanted = FALSE
    BY DEF Init
  <2>2. 0 \in 0..Len(conns)
    BY <1>2
  <2> QED
    BY <1>2, <2>1, <2>2 DEF LinkOK
<1>7. SessionIsLoggedIn /\ NothingLeftOpen
  BY <1>2 DEF Init, SessionIsLoggedIn, NothingLeftOpen, Open
<1> QED
  BY <1>3, <1>4, <1>5, <1>6, <1>7 DEF Inv

\* Nothing of the link changes: a step of the owner, or of a list.
LEMMA KeepsLink ==
  ASSUME Inv, UNCHANGED <<profile, live, auth, link>>, CredsOK', ProfileOK', ViewOK'
  PROVE  Inv'
<1>1. AuthOK' /\ LinkOK' /\ Held'
  BY DEF Inv, link, AuthOK, LinkOK, Held
<1>2. SessionIsLoggedIn' /\ NothingLeftOpen'
  BY DEF Inv, link, SessionIsLoggedIn, NothingLeftOpen, Open
<1> QED
  BY <1>1, <1>2 DEF Inv

LEMMA OwnerInv ==
  ASSUME Inv,
         \/ Configure \/ DeleteSecret \/ NotLinked \/ DialFails \/ NotConnected \/ Call
         \/ InvalidPath \/ \E kind \in Secrets : StoreSecret(kind)
  PROVE  Inv'
<1>1. UNCHANGED <<profile, live, auth, link, view>>
  BY DEF Configure, DeleteSecret, NotLinked, DialFails, NotConnected, Call, InvalidPath,
         StoreSecret, made, creds
<1>2. ProfileOK'
  BY DEF Inv, ProfileOK, Configure, DeleteSecret, NotLinked, DialFails, NotConnected, Call,
         InvalidPath, StoreSecret, made
<1>3. CredsOK'
  <2>1. CASE \E kind \in Secrets : StoreSecret(kind)
    <3>1. PICK kind \in Secrets : StoreSecret(kind)
      BY <2>1
    <3>2. /\ stores' = stores + 1 /\ stores < MaxStores /\ auth' = auth
          /\ service' = [kind |-> kind, version |-> stores + 1]
      BY <3>1 DEF StoreSecret
    <3>3. service' \in Secret /\ service'.version = stores'
      BY <3>2 DEF Inv, CredsOK, Secret
    <3> QED
      BY <3>2, <3>3, ProfilesAssumption DEF Inv, CredsOK, Secret
  <2>2. CASE DeleteSecret
    BY <2>2 DEF DeleteSecret, Inv, CredsOK, NoSecret, Secret
  <2>3. CASE \/ Configure \/ NotLinked \/ DialFails \/ NotConnected \/ Call \/ InvalidPath
    BY <2>3 DEF Configure, NotLinked, DialFails, NotConnected, Call, InvalidPath, creds,
                Inv, CredsOK
  <2> QED
    BY <2>1, <2>2, <2>3
<1>4. ViewOK'
  BY <1>1 DEF view, Inv, ViewOK, ListIsTheDirectory
<1> QED
  BY <1>1, <1>2, <1>3, <1>4, KeepsLink

LEMMA ListInv ==
  ASSUME Inv, ListSsh \/ Mlsd \/ ListFallback \/ Listed
  PROVE  Inv'
<1>1. UNCHANGED <<made, creds, link>>
  BY DEF ListSsh, Mlsd, ListFallback, Listed
<1>2. ASSUME NEW command, NEW reply \in Replies(command)
      PROVE  Entries(reply) = Directory
  <2>1. PICK more : reply = Told \cup more /\ more \subseteq Themselves \cup Marked
    BY DEF Replies
  <2>2. \A line \in Told : line.name \in Directory /\ line.name \notin Dots /\ line.type = "entry"
    BY ProfilesAssumption DEF Told, Line, Dots
  <2>3. \A line \in more : line.name \in Dots \/ line.type \in {"cdir", "pdir"}
    BY <2>1 DEF Themselves, Marked, Line
  <2>4. \A name \in Directory : Line(name, "entry") \in Told /\ Line(name, "entry").name = name
    BY DEF Told, Line
  <2> QED
    BY <2>1, <2>2, <2>3, <2>4 DEF Entries, RemoteFileFromListing
<1>3. /\ listing' \in {"none", "fallback", "listed", "failed"}
      /\ listing' = "listed" => entries' = Directory
  BY <1>2 DEF ListSsh, Mlsd, ListFallback, Listed, Replied
<1>4. ViewOK'
  BY <1>3 DEF ViewOK, ListIsTheDirectory
<1>5. CredsOK' /\ ProfileOK'
  BY <1>1 DEF made, creds, Inv, CredsOK, ProfileOK
<1> QED
  BY <1>1, <1>4, <1>5, KeepsLink DEF made, creds

LEMMA ResolveInv ==
  ASSUME Inv, Resolve
  PROVE  Inv'
<1>1. /\ auth = NoSecret /\ UNCHANGED <<made, service, stores, link, view>>
      /\ profile.protocol \in Ssh \cup Ftp
      /\ auth' = auth \/ (auth' = service /\ ResolveAny = "ok")
  BY DEF Resolve
<1>2. session = 0 /\ dialing = 0
  BY <1>1 DEF Inv, AuthOK
<1>3. profile.protocol \in Ftp /\ ResolveAny = "ok" =>
        profile.user # "none" /\ service.kind \in {"password", "token"}
  BY DEF ResolveAny, ResolveFtp, FtpTakes, Ftp
<1>4. AuthOK'
  BY <1>1, <1>2, <1>3 DEF AuthOK, made, link, Inv
<1>5. CredsOK' /\ ProfileOK' /\ ViewOK'
  BY <1>1 DEF Inv, CredsOK, ProfileOK, ViewOK, ListIsTheDirectory, made, view
<1>6. LinkOK' /\ Held' /\ SessionIsLoggedIn' /\ NothingLeftOpen'
  BY <1>1, <1>2 DEF Inv, LinkOK, Held, SessionIsLoggedIn, NothingLeftOpen, Open, link
<1> QED
  BY <1>4, <1>5, <1>6 DEF Inv

-----------------------------------------------------------------------------
(* Connections.                                                            *)

\* What the steps of a connect leave alone.
LEMMA LinkStep ==
  ASSUME Inv, UNCHANGED <<made, creds, view>>, LinkOK', Held',
         session' # 0 \/ dialing' # 0 => auth # NoSecret,
         SessionIsLoggedIn', NothingLeftOpen'
  PROVE  Inv'
<1>1. CredsOK' /\ ProfileOK' /\ AuthOK' /\ ViewOK'
  BY DEF Inv, CredsOK, ProfileOK, AuthOK, ViewOK, ListIsTheDirectory, made, creds, view
<1> QED
  BY <1>1 DEF Inv

LEMMA DialInv ==
  ASSUME Inv, Dial
  PROVE  Inv'
<1> DEFINE new == [state |-> "open", as |-> NoSecret]
<1>1. /\ auth # NoSecret /\ dialing = 0 /\ UNCHANGED <<made, creds, session, wanted, view>>
      /\ conns' = Append(conns, new) /\ dialing' = Len(conns') /\ held' = session
  BY DEF Dial, Free
<1>2. new \in Conn
  BY DEF NoSecret, Secret, Conn
<1>3. /\ conns \in Seq(Conn) /\ session \in 0..Len(conns) /\ Len(conns) \in Nat
  BY DEF Inv, LinkOK
<1> HIDE DEF new
<1>4. /\ conns' \in Seq(Conn) /\ Len(conns') = Len(conns) + 1
      /\ DOMAIN conns' = 1..Len(conns) + 1
      /\ \A i \in DOMAIN conns : i \in DOMAIN conns' /\ conns'[i] = conns[i]
  BY <1>1, <1>2, <1>3
<1>5. LinkOK'
  BY <1>1, <1>3, <1>4 DEF LinkOK, Inv
<1>6. Held'
  BY <1>1 DEF Held
<1>7. SessionIsLoggedIn'
  <2>1. session # 0 => conns'[session] = conns[session]
    BY <1>3, <1>4
  <2> QED
    BY <1>1, <2>1 DEF Inv, SessionIsLoggedIn, made, creds
<1>8. NothingLeftOpen'
  <2>1. \A i \in Open' : i \in Open \/ i = dialing'
    BY <1>1, <1>3, <1>4 DEF Open
  <2> QED
    BY <1>1, <2>1 DEF Inv, NothingLeftOpen, Open
<1> QED
  BY <1>1, <1>5, <1>6, <1>7, <1>8, LinkStep

LEMMA LoginInv ==
  ASSUME Inv, LoginSsh \/ LoginFtp
  PROVE  Inv'
<1>1. /\ dialing # 0 /\ dialing \in Open /\ UNCHANGED <<made, creds, view>>
      /\ conns' = [i \in DOMAIN conns |->
                     CASE i = dialing -> [state |-> "open", as |-> auth]
                       [] i = session -> Close(conns, i)[i]
                       [] OTHER       -> conns[i]]
      /\ session' = dialing /\ dialing' = 0 /\ held' = 0 /\ wanted' = TRUE
  BY DEF LoginSsh, LoginFtp
<1>2. /\ conns \in Seq(Conn) /\ Len(conns) \in Nat /\ DOMAIN conns = 1..Len(conns)
      /\ session \in 0..Len(conns) /\ session # dialing /\ auth \in Secret
      /\ auth # NoSecret
  BY <1>1 DEF Inv, LinkOK, CredsOK, AuthOK
<1>3. \A i \in DOMAIN conns : conns[i] \in Conn
  BY <1>2
<1>4. \A i \in DOMAIN conns :
        Close(conns, i)[i] \in Conn /\ Close(conns, i)[i].state = "closed"
  BY <1>2, <1>3 DEF Close, Conn
<1>5. /\ \A i \in DOMAIN conns : conns'[i] \in Conn
      /\ DOMAIN conns' = 1..Len(conns)
  BY <1>1, <1>2, <1>3, <1>4 DEF Conn
<1>6. conns' \in Seq(Conn) /\ Len(conns') = Len(conns)
  BY <1>1, <1>2, <1>5
<1>7. /\ dialing \in DOMAIN conns /\ conns'[dialing].as = auth
      /\ session # 0 => conns'[session].state = "closed"
      /\ \A i \in DOMAIN conns : i # session /\ i # dialing => conns'[i] = conns[i]
  BY <1>1, <1>2, <1>4 DEF Open
<1>8. LinkOK' /\ Held'
  BY <1>1, <1>2, <1>6 DEF LinkOK, Held, Open
<1>9. SessionIsLoggedIn'
  <2>1. /\ profile.user # "none"
        /\ auth.kind \in (IF profile.protocol \in Ssh THEN {"password", "key"}
                                                       ELSE {"password", "token"})
    BY <1>2 DEF LoginSsh, LoginFtp, CanLogin, Inv, AuthOK, Ssh, Ftp
  <2> QED
    BY <1>1, <1>2, <1>7, <2>1 DEF SessionIsLoggedIn, made, creds
<1>10. NothingLeftOpen'
  <2>1. \A i \in Open' : i = dialing
    BY <1>1, <1>2, <1>5, <1>7 DEF Open, Inv, NothingLeftOpen
  <2> QED
    BY <1>1, <2>1 DEF NothingLeftOpen, Open
<1> QED
  BY <1>1, <1>2, <1>8, <1>9, <1>10, LinkStep

\* Only the state of one connection changes.
LEMMA EndsOne ==
  ASSUME Inv, NEW i \in DOMAIN conns, NEW s \in {"lost", "closed"},
         conns' = [conns EXCEPT ![i].state = s]
  PROVE  /\ conns' \in Seq(Conn) /\ Len(conns') = Len(conns)
         /\ DOMAIN conns' = DOMAIN conns
         /\ \A j \in DOMAIN conns : conns'[j].as = conns[j].as
         /\ Open' = Open \ {i}
<1>1. /\ conns \in Seq(Conn) /\ DOMAIN conns = 1..Len(conns) /\ Len(conns) \in Nat
      /\ \A j \in DOMAIN conns : conns[j] \in Conn
  BY DEF Inv, LinkOK
<1>2. /\ DOMAIN conns' = DOMAIN conns
      /\ \A j \in DOMAIN conns : j # i => conns'[j] = conns[j]
      /\ conns'[i] = [conns[i] EXCEPT !.state = s]
  BY <1>1
<1>3. conns'[i] \in Conn /\ conns'[i].as = conns[i].as /\ conns'[i].state = s
  BY <1>1, <1>2 DEF Conn
<1>4. conns' \in Seq(Conn) /\ Len(conns') = Len(conns)
  BY <1>1, <1>2, <1>3
<1>5. Open' = Open \ {i}
  BY <1>2, <1>3 DEF Open
<1> QED
  BY <1>2, <1>3, <1>4, <1>5

LEMMA LoginFailsInv ==
  ASSUME Inv, LoginFails
  PROVE  Inv'
<1>1. /\ dialing # 0 /\ conns' = [conns EXCEPT ![dialing].state = "closed"]
      /\ dialing' = 0 /\ held' = 0 /\ UNCHANGED <<made, creds, session, wanted, view>>
  BY DEF LoginFails, Close
<1>2. dialing \in DOMAIN conns /\ session \in 0..Len(conns) /\ DOMAIN conns = 1..Len(conns)
  BY <1>1 DEF Inv, LinkOK
<1>3. /\ conns' \in Seq(Conn) /\ Len(conns') = Len(conns)
      /\ \A j \in DOMAIN conns : conns'[j].as = conns[j].as
      /\ Open' = Open \ {dialing}
  BY <1>1, <1>2, EndsOne
<1>4. LinkOK' /\ Held'
  BY <1>1, <1>2, <1>3 DEF Inv, LinkOK, Held
<1>5. SessionIsLoggedIn'
  BY <1>1, <1>2, <1>3 DEF Inv, SessionIsLoggedIn, made, creds
<1>6. NothingLeftOpen'
  BY <1>1, <1>3 DEF Inv, NothingLeftOpen
<1> QED
  BY <1>1, <1>4, <1>5, <1>6, LinkStep DEF Inv, AuthOK

LEMMA DisconnectInv ==
  ASSUME Inv, Disconnect
  PROVE  Inv'
<1>1. /\ dialing = 0 /\ session # 0 /\ conns' = [conns EXCEPT ![session].state = "closed"]
      /\ session' = 0 /\ wanted' = FALSE /\ held' = 0 /\ UNCHANGED <<made, creds, dialing, view>>
  BY DEF Disconnect, Close, Free
<1>2. session \in DOMAIN conns /\ DOMAIN conns = 1..Len(conns) /\ Len(conns) \in Nat
  BY <1>1 DEF Inv, LinkOK
<1>3. conns' \in Seq(Conn) /\ Len(conns') = Len(conns) /\ Open' = Open \ {session}
  BY <1>1, <1>2, EndsOne
<1>4. LinkOK' /\ Held' /\ SessionIsLoggedIn'
  BY <1>1, <1>2, <1>3 DEF Inv, LinkOK, Held, SessionIsLoggedIn
<1>5. NothingLeftOpen'
  BY <1>1, <1>3 DEF Inv, NothingLeftOpen
<1> QED
  BY <1>1, <1>4, <1>5, LinkStep

LEMMA ServerDropsInv ==
  ASSUME Inv, NEW i \in DOMAIN conns, ServerDrops(i)
  PROVE  Inv'
<1>1. /\ conns' = [conns EXCEPT ![i].state = "lost"]
      /\ UNCHANGED <<made, creds, session, dialing, held, wanted, view>>
  BY DEF ServerDrops
<1>2. /\ conns' \in Seq(Conn) /\ Len(conns') = Len(conns)
      /\ \A j \in DOMAIN conns : conns'[j].as = conns[j].as
      /\ Open' = Open \ {i}
  BY <1>1, EndsOne
<1>3. session # 0 => session \in DOMAIN conns
  BY DEF Inv, LinkOK
<1>4. LinkOK' /\ Held'
  BY <1>1, <1>2 DEF Inv, LinkOK, Held
<1>5. SessionIsLoggedIn'
  BY <1>1, <1>2, <1>3 DEF Inv, SessionIsLoggedIn, made, creds
<1>6. NothingLeftOpen'
  BY <1>1, <1>2 DEF Inv, NothingLeftOpen
<1> QED
  BY <1>1, <1>4, <1>5, <1>6, LinkStep DEF Inv, AuthOK

LEMMA NextInv == Inv /\ [Next]_vars => Inv'
<1> SUFFICES ASSUME Inv, [Next]_vars
             PROVE  Inv'
  OBVIOUS
<1>1. CASE UNCHANGED vars
  <2>1. UNCHANGED <<made, creds, link, view>>
    BY <1>1 DEF vars
  <2>2. CredsOK' /\ ProfileOK' /\ ViewOK'
    BY <2>1 DEF Inv, CredsOK, ProfileOK, ViewOK, ListIsTheDirectory, made, creds, view
  <2> QED
    BY <2>1, <2>2, KeepsLink DEF made, creds
<1>2. CASE Dial
  BY <1>2, DialInv
<1>3. CASE LoginSsh \/ LoginFtp
  BY <1>3, LoginInv
<1>4. CASE LoginFails
  BY <1>4, LoginFailsInv
<1>5. CASE Disconnect
  BY <1>5, DisconnectInv
<1>6. CASE \E i \in DOMAIN conns : ServerDrops(i)
  BY <1>6, ServerDropsInv
<1>7. CASE Resolve
  BY <1>7, ResolveInv
<1>8. CASE ListSsh \/ Mlsd \/ ListFallback \/ Listed
  BY <1>8, ListInv
<1>9. CASE \/ Configure \/ DeleteSecret \/ NotLinked \/ DialFails \/ NotConnected \/ Call
           \/ InvalidPath \/ \E kind \in Secrets : StoreSecret(kind)
  BY <1>9, OwnerInv
<1> QED
  BY <1>1, <1>2, <1>3, <1>4, <1>5, <1>6, <1>7, <1>8, <1>9 DEF Next, Stopped

\* The conjunction of what every phase knows holds throughout.
THEOREM InvHolds == Spec => []Inv
BY InitInv, NextInv, PTL DEF Spec

-----------------------------------------------------------------------------

\* Every variable has its type.
THEOREM SessionTypeCorrect == Spec => []TypeOK
<1>1. Inv => TypeOK
  <2> SUFFICES ASSUME Inv PROVE TypeOK
    OBVIOUS
  <2>1. service.version \in Nat /\ auth.version \in Nat
    BY DEF Inv, CredsOK, Secret
  <2>2. \A i \in DOMAIN conns : conns[i].state \in {"open", "lost", "closed"}
    <3>1. \A i \in DOMAIN conns : conns[i] \in Conn
      BY DEF Inv, LinkOK
    <3> QED
      BY <3>1 DEF Conn
  <2> QED
    BY <2>1, <2>2, ProfilesAssumption DEF Inv, CredsOK, ProfileOK, LinkOK, ViewOK, TypeOK
<1> QED
  BY <1>1, InvHolds, PTL

\* No operation is ever tried on a connection that is not logged in, and none
\* as somebody else than the adapter was made for.
THEOREM SessionsAreLoggedIn == Spec => []SessionIsLoggedIn
<1>1. Inv => SessionIsLoggedIn
  BY DEF Inv
<1> QED
  BY <1>1, InvHolds, PTL

\* However connects, reconnects, lost connections and disconnects follow each
\* other, the server is left with the session and nothing else.
THEOREM NothingIsLeftOpen == Spec => []NothingLeftOpen
<1>1. Inv => NothingLeftOpen
  BY DEF Inv
<1> QED
  BY <1>1, InvHolds, PTL

\* A list that succeeds is the directory, also when MLSD gave way to LIST.
THEOREM ListsAreTheDirectory == Spec => []ListIsTheDirectory
<1>1. Inv => ListIsTheDirectory
  BY DEF Inv, ViewOK
<1> QED
  BY <1>1, InvHolds, PTL

\* What the session store accepts, the adapters accept.
THEOREM SavedProfilesConfigure == Spec => []SavedConfigures
<1>1. Inv => SavedConfigures
  <2> SUFFICES ASSUME Inv, ValidateProfile(profile), profile.ref # "blank", config # "none"
               PROVE  config = "ok" \/ (profile.protocol = "s3" /\ profile.host = "plain")
    BY DEF SavedConfigures
  <2>1. config = FromProfile(profile)
    BY DEF Inv, ProfileOK
  <2>2. /\ profile.protocol \in {"sftp", "scp", "ftp", "ftps", "webdav", "s3"}
        /\ profile.host \in {"blank", "plain", "bucket"}
    BY ProfilesAssumption DEF Inv, ProfileOK, ToSessionProfile
  <2>3. profile.host # "blank"
    BY <2>2 DEF ValidateProfile, Ssh, Ftp
  <2>4. NeedsHostAndRef(profile) = "ok"
    BY <2>3 DEF NeedsHostAndRef
  <2>5. CASE profile.protocol = "sftp"
    BY <2>1, <2>4, <2>5 DEF FromProfile, SftpFromProfile, Ftp
  <2>6. CASE profile.protocol = "scp"
    BY <2>1, <2>4, <2>6 DEF FromProfile, ScpFromProfile, Ftp
  <2>7. CASE profile.protocol \in Ftp
    BY <2>1, <2>4, <2>7 DEF FromProfile, FtpFromProfile, Ftp
  <2>8. CASE profile.protocol = "webdav"
    BY <2>1, <2>3, <2>8 DEF FromProfile, WebDavFromProfile, Ftp
  <2>9. CASE profile.protocol = "s3"
    BY <2>1, <2>2, <2>3, <2>9 DEF FromProfile, S3FromProfile, SplitEndpointBucket, Ftp
  <2> QED
    BY <2>2, <2>5, <2>6, <2>7, <2>8, <2>9 DEF Ftp
<1> QED
  BY <1>1, InvHolds, PTL

\* An environment that is complete makes a profile that connects.
THEOREM LiveProfilesConfigure == Spec => []LiveConfigures
<1>1. Inv => LiveConfigures
  <2> SUFFICES ASSUME Inv, live, config # "none"
               PROVE  config = "ok"
    BY DEF LiveConfigures
  <2>1. live = TRUE
    BY DEF Inv, ProfileOK
  <2>2. PICK e \in LiveEnvs : LiveIsSet(e) /\ profile = ToSessionProfile(e)
    BY <2>1 DEF Inv, ProfileOK
  <2>3. e.host = "some" /\ e.ref = "some"
    BY <2>2, ProfilesAssumption DEF LiveIsSet, IsThere
  <2>4. profile.protocol = "sftp" /\ profile.host = "plain" /\ profile.ref = "r"
    BY <2>2, <2>3 DEF ToSessionProfile
  <2>5. config = FromProfile(profile)
    BY DEF Inv, ProfileOK
  <2> QED
    BY <2>4, <2>5 DEF FromProfile, SftpFromProfile, NeedsHostAndRef, Ftp
<1> QED
  BY <1>1, InvHolds, PTL

\* A retry never costs what worked.
THEOREM FailedConnectsKeepSession == Spec => FailedConnectKeepsSession
<1>1. Inv /\ [Next]_vars =>
        [(dialing # 0 /\ dialing' = 0 /\ session' # dialing) => session' = held]_vars
  <2> SUFFICES ASSUME Inv, [Next]_vars, dialing # 0, dialing' = 0, session' # dialing
               PROVE  session' = held
    OBVIOUS
  <2>1. held = session
    BY DEF Inv, Held
  <2>2. LoginFails => session' = session
    BY DEF LoginFails
  <2>3. ~LoginSsh /\ ~LoginFtp
    BY DEF LoginSsh, LoginFtp
  <2>4. CASE \/ UNCHANGED vars \/ Configure \/ \E kind \in Secrets : StoreSecret(kind)
             \/ DeleteSecret \/ Resolve \/ NotLinked \/ Dial \/ DialFails \/ Disconnect
    BY <2>4 DEF vars, link, Configure, StoreSecret, DeleteSecret, Resolve, NotLinked, Dial,
                DialFails, Disconnect, Free
  <2>5. CASE \/ \E i \in DOMAIN conns : ServerDrops(i)
             \/ NotConnected \/ Call \/ InvalidPath \/ ListSsh \/ Mlsd \/ ListFallback \/ Listed
    BY <2>5 DEF link, ServerDrops, NotConnected, Call, InvalidPath, ListSsh, Mlsd,
                ListFallback, Listed
  <2> QED
    BY <2>1, <2>2, <2>3, <2>4, <2>5 DEF Next, Stopped
<1> QED
  BY <1>1, InvHolds, PTL DEF Spec, FailedConnectKeepsSession

-----------------------------------------------------------------------------
(***************************************************************************)
(* 2. The tunnel.                                                          *)
(***************************************************************************)

TunnelInv == TunnelTypeOK /\ NothingLeftBehind /\ FilesAreNamed /\ FilesKept

\* The first thing every start does, stopSshTunnel, leaves no file, whatever
\* the last start has left behind.
LEMMA StopRemovesAll ==
  ASSUME TunnelInv
  PROVE  DiskAfterStop = {} /\ NamedAfterStop \subseteq Files
BY DEF TunnelInv, TunnelTypeOK, NothingLeftBehind, FilesAreNamed, DiskAfterStop, NamedAfterStop

LEMMA TunnelInitInv == TunnelInit => TunnelInv
BY DEF TunnelInit, TunnelInv, TunnelTypeOK, NothingLeftBehind, FilesAreNamed, FilesKept, LivePhases

LEMMA StartSshTunnelInv ==
  ASSUME TunnelInv, NEW port \in LocalPorts, NEW host \in Hosts, NEW password \in BOOLEAN,
         StartSshTunnel(port, host, password)
  PROVE  TunnelInv'
<1> DEFINE files == IF password THEN {"askpass"} ELSE {}
           names == NamedAfterStop \cup files
           written == DiskAfterWriting(files)
<1>1. DiskAfterStop = {} /\ NamedAfterStop \subseteq Files
  BY StopRemovesAll
<1>2. written = files
  BY <1>1 DEF DiskAfterWriting
<1>3. files \subseteq names /\ names \subseteq Files
  BY <1>1 DEF Files
<1>4. CASE NoProcessLeft /\ disk' = {} /\ named' \subseteq Files
  BY <1>4 DEF NoProcessLeft, TunnelInv, TunnelTypeOK, NothingLeftBehind, FilesAreNamed, FilesKept,
              LivePhases
<1>5. CASE Started(port, host, files) /\ named' = names /\ disk' = written
  <2>1. process' # "none" /\ forward' # NoForward
    BY <1>5, AddressesAssumption DEF Started, NoForward, LivePhases
  <2> QED
    BY <1>2, <1>3, <1>5, <2>1
    DEF Started, TunnelInv, TunnelTypeOK, NothingLeftBehind, FilesAreNamed, FilesKept, Forwards,
        LivePhases
<1>6. \/ /\ password
         /\ NoProcessLeft
         /\ named' = names
         /\ disk' = DiskAfterStop
      \/ /\ NoProcessLeft
         /\ named' = names \ {"askpass"}
         /\ disk' = written \ (names \cap {"askpass"})
      \/ /\ Started(port, host, files)
         /\ named' = names
         /\ disk' = written
  BY DEF StartSshTunnel
<1>7. written \ (names \cap {"askpass"}) = {}
  BY <1>2, <1>3
<1> QED
  BY <1>1, <1>3, <1>4, <1>5, <1>6, <1>7

LEMMA StartManagedNestedTunnelInv ==
  ASSUME TunnelInv, NEW port \in LocalPorts, NEW host \in Hosts,
         StartManagedNestedTunnel(port, host)
  PROVE  TunnelInv'
<1>1. DiskAfterStop = {} /\ NamedAfterStop \subseteq Files
  BY StopRemovesAll
<1>2. CASE NoProcessLeft /\ disk' = {} /\ named' \subseteq Files
  BY <1>2 DEF NoProcessLeft, TunnelInv, TunnelTypeOK, NothingLeftBehind, FilesAreNamed, FilesKept,
              LivePhases
<1>3. CASE Started(port, host, Files) /\ named' = Files /\ disk' = Files
  <2>1. process' # "none" /\ forward' # NoForward
    BY <1>3, AddressesAssumption DEF Started, NoForward, LivePhases
  <2> QED
    BY <1>3, <2>1
    DEF Started, TunnelInv, TunnelTypeOK, NothingLeftBehind, FilesAreNamed, FilesKept, Forwards,
        LivePhases
<1>4. \/ NoProcessLeft /\ disk' = {} /\ named' \subseteq Files
      \/ Started(port, host, Files) /\ named' = Files /\ disk' = Files
  BY <1>1 DEF StartManagedNestedTunnel, Files
<1> QED
  BY <1>2, <1>3, <1>4

LEMMA StopSshTunnelInv ==
  ASSUME TunnelInv, StopSshTunnel
  PROVE  TunnelInv'
<1>1. DiskAfterStop = {} /\ NamedAfterStop \subseteq Files
  BY StopRemovesAll
<1> QED
  BY <1>1 DEF StopSshTunnel, NoProcessLeft, TunnelInv, TunnelTypeOK, NothingLeftBehind, FilesAreNamed,
              FilesKept, LivePhases

\* What ssh does by itself disturbs no file.
LEMMA SshStepsInv ==
  ASSUME TunnelInv, SshForwards \/ SshEnds
  PROVE  TunnelInv'
<1>1. process' # "none" /\ process # "none"
  BY DEF SshForwards, SshEnds, LivePhases
<1> QED
  BY <1>1 DEF SshForwards, SshEnds, TunnelInv, TunnelTypeOK, NothingLeftBehind, FilesAreNamed, FilesKept,
              LivePhases

LEMMA TunnelNextInv == TunnelInv /\ [TunnelNext]_tunnelVars => TunnelInv'
<1> SUFFICES ASSUME TunnelInv, [TunnelNext]_tunnelVars
             PROVE  TunnelInv'
  OBVIOUS
<1>1. CASE UNCHANGED tunnelVars
  BY <1>1 DEF tunnelVars, TunnelInv, TunnelTypeOK, NothingLeftBehind, FilesAreNamed, FilesKept
<1>2. CASE \E port \in LocalPorts, host \in Hosts, password \in BOOLEAN :
             StartSshTunnel(port, host, password)
  BY <1>2, StartSshTunnelInv
<1>3. CASE \E port \in LocalPorts, host \in Hosts : StartManagedNestedTunnel(port, host)
  BY <1>3, StartManagedNestedTunnelInv
<1>4. CASE StopSshTunnel
  BY <1>4, StopSshTunnelInv
<1>5. CASE SshForwards \/ SshEnds
  BY <1>5, SshStepsInv
<1> QED
  BY <1>1, <1>2, <1>3, <1>4, <1>5 DEF TunnelNext, StartProxyJumpTunnel

\* The inductive invariant holds in every reachable state.
THEOREM TunnelInvHolds == TunnelSpec => []TunnelInv
BY TunnelInitInv, TunnelNextInv, PTL DEF TunnelSpec

\* The tunnel's members and files are well typed in every reachable state.
THEOREM TunnelTypeCorrect == TunnelSpec => []TunnelTypeOK
<1>1. TunnelInv => TunnelTypeOK
  BY DEF TunnelInv
<1> QED
  BY <1>1, TunnelInvHolds, PTL

\* No start that fails, and no stop, leaves a helper or a config on disk.
THEOREM NothingIsLeftBehind == TunnelSpec => []NothingLeftBehind
<1>1. TunnelInv => NothingLeftBehind
  BY DEF TunnelInv
<1> QED
  BY <1>1, TunnelInvHolds, PTL

\* Whatever is on disk, the next stop knows its path.
THEOREM FilesAreRemembered == TunnelSpec => []FilesAreNamed
<1>1. TunnelInv => FilesAreNamed
  BY DEF TunnelInv
<1> QED
  BY <1>1, TunnelInvHolds, PTL

\* An ssh that runs has the files it was given.
THEOREM FilesAreKept == TunnelSpec => []FilesKept
<1>1. TunnelInv => FilesKept
  BY DEF TunnelInv
<1> QED
  BY <1>1, TunnelInvHolds, PTL

-----------------------------------------------------------------------------

\* A tunnel's view is that of no tunnel exactly if there is no process.
LEMMA ViewOfNone ==
  ASSUME NoProcessLeft
  PROVE  Service!Stop
BY DEF NoProcessLeft, NoForward, Service!Stop, Service!NoTunnel

LEMMA ViewOfStarted ==
  ASSUME NEW port, NEW host, NEW files, Started(port, host, files)
  PROVE  Service!Start(port, host)
BY DEF Started, LivePhases, Service!Start

LEMMA StepsAreServiceSteps ==
  ASSUME [TunnelNext]_tunnelVars
  PROVE  [Service!Next]_<<process, forward>>
<1>1. CASE UNCHANGED tunnelVars
  BY <1>1 DEF tunnelVars
<1>2. ASSUME NEW port \in LocalPorts, NEW host \in Hosts, NEW password \in BOOLEAN,
             StartSshTunnel(port, host, password)
      PROVE  Service!Next
  <2>1. NoProcessLeft \/ \E files : Started(port, host, files)
    BY <1>2 DEF StartSshTunnel
  <2> QED
    BY <2>1, ViewOfNone, ViewOfStarted DEF Service!Next
<1>3. ASSUME NEW port \in LocalPorts, NEW host \in Hosts,
             StartManagedNestedTunnel(port, host)
      PROVE  Service!Next
  <2>1. NoProcessLeft \/ \E files : Started(port, host, files)
    BY <1>3 DEF StartManagedNestedTunnel
  <2> QED
    BY <2>1, ViewOfNone, ViewOfStarted DEF Service!Next
<1>4. CASE StopSshTunnel
  BY <1>4, ViewOfNone DEF StopSshTunnel, Service!Next
<1>5. CASE SshForwards
  BY <1>5 DEF SshForwards, Service!Next, Service!Forward
<1>6. CASE SshEnds
  BY <1>6 DEF SshEnds, LivePhases, Service!Next, Service!End
<1> QED
  BY <1>1, <1>2, <1>3, <1>4, <1>5, <1>6 DEF TunnelNext, StartProxyJumpTunnel

\* Seen from the session, the process, its files and the early returns of the
\* starts are a service that is started, stopped or ends by itself.
THEOREM TunnelIsService == TunnelSpec => ImplementsTunnelService
<1>1. TunnelInit => Service!Init
  BY DEF TunnelInit, NoForward, Service!Init, Service!NoTunnel
<1>2. [TunnelNext]_tunnelVars => [Service!Next]_[phase |-> process, port |-> forward.port,
                                     host |-> forward.host]
  <2> SUFFICES ASSUME [TunnelNext]_tunnelVars
               PROVE  [Service!Next]_[phase |-> process, port |-> forward.port,
                                      host |-> forward.host]
    OBVIOUS
  <2> QED
    BY StepsAreServiceSteps
<1> QED
  BY <1>1, <1>2, PTL DEF TunnelSpec, ImplementsTunnelService, Service!Spec

=============================================================================
