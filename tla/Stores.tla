------------------------------- MODULE Stores -------------------------------
(***************************************************************************)
(* The files that the program keeps and rewrites in place: one of the      *)
(* session store, the known hosts, the sites of the GUI and the line       *)
(* format of the first two is used, and the others stay as they are.       *)
(***************************************************************************)
EXTENDS Naturals, Sequences, FiniteSets

CONSTANTS
  Processes, SessionOrder, BlankNames, HashedNames, Profiles,  \* SessionStore
  HostStores, HostOrder, ShownKeys,                            \* HostKeys
  SiteNames, SiteData,                                         \* SiteProfiles
  RecordFields, SomeRecords,                                   \* RecordLines
  MaxCalls                                                     \* bound: calls of each

VARIABLES
  part,
  file, pc, memory, ops, synced, saved, expected, mishaps,  \* SessionStore
  hosts, storePc, keys, asked, decision, verified, said, lastWord, failures, \* HostKeys
  full, legacy, step, call, buffer, dropped, result, calls, mishap, before,
  sites, ever,                                              \* SiteProfiles
  records, kept, read, loaded                               \* RecordLines

NoRepetition(s) == \A i, j \in DOMAIN s : s[i] = s[j] => i = j

\* Profiles are saved under the names of the map, and names of profiles and
\* endpoints are the keys of a map; a fingerprint is a digest of one length,
\* and nobody shows the key of no algorithm.
SessionsAssumption ==
  /\ SessionOrder \in Seq(STRING) /\ NoRepetition(SessionOrder)
  /\ Profiles \subseteq [name : {SessionOrder[i] : i \in DOMAIN SessionOrder},
                         protocol : STRING, host : STRING, port : STRING, cred : Nat]
HostsAssumption ==
  /\ HostOrder \in Seq(STRING) /\ HostOrder # <<>> /\ NoRepetition(HostOrder)
  /\ ShownKeys \subseteq [algorithm : STRING \ {"none"}, fingerprint : Seq(Nat)]
  /\ \A k, l \in ShownKeys : Len(k.fingerprint) = Len(l.fingerprint)
SitesAssumption == IsFiniteSet(SiteNames) /\ SiteNames \subseteq STRING \ {"junk", "none"}
RecordsAssumption ==
  /\ RecordFields \in Nat \ {0}
  /\ SomeRecords \subseteq Seq([1..RecordFields -> Seq(STRING)])
ASSUME StoresAssumption ==
  /\ SessionsAssumption /\ HostsAssumption /\ SitesAssumption /\ RecordsAssumption
  /\ MaxCalls \in Nat

Sessions == INSTANCE SessionStore WITH
  Order <- SessionOrder, Blank <- BlankNames, Hashed <- HashedNames, MaxOps <- MaxCalls

KnownHosts == INSTANCE HostKeys WITH
  Stores <- HostStores, Order <- HostOrder, Keys <- ShownKeys, MaxOps <- MaxCalls,
  lines <- hosts, pc <- storePc, memory <- keys, ops <- verified, mishaps <- failures

Sites == INSTANCE SiteProfiles WITH
  Names <- SiteNames, Data <- SiteData, saved <- sites

Lines == INSTANCE RecordLines WITH Fields <- RecordFields, Saves <- SomeRecords, saved <- records

sessionVars == <<file, pc, memory, ops, synced, saved, expected, mishaps>>
hostVars == <<hosts, storePc, keys, asked, decision, verified, said, lastWord, failures>>
siteVars == <<full, legacy, step, call, buffer, dropped, result, calls, mishap, before, sites, ever>>
lineVars == <<records, kept, read, loaded>>
allVars == <<part, sessionVars, hostVars, siteVars, lineVars>>

StoresInit ==
  /\ part \in {"sessions", "hosts", "sites", "lines"}
  /\ IF part = "lines" THEN records \in SomeRecords ELSE records = <<>>
  /\ Sessions!Init /\ KnownHosts!Init /\ Sites!Init /\ Lines!Init
  /\ part # "sites" => legacy = <<>>

UseSessions == part = "sessions" /\ Sessions!Next /\ UNCHANGED <<part, hostVars, siteVars, lineVars>>
UseHosts == part = "hosts" /\ KnownHosts!Next /\ UNCHANGED <<part, sessionVars, siteVars, lineVars>>
UseSites == part = "sites" /\ Sites!Next /\ UNCHANGED <<part, sessionVars, hostVars, lineVars>>
UseLines == part = "lines" /\ Lines!Next /\ UNCHANGED <<part, sessionVars, hostVars, siteVars>>

StoresSpec == StoresInit /\ [][UseSessions \/ UseHosts \/ UseSites \/ UseLines]_allVars

-----------------------------------------------------------------------------

\* Well typed, what a process of the session store has in memory is what opening the file
\* again gives, also after a call that failed; as long as no two processes had
\* it open and no write broke off, that is what the calls add up to; and
\* whatever broke off, nothing is read that was not given to save.
SessionsAreKept ==
  /\ Sessions!TypeOK
  /\ Sessions!SyncedIsOnDisk
  /\ Sessions!NothingLostWithoutMishap
  /\ Sessions!NothingInvented

\* A host key is accepted without a prompt only if a user asked to remember
\* just this key of this endpoint, and as long as nothing failed the last word
\* counts, also over a key that was replaced or forgotten; who is told that a
\* key was remembered finds it in the file.
KeysAreTrusted ==
  /\ KnownHosts!TypeOK
  /\ KnownHosts!SilentOnlyIfRemembered
  /\ KnownHosts!SilentFollowsLastWord
  /\ KnownHosts!RememberedIsOnDisk

\* A store changes its mind about an endpoint only on a prompt about it that
\* showed the key it had, and only to the key the prompt was about.
KeysChangeOnlyAfterPrompt == KnownHosts!ReplacedOnlyAfterShown

\* The two stores behind the list of sites act as one as long as nothing
\* fails, and no site is shown twice whatever fails; a delete that reports
\* failure has spared the full profile, and a save that does all of them.
SitesActAsOne ==
  /\ Sites!TypeOK
  /\ Sites!ListIsWhatWasSaved
  /\ Sites!ShownOnce
  /\ Sites!FailedDeleteKeepsIt
  /\ Sites!FailedSaveChangesNothing

\* A whole file can be read and gives back every text with tabs, line ends and
\* backslashes; a file that was cut gives back the first of the records.
LinesComeBack ==
  /\ Lines!RoundTrip
  /\ Lines!WholeFileLoads
  /\ Lines!CutLosesTheEnd
=============================================================================
