# Cross-SCP in TLA+

Cross-SCP is a file-transfer client: a set of Rust crates that speak SFTP, SCP
and FTP(S) and copy local files, a command line program over them, and a
Qt/QML application that runs the command line program (or OpenSSH's `scp`) in
child processes. This directory holds TLA+ models of its core logic, the TLC
configurations that check them and TLAPS proofs about them.

Source paths below are relative to `src/`.

## 1. Inventory

### The GUI, one thread and one event loop

**Transfer queue** (`apps/crossscp-gui/cpp/TransferQueueModel.cpp`, `.h`).
*State:* the list `jobs_` that is also the list on screen, `currentRow_`,
`currentProcess_`, three output buffers, the askpass helper files on disk, the
backend switch `useOpenSshBackend_`.
*Operations:* enqueue a remote transfer or a local copy, Clear Finished, clear
everything (part of Disconnect), switch the backend, and the slots of the
signals of the child process (started, readyRead, errorOccurred, finished).
*Interactions:* it starts `crossscp` or `scp`; its signal `transferCompleted`
makes the QML controller refresh the panes.
*Hard:* rows shift while a process runs; a process handed to `deleteLater()`
while it runs is still connected, and its last signals reach slots that act on
`currentProcess_`, which may by then be null or another process; a start can
fail synchronously, inside the call that starts the next job.
*Correct when:* the running row and the process agree, the queue never goes
idle with work left, transfers begin in order and once, an outcome is that of
the job's own process and final, helper files live as long as their job needs
them and no longer.

**Backend** (`cpp/AppBackend.cpp`). *State:* `sshTunnelProcess_`, the askpass
and config files of the tunnel, the file `site-profiles.jsonl`. *Operations:*
`startSshTunnel` (204-356), `startProxyJumpTunnel`, `startManagedNestedTunnel`,
`stopSshTunnel` (628), `sshTunnelActive` (652), `saveSite`, `deleteSite`,
`listSites`, and `runCommand` (656), which blocks the event loop for up to
125 s and then kills the command. *Hard:* early returns that leave files
behind, a tunnel that dies after the grace period, a command killed after its
remote effect, two stores behind one list of sites. *Correct when:* at most
one tunnel runs, its files live as long as it, and what the list of sites shows
is what was saved.

**Remote pane** (`cpp/RemoteFileModel.cpp`). *State:* connection fields,
`connected_`, the current path and its rows. *Operations:* connect with a
password or a key, refresh, open, up, upload, download, create and delete (each
a blocking command), `entryStatus`, disconnect. *Hard:* `connected_` is set
before anything has reached the host. *Correct when:* rows shown belong to the
host and path shown, and a failed connection is not taken for a session.

**Local pane** (`cpp/LocalFileModel.cpp`): path and rows, file operations,
`entryStatus`.

**Controller** (`qml/Main.qml`). *State:* the active session (`active*`), the
pending transfers and the overwrite prompt. *Operations:* connect (1388),
disconnect (947), build and queue pending uploads and downloads (264-350),
perform them (351, 384), answer the prompt (1525), react to a completed transfer (460).
*Hard:* existence is checked when a transfer is queued and used when it runs;
the prompt asks one object and the transfer goes to another. *Correct when:*
nothing the user did not agree to is overwritten.

### The Rust core

**Job queue** (`crates/crossscp-transfer/src/lib.rs`): jobs with states,
`enqueue`, `next_queued`, `start_next`, `set_state`, `remove_finished`,
`decide_overwrite`. *Correct when:* started jobs were queued, a cleared list
keeps the active ones, an overwrite needs a policy or an answer.

**Local adapter** (`crates/crossscp-protocol-local/src/lib.rs`): copy with
prompt, policy and cancellation, resume, list, rename, remove.
*Hard:* the destination changes between the look and the copy.

**Masks** (`crates/crossscp-core/src/masks.rs`): wildcard matching with an
explicit backtracking loop. *Correct when:* it agrees with the meaning of `*`
and `?`.

**Conflict names, policies, cancellation** (`crossscp-core/src/protocol.rs`),
**prompts and sessions** (`prompts.rs`, `session.rs`).

**Session store** (`crossscp-config/src/lib.rs`): a map written through to a
file that is rewritten in place. *Hard:* a crash or an error in the write.
**Credentials** (`crossscp-security/src/lib.rs`): a map in memory.

**SFTP** (`crossscp-protocol-sftp/src/lib.rs`, `ssh2_backend.rs`): host keys
(look up, ask, trust, flush) and transfers (conflict policy, recursive upload,
download and delete, create-or-replace). *Hard:* each of the several remote
calls of an operation can fail, and the tree changes under it. *Correct when:*
a policy that must not lose a file does not lose it, an unknown or a changed
key is never used without an answer.

**FTP(S)** (`crossscp-protocol-ftp/src/lib.rs`), **SCP**
(`crossscp-protocol-scp/src/lib.rs`): the same questions with fewer primitives.

**Command line** (`crossscp-cli/src/main.rs`): parses arguments, calls an
adapter, prints progress lines and an exit code.

**Stubs:** the WebDAV and S3 crates turn a profile into a configuration and
refuse every operation; the macOS and Windows crates have no behaviour.

## 2. Modules

| Module | Models | Relation to the others | Theorems in |
|---|---|---|---|
| `SerialTransferQueue` | what the queue promises | abstract | |
| `TransferQueueModel` | the GUI queue | implements `SerialTransferQueue` | `TransferQueueModel_proofs` |
| `TunnelService` | what a session sees of a tunnel | abstract | |
| `SshTunnel` | the tunnels of `AppBackend` and their files | implements `TunnelService` | `Sessions_proofs` |
| `GuiSession` | remote pane, controller, prompt, conflict check | composes `TunnelService` and a serial queue | `GuiSession_proofs` |
| `Trees` | file trees and what servers do to them, and paths | used by all below | |
| `Destination` | what a transfer under a policy promises | abstract | |
| `SftpUpload` | uploads of files and directories by SFTP | implements `Destination` | `Transfers_proofs` |
| `FtpUpload`, `Download`, `ScpUpload` | the other transfers | the first two implement `Destination`, step by step | `Transfers_proofs` |
| `Transfers` | one of these four is used | composes them, for every value of their constants | `Transfers_proofs` |
| `RemoteDelete` | recursive deletes by SFTP and FTP | | `Files_proofs` |
| `RemoteSession` | an adapter from profile and secret to its sessions | | `Sessions_proofs` |
| `RemoteCommands` | a command of the CLI and the GUI that waits for it | calls what the adapter modules model | `RemoteCommands_proofs` |
| `SessionStore`, `HostKeys`, `SiteProfiles` | the files rewritten in place | `SiteProfiles` uses the promise of `SessionStore` | `Stores_proofs` |
| `RecordLines` | the text of the first two | | `Stores_proofs` |
| `Stores` | one of these four is used | composes them, for every value of their constants | `Stores_proofs` |
| `Selection` | the members of a sequence that lie in a set | used by the stores, `LocalCopy` and `RemotePaths` | `DataLemmas` |
| `Texts` | `str::split` | used by `RecordLines` and `RemotePaths` | `DataLemmas` |
| `LocalCopy`, `LocalFiles` | job queue and executor; the local adapter | | `Files_proofs` |
| `FileMask` | masks | | `Files_proofs` |
| `RemotePaths` | functions on paths and names | | `Files_proofs` |
| `Local` | one of these four is used | composes them, for every value of their constants | `Files_proofs` |

`DataLemmas` has what several proofs need: induction, `Select`, `Split`, paths,
trees.

Each component has a module; the modules `MC...` give it to TLC. The queue,
the tunnel, the session, the delete, the adapter's session and the commands
have one each. The transfers (`Transfers`), the stores (`Stores`) and what
needs no server (`Local`) share one: a first state chooses which component
is used (`kind`, `part`), its actions go on, and the variables of the others
stay at one fixed value. That is a disjoint union of the state graphs, so a
property of the union is the conjunction of the same statement about each.

## 3. The queue

### Correspondence

`TransferQueueModel.tla` is translated from `TransferQueueModel.cpp`.

| Model | Code |
|---|---|
| `jobs` | `jobs_`, a sequence of `Job`; row *r* of the model is index *r*-1 |
| `currentRow`, `NoRow` | `currentRow_`, -1 |
| `currentProcess`, `NoProcess` | `currentProcess_`, the null pointer; otherwise the number of the job it was created for |
| `buffered` | whose text is in `standardOutputBuffer_`, `standardErrorBuffer_`, `progressBuffer_` |
| `procs` | how far the `QProcess` of each job has come; the environment's half |
| `condemned` | processes given to `deleteLater()` that have not ended yet |
| `files` | helper files on disk, named by the row in their file name |
| `reported` | the outcome `transferCompleted` carried for each job |
| `nextId` | how many jobs were added; numbers jobs, no variable of the code |
| `app` | the application runs, has dereferenced null, or has quit |

A job is started at most once (`NoOvertaking`, proved), so its number also
names its process. State texts are kept as far as the code compares them:
`clearFinished` compares whole texts, so `"Running"`, `"Running with OpenSSH
fast path"` and texts with a percentage are different values. Byte counts,
speeds, paths and wording are left out.

Each action is one slot or one invokable method, from its first line to its
return, including the calls it makes. `StartNextQueuedTransfer` is the loop
`startNextQueuedTransfer` / `startCurrentProcess` / `failCurrentProcess`: a
job whose helper file cannot be written, or whose `start()` emits
`errorOccurred(FailedToStart)` before it returns, fails on the spot and the
next one is tried, so one call picks the row that does start and everything
runnable before it is refused. (On Unix `QProcess::start` may report a failed
fork synchronously; a failed exec is reported later, as `ProcessFailedToStart`.)

*Condemned processes.* `deleteLater()` runs the destructor when control is back
in the event loop. `~QProcess` kills a process that still runs and waits for
it, and the wait emits `started`, `errorOccurred` or `finished` to the slots,
which are connected to the queue and not to the process. The model delivers
those signals like any others, after the process was condemned.
`ClicksBatched` says whether a click may come between `deleteLater()` and the
destructor. Usually the deferred delete is the next thing the loop does; but
clicks that piled up while a blocking `runCommand` or `refresh` held the
thread are delivered one after the other, and then several are handled before
the deferred deletes posted by the first. The
theorems hold for both settings; two properties are claimed only without
batching, since TLC shows that they fail with it.

Definitions marked *faulty variant* are not part of the model. Each is a
definition with a plausible mistake, kept to show that a property notices it.

### Properties

Run `queue` (3 jobs, no batching, fairness) checks `RowIntegrity`,
`HelperPresent`, `OutcomeTruthful`, `CrashOnlyOnDisconnect`,
`WaitsOnlyBehindRunning`, and that every step of the queue is one of the serial
server (`StepsAreSerial`). The other properties below are only proved, and so is what is
said of the setting with batching.

- `RowIntegrity`: the row that shows a transfer as running is the row of the
  current process, and the only one.
- `NoStall`: with no current process nothing is waiting.
- `NoOvertaking`: transfers begin in the order of submission, and once.
- `HelperPresent`: the askpass file of the current job is there, although
  files are named by rows and rows shift.
- `OutputOwned`: the buffers hold text of the current process only.
- `NoOrphan`: a running process is current or about to be deleted, never both.
- `OneTransferAtATime`, `OutcomeTruthful`: transfers do not run side by side
  and an outcome is that of the job's own process, if deferred deletes come
  before clicks. With batching both fail: disconnect, reconnect and a new
  transfer before the delete, and the killed process settles the new row.
- `CrashOnlyOnDisconnect`: the slot on `started` (402-403) dereferences
  `currentProcess_` unchecked; a null pointer is reachable exactly by
  disconnecting while a process is starting. The property confines the crash
  to that case.
- `OutcomeFinal`: no step takes back an outcome or touches a finished row.
- `WaitsOnlyBehindRunning`: a transfer that waits for ever waits behind one
  process that runs for ever; no failed start, no clearing and no disconnect
  makes the queue forget it, and any end of that process brings its turn.

*Bounds.* `MaxJobs` bounds how many jobs are ever added. Three are one that
runs, one that waits and one that is cleared above or below them; a row is
only ever related to the current row and the next runnable one. Safety does not
rest on the bound: it is proved for every `MaxJobs`.

*Deadlock* is not checked: the application may quit or crash, and with all jobs
used up and no process running there is only the backend switch left.

*Fairness.* Weak fairness per process on "it starts or fails to start", which is
`fork` and `exec` and nothing of the server. Nothing is assumed about clicks,
and nothing about the end of a process: SFTP and SCP of the CLI give up after a
timeout, but its FTP sessions have none (`crossscp-protocol-ftp/src/lib.rs` 198-230),
nor has `scp`, and the queue sets no limit to its `QProcess`. So a transfer that
hangs keeps all others waiting, and what can be claimed is
`WaitsOnlyBehindRunning`: the queue itself never does.

### Proofs

`TransferQueueModel_proofs.tla` proves every safety property above for every
`MaxJobs \in Nat` and both values of `ClicksBatched`, and
that every step is a step of `SerialTransferQueue` (`QueueIsSerial`). The only assumptions are the types of
the two constants.

The argument has three layers, since none of the properties but typing is
inductive alone.

1. `TypeOK` is inductive (`TypeStep`).
2. `OrderInv` adds that ids ascend with rows (`Ascending`: rows are appended
   and `clearFinished` keeps their order), that no id or process exceeds
   `nextId` (`Issued`), `RowIntegrity`, `NoStall` and `NoOvertaking`. They need
   each other: that the started row has the smallest waiting id follows from
   `Ascending`, that no row is active besides it from `RowIntegrity`, that
   nothing is left when no row starts is `NoStall`.
3. `ProcessInv` adds `ReportsOf` (an outcome that was reported belongs to a job
   no longer waiting or running) and the properties of processes, files and
   outcomes.

`StartNextOrder` and `StartNextProcesses` state once what a call of
`startNextQueuedTransfer` establishes from the values it is called with; each
action that ends in such a call cites them. `OutcomeStep` proves
`OutcomeFinal` from `ProcessInv`, and `SerialStep` maps each action to an
action of the serial server under `OrderInv`.

*Only model-checked:* `WaitsOnlyBehindRunning`.

## 4. The tunnel

`SshTunnel.tla` is the part of `AppBackend.cpp` that owns `sshTunnelProcess_`.

| Model | Code |
|---|---|
| `process` | `sshTunnelProcess_`: null, or how far its ssh has come |
| `forward` | the `-L` argument: a local port and the server it leads to |
| `given` | the files this ssh was told to use |
| `named` | which of `sshAskPassPath_` and `sshConfigPath_` hold a path |
| `disk` | which of the two files exist |

A start is one action: it validates, stops the old tunnel, writes its files,
starts ssh and waits 1.2 s, all on the blocked GUI thread. Arguments that are
refused change nothing. The disjuncts of a start are its early returns. What
ssh does by itself, logging in and ending, is one action each; nothing in the
code is connected to either. Stopping is taken to succeed: a terminated ssh is
killed after 2 s. Errors of removing a file are left out, since the code
ignores them, and so are files of another run with the same process id.

Run `tunnel` (3 hosts, 2 ports, so that a restart may lead elsewhere on the same
port and elsewhere on another) checks, and `Sessions_proofs.tla` proves for any
hosts and ports, under the assumption that `Nowhere` is none of them:

- `NothingLeftBehind`: without a process there is no file, whichever early
  return ended the last start (`NothingIsLeftBehind`).
- `FilesAreNamed`: the next stop knows every file on disk (`FilesAreRemembered`).
- `FilesKept`: a running ssh has the files it was given (`FilesAreKept`).
- `ImplementsTunnelService`: the session may think of the tunnel as
  `TunnelService` (`TunnelIsService`).

The four invariants together are inductive, and none but typing is alone: a
stop removes what is *named*, so it empties the disk only because of
`FilesAreNamed`; `stopSshTunnel` returns at once without a process, where
`NothingLeftBehind` has to say that there was nothing to remove; and
`FilesKept` holds of a new ssh because its files are written after that. The
lemma `StopRemovesAll` states this once. The refinement needs no invariant.

## 5. The session

`GuiSession.tla` composes the controller (`Main.qml`), the remote pane
(`RemoteFileModel.cpp`), the tunnel as `TunnelService` and the queue as a serial
server of its jobs (what `SerialTransferQueue` promises).

| Model | Code |
|---|---|
| `pane` | `host_` and `port_`, `protocol_`, whether host and user are filled in, `connected_`; `shown` is the host whose rows are in `entries_` |
| `active` | `activeHost` and its fellows |
| `tunnel` | see `TunnelService` |
| `dialog` | the open modal dialog |
| `pendingUploads`, `pendingDownloads`, `conflicting`, `isDownload` | the properties of those names; `conflicting` is the list that `isDownload` selects |
| `jobs`, `serving` | the waiting transfers and the host the first one talks to |
| `remote`, `local` | what is at each destination: nothing, what job *i* wrote, or something else |

`via` and `shown` of a job record what the user saw when asking for it; no
code reads them. Addresses are not hosts: a local port stands for whatever the
tunnel leads to when it is used, and that is where the difficulty is.

An action is one click with the blocking commands it runs. A command may fail,
and a command may die without a word: `connectPassword` takes an empty error
text for success (94), so the session may open on a folder that was never
listed. A running transfer is two actions, since other things happen between
the moment it treats its destination and its end. What it does with the
destination follows `run_remote_transfer` (`crossscp-cli/src/main.rs` 228): no
policy means Replace. Paths and the tree under a destination are left out.

`Circumstances` switches on what the weaker properties need to exclude: closing
the Site Manager without a connection, tunnels, SCP, acting while transfers
wait, other users of the server. With all of them off, the user may still
connect to any server, browse, create, delete, transfer and disconnect.

| Run | Circumstances and bounds | Shows |
|---|---|---|
| `session` | closing, tunnels, others; 2 hosts, 1 port, 1 name, 1 job | `PaneShowsItsHost`, `PromptIsAboutPending` |
| `session_direct` | SCP; 2 hosts, 2 names, batches of 1 and 2, 2 jobs | `TransfersReachTheirHost`, `NothingReplacedUnasked` |
| `session_overlap` | overlap; 2 jobs | a violation, see Disagreements |

- `PaneShowsItsHost`: rows on display are those of the host the next command
  reaches, or it reaches none. Failed reconnects, tunnels led elsewhere under an
  open session and late refreshes do not show one host while Delete means another.
- `AsksTheRightHost`, `TransfersReachTheirHost`: the pane that is asked about
  conflicts and the session that gets the transfers have one address, and a
  transfer talks to the host that was shown when it was asked for, if the Site
  Manager is left by connecting only. Jobs that go through a local port are
  excluded: connecting does not clear the queue, so a new tunnel on the same
  port takes them elsewhere.
- `NoTransferWithoutSession`: disconnecting leaves nothing to run.
- `PromptIsAboutPending`: the one dialog for two lists is about the list that
  its buttons queue.
- `NothingReplacedUnasked`: the check at queueing time and the use at running
  time agree through any sequence of connections, but for uploads by SCP,
  which cannot look.

`GuiSession_proofs.tla` proves all of these for every set of hosts, ports,
names and batches, every number of jobs and every set of circumstances, under
`ConstantsAssumption`: hosts, ports and `Nowhere` are told apart, and a batch is
a sequence of names without repetition. The latter is what the panes see to: an
entry is ticked once (`Main.qml:89-98`), and the ticks are cleared whenever
either pane opens another folder, those of the remote pane also when it
connects (`Main.qml:475-499`), so that all entries of a selection are of one
folder. Without it two uploads of one batch
would meet at one destination, neither having found anything there.

The inductive invariant adds four facts: only a transfer that is queued runs
(`ServingFirst`), the prompt is open only while the pane is connected
(`PromptNeedsPane`, so that its answer queues for the host it was about), a
queued transfer carries the address and the host of the pane it was asked for
in (`JobsAsked`, which makes it reach that host when its turn comes), and, for a
user who is alone with the servers, uses no tunnel and waits for the transfers,
there is still nothing at the destination of a transfer that was queued without
asking (`JobsFindNothing`). The last one carries the look of one step through a
queue of any length to the write of a later step: addresses of direct sessions
stand for one host for good, the prompt is open only while the queue is empty,
the destinations of a batch differ, so that the transfer that runs takes away
none of the others' free places, and everything else that writes waits for the
queue to be empty. The parts are shown one after the other, each from those
before it.

*Bounds.* Two hosts are the least for mixing them up; one local port is the
interesting number, since it is shared. One job suffices where the properties
look at the first job only; the direct run has two jobs and two names so that
a batch is checked and served piecemeal. `Answers` limits the buttons pressed
to Replace in `session`; all three are used in the others. Hosts are
interchangeable, so their permutations are a symmetry (no liveness is checked
here). *Deadlock* is not checked: with all jobs used up nothing need happen.
No fairness is assumed and no liveness claimed: a user may stop at any time, and
that the queue serves its jobs is section 3's subject.

## 6. Transfers

`Trees` has file trees (a function from paths, which are sequences of names,
to entries) and what servers and file systems do to them. `Destination` says
what `FileConflictPolicy` promises (`crossscp-core/src/protocol.rs` 195-205):
a transfer adds entries, rewrites what it made itself, takes what was there
only under Replace and only in the place of a source path, never takes a
directory that matches a directory, and succeeds only if every source path was
delivered or skipped.

| Model | Code |
|---|---|
| `policy`, `source`, `given`, `exact` | the arguments of the call, `source` with the tree behind it |
| `remote`, `local` (`tree` in `Destination`) | the tree that is written to; `of` marks who made an entry |
| `step`, `item` | the next call to the server or the file system, and what it is for |
| `stack` | the recursion: the directories that are being walked, with the entries left |
| `placed` | where each source path went, or that it was skipped |
| `processed`, `reported`, `bytes` | the counters of progress and summary |
| `others` | how often somebody else has changed the tree |

One action is one call to the server or the file system with the code around
it: between two of them anybody may create or remove an entry, and every call
may fail. The order of directory entries is arbitrary. Contents are sizes, and
bytes only where they matter (`ScpUpload`).

- `SftpUpload` (`crossscp-protocol-sftp/src/ssh2_backend.rs`): the destination
  is resolved, twice for the top directory; directories are made from the top
  or entered; a file is created exclusively unless the policy is Replace, which
  opens, and unlinks and creates if that fails.
- `FtpUpload` (`crossscp-protocol-ftp/src/lib.rs`): what exists is learnt from
  the listing of the parent, and `STOR` overwrites. So the promise holds step by
  step only as long as nobody interferes (`PromiseKept`).
- `ScpUpload` (`crossscp-protocol-scp/src/lib.rs`): the size is told before the
  file is opened and read, and no status of the server is read afterwards.
- `Download`: the three protocols share the resolution of the local destination
  and differ in how they tell a directory from a file. `MayMistake` lets that
  question go unanswered, which the code takes for "a file".

Run `transfers` takes each kind of transfer under every policy. The source is a
file, an empty directory, or a directory with a file and a subdirectory with a
file; it goes onto every mix of files, directories and nothing in the
contested places, the first numbered name among them, with one interference at
any moment. That is enough for a name that is free when looked up and taken
when used, for a directory numbered while its children are not, and for a file
in the way of a directory and the reverse. SCP sends up to three bytes, which
makes the local file grow, shrink and change within what was told.

- `WholeIfUndisturbed`: success without interference means that all that was
  not skipped is there, whole. Over SCP, also what is there before the end is a
  beginning of the file.
- `EntriesArriveTogether`: children arrive in the directory that their parent
  became, numbered or not, whatever others do; a download numbers each name at
  most once.
- `BytesAreCounted`: progress never goes back and ends at the total; summaries
  are the size of what was delivered.
- `OthersEntriesKept`: an SFTP upload that was not told to replace leaves alone
  whatever it did not make, also what appears between the look and the creation.
- `ImplementsDestination`: an SFTP upload implements `Destination`.
- `PromiseKept`: so does every step of an FTP upload and of a download, until
  somebody interferes.
- `TransfersComeToRest`: no transfer goes on for ever. It ends, or waits for a
  call that is not answered.

*Fairness.* None is assumed. That a call is answered or fails is not up to the
code (SFTP and SCP have a timeout, FTP has none), and `TransfersComeToRest` says
nothing of calls: it is about the loops, in which numbers are tried until one is
free, directories are made one prefix at a time and trees are walked. Others
interfere a bounded number of times; who creates every number before it is tried
may keep a transfer busy as long as he likes.

A local directory that is replaced (`remove_dir_all`), and over FTP a remote one
(`delete_path_recursive`), goes entry by entry, and others, or a failure, may come
between: `RemoveLocal`, `ClearDirectory` with `EmptyDirectory`. The entries go in any order that keeps a tree.

*Deadlock* is not checked: a transfer that has ended does nothing more.

`Transfers_proofs.tla` proves all of these but the last for every source, every
tree, every number of interferences and all contents: `TransfersAreWhole`,
`TransfersKeepTogether`, `TransfersCountBytes`, `TransfersKeepOthersEntries`,
`TransfersImplementDestination` and `TransfersKeepPromise`; the fourth and the
fifth also of an SFTP upload on its own (`UploadKeepsOthersEntries`,
`UploadImplementsDestination`). The assumptions: sources, remotes and locals
are finite trees of files and directories, names and destinations are not
empty, and what a transfer writes can be told from what was there
(`TreesAssumption`, `TransfersAssumption`). Nothing limits their size or depth.

The inductive invariant is `TransferInv` (`TransferInvHolds`). Its parts, and
why each is needed:

- `Inv`, of an SFTP upload. `Covered`: as long as nothing failed, each source
  path is placed, or below the current item, or below an entry left on the
  stack; at the end, when item and stack are used up, that is "all has
  arrived". `InPlace`: under Replace each path on the stack is the destination
  followed by a source path, so what is unlinked or truncated is in the place of
  something that is transferred.
- `Walks`, of any walk. What waits on the stack is apart from what is placed
  (`Covered` does not say so), so that nothing is delivered or counted twice,
  and each frame's target is where its directory was placed, which is what
  `EntriesArriveTogether` needs for the children still to come.
- `Undisturbed`, `Undisturbed2`: without interference, what is placed is there,
  whole. An invariant of one call cannot say it, because a later call might
  write over an earlier one; that it does not rests on targets being as far
  apart as the sources, which is where names that are not empty and the
  numbering of taken names come in.
- `FtpRelies`, `DownRelies`, `DirectoryRelies`, `FileRelies`: what the last look
  said is still so when it is used. These are the only parts that interference
  ends, and the reason why `PromiseKept` is about steps without any.
- `DownNumbered`: a name is numbered, and a number tried, only after all smaller ones were taken.
- `Counted`, `Counted2`: the bytes counted are the size of what is placed. Sizes
  are sums over finite sets of files, and that sums of disjoint parts add up is
  shown by an induction over subsets with the set itself as the quantified
  variable (`SizesAddUp` and the lemmas before it), not over an operator.
- `ScpInv`: what the server has is the beginning of the file that was opened, as
  long as that file is not changed.

TLC checked the parts on walks and on what a step relies on, on the trees of
the run, before they were proved.
`PromiseKept` is about a download only if it learns what is a directory
(`~MayMistake`): if it may not, the property is false, and that is the
disagreement `download_list` shows. `TransfersComeToRest` stays with TLC, since it
is a liveness property.

## 7. Remote delete

`RemoteDelete.tla` is `delete_remote_path_recursive` of SFTP and FTP, one call
per step, on trees with symbolic links. `found`, `removed` and `seen` are history
variables. The server follows links on the way to a path, and for `stat` and
listings also at its end; unlinking does not follow. SFTP looks at each entry,
FTP goes by what the listing said when it was read, in which a link is no directory.

Run `remote_delete` starts from every combination of a file, a subdirectory
and a link to a directory outside, with two interferences: two are needed to
remove and create anew. Deadlock is not checked, since a delete that has
returned does nothing more.

- `StaysInside`: nothing outside of the path is removed, if there are no links,
  or over FTP if the path itself is none.
- `GoneIfOk`: success means that the path was removed.
- `LateEntriesKept`: what another client puts into a directory after it was read
  is neither unlinked nor removed: each step takes away the path itself or what
  its directory held at the first reading. That the server refuses to remove a
  directory that is not empty is not enough for it; what is unlinked must come
  from the reading, and nothing may be read a second time.

`Files_proofs.tla` proves the three for every tree, path and number of
interferences, under `TargetAssumption` (the path leads over no link). It needs
that the path is pending until it is removed (`Pending`), and that every
directory on the stack was reached over no link (`Clean`), which stays so
because nobody makes links: other clients that do are outside of the model.
For `LateEntriesKept` each entry that is left on the stack, and the one that is
being removed, is one that was seen, and what is still pending was not read
before (`ReadOnce`).

## 8. Sessions of an adapter

`RemoteSession.tla` follows one adapter from the profile and the secret it is
made of through its connections.

| Model | Code |
|---|---|
| `profile`, `live` | the `SessionProfile`, and whether it was made from the environment (`sftp-live-config`) |
| `service` | `InMemoryCredentialService`, with versions to tell secrets apart |
| `config`, `auth` | what `from_profile` and `resolve_auth` returned |
| `session`, `dialing` | the connection in the adapter's `session` field, and the one in a local variable of `connect` |
| `conns` | the server's side of all connections |
| `listing` | where a list is: an error of `MLSD` leads to `LIST` |
| `held`, `wanted` | history: the session that a connect found; whether the owner wants one |

Run `remote_session` (3 connects, 2 stored secrets, profiles with something
missing for each protocol, environments of the live configuration) checks,
and `Sessions_proofs.tla` proves for any of these numbers, under
`ProfilesAssumption` (what a profile can say, and that no entry of a directory is
called `.` or `..`):

- `SessionIsLoggedIn`: a session has logged in with the secret its adapter was
  made with, of a kind that its protocol takes.
- `NothingLeftOpen`: the server is left with the session and the connection that
  is being made; after a disconnect, even one that failed, with nothing.
- `FailedConnectKeepsSession`: a connect that fails leaves the session it found,
  so that a retry never costs what worked.

The invariant adds what each phase of a connect knows of the ones before: who
dials has a secret (`AuthOK`), the session that was found is kept while dialing
(`Held`), a session that is not wanted is gone (`LinkOK`). Proved only:
`SavedConfigures` (what the session store accepts configures its adapter, but
for an S3 profile without a bucket), `LiveConfigures` and `ListIsTheDirectory`: a
list that succeeds names what is in the directory, whether the server calls the
directory itself and its parent `.` and `..` or marks them with `type=cdir;` and
`type=pdir;` under another name. That such a mark is the first fact of its line
is taken for granted, as in the code (`crossscp-protocol-ftp/src/lib.rs` 236-239).
Three connections are a session, one that fails and one that replaces it. Deadlock is checked: an
owner may always leave the adapter alone.

## 9. Commands

`RemoteCommands.tla` is one command of the CLI as a process, from its arguments
to its exit code (`crossscp-cli/src/main.rs`), and the GUI that starts it and
blocks until it ends (`AppBackend::runCommand`).

| Model | Code |
|---|---|
| `request` | style, command, protocol, flags with a value, conflict policy, what is misspelt |
| `system`, `login` | the environment of the process, and what the GUI's user entered |
| `caller` | the GUI, or a shell |
| `step` | parse, dispatch, credential, connect, operate, answer, print, goodbye, exited |
| `secret` | the credential and where it is from |
| `called` | the adapter call with its policy |
| `sent`, `acted` | requests of the operation that were sent, and carried out by the server |
| `exit` | exit code and why |
| `minutes`, `since` | time since the start and since the last answer |

A user name that is blank is refused before FTP connects, and by SFTP and SCP
after the handshake (`NoName`). Without the ssh2 backend the `sftp-...` commands
fail without a look at their arguments.

The adapters are counters of requests here: what they do is in the sections
before. A server may refuse, act and lose the answer, or never answer. Time is
counted in minutes, since the limits are two minutes (the GUI's) and the
timeout of the session; a minute passes only while an answer is awaited.

Run `remote_commands` has the GUI's commands on all protocols with all
policies, the positional commands, and a shell that forgets each flag in turn
or misspells something, six environments, and operations of two requests: one
that was carried out and one that was not.

- `AsTold`: what reaches the server is the operation, the protocol and the
  policy that were asked for; a policy that cannot be kept is refused.
- `OkIsDone`: success means that the server has carried out all of it.
- `NothingSentAfterAnswer`: once the caller has its answer, or has given up,
  nothing more is sent.
- `CallerAnswered`: the GUI, whose only thread waits, gets an answer even if the
  server never gives one.

*Fairness.* The process goes on when it can (`Process`), and the GUI's wait
goes on (`Waiting`: its timer, and the kill): both are the operating system's.
Nothing is assumed of the server.

`RemoteCommands_proofs.tla` proves the three safety properties for every
request, environment and number of requests, under `RequestsAssumption` and
`CallsAssumption`, and beside them that the declared capabilities of the live
protocols are those of their commands (`CapableIffReached`), that a command
which has reported completion fails only by being killed
(`CompletedIsNotFailed`) and which secret wins (`LoginIsUsed`). The invariant
ties each step to what the process has done so far: who may send has a plan and
a credential (`Planned`), and the counters say how far the server has got
(`Counted`).

## 10. Stores

Three files are rewritten in place: truncated, then written line by line.
Two processes may do so, a write may fail, and a crash may leave a beginning.

- `SessionStore` (`crossscp-config/src/lib.rs`): `memory` is the map of each
  process, `file` the lines, `pc` where a process is in open, flush or write.
  `save` and `delete` change the map before the flush can fail.
- `RecordLines`: the text of that file and of the known hosts: escaping, joining
  and splitting, character by character, since what it treats in a way of its
  own is what the properties are about. `TakeChar` is one turn of the loop of
  `unescape`, `Taken` its state after each character, `Trimmed` what
  `str::lines` does to the end of a line.
- `HostKeys` (`crossscp-protocol-sftp/src/lib.rs`): `memory` is the copy a store
  read when it was opened; a verification compares, asks and remembers.
- `SiteProfiles` (`AppBackend.cpp` 64-180): `full` is the GUI's file, `legacy`
  the session store that it reaches by commands.

Run `stores` checks:

- `SessionsAreKept`: what a process has in memory after a successful call is
  what opening the file again gives, also what an earlier call left there that
  failed; as long as no two processes overlap and no write breaks off, it is
  what the calls add up to; and nothing is read that was never saved.
- `LinesComeBack`: a whole file gives back every text it can hold; a file that
  was cut gives back the first of its records, the last field of the last one
  possibly shortened.
- `KeysAreTrusted`: a key is accepted silently only if a user asked to remember
  just this key of this endpoint; the last word counts as long as nothing
  failed; a key reported as remembered is in the file.
- `KeysChangeOnlyAfterPrompt`: a store changes its mind only on a prompt that
  showed the key it had, to the key the prompt was about.
- `SitesActAsOne`: without failures the two stores behind the list of sites act
  as one; no site is shown twice whatever fails; a delete that reports failure
  has spared the full profile, a save that does all of them. A delete that
  reports success may have deleted nothing (`DeletedIsGone`, section 12).

*Bounds.* Two processes, three operations (save, save again, delete or reopen)
and six profiles, two of them versions of one and one of a name that starts
with `#`; two key stores, endpoints and keys, three verifications; two sites
with two versions, three calls; no record, one whose fields have up to two of the seven
characters that matter, or two with up to one. Deadlock is not checked, since the operations are bounded.

### Proofs

`Stores_proofs.tla` proves all of these, for every number of processes,
profiles, endpoints, keys, sites and calls, and for all records of any number
of fields.

*Assumed* (`StoresAssumption`): profiles are records of strings and a length,
under the names of the map; these names, and the endpoints, are the keys of a
map, hence listed without repetition; all fingerprints have one length (they are
digests), and nobody shows a key of no algorithm; the names of sites are
finitely many and none is what the model calls the beginning of a line. A record
has at least one field, and fields are sequences of characters.

*Induction.* What a file says after it was written and read again rests on what
`Select` returns: the members of a sequence that lie in a set, in their order,
each of them once (`SelectPicks`, in `DataLemmas.tla`). The induction theorems of the library take an
operator, which no prover here can instantiate. So induction is stated for sets:
a set of natural numbers that is not empty has a least member (`LeastNatural`,
from the well-foundedness of the order), hence one that holds 0 and with every
number the next holds all of them (`InductionOverNat`). `Select` is a recursive
function over positions, and its induction is over the set of positions up to
which it is right. `OneMoreMember` carries it to sequences: a set that holds the
empty one, and with every sequence the same with one more member, holds them
all. What a loop returns is stated as such a set.

*The lines* (`LinesComeBackAlways`). A state of `RecordLines` is a file, how much
of it is left and what was read; `LineInv` says that what was read is what
parsing gives for what is left. The rest is about functions. Unescaping takes back
what escaping did: from any state in which no escape has begun, the escaped
text leads to one with the text itself appended (`UnescapeEscaped`), and escaped
texts hold neither tabs nor line ends. So splitting a line at its tabs takes
back the joining (`SplitJoined`), and splitting the file at its line ends the
rendering (`SplitRendered`). For a file that broke off: of a beginning of a text, the
parts are the first parts of the text, the last one a beginning of the part it
belongs to (`SplitGrows`). This is used twice, for lines and for fields, and a
beginning of an escaped field is refused or unescapes to a beginning of the field.

*The known hosts.* None of the four parts is inductive alone. `HostInv` adds:

- `HostsHeard`: every key in the file and in every copy is one that a user asked
  to remember of that endpoint, or the beginning of one, since a write may break
  off within a fingerprint. That a verification then accepts nothing silently
  but what was remembered is the step from "a beginning" to "this key": all
  fingerprints have one length, so a shorter one equals none that is shown.
- `PromptsRight`, `SilenceRight`: what the prompt shows is what the copy has, and
  between the answer and the end of the write the copy has what was answered.
- `OneStoreOpen`, `CopyIsLastWord`: without an overlap at most one store is open,
  it has emptied the file when it is about to write, and without any mishap its
  copy, and the file but while it is rewritten, is the last word.

*The sessions.* `SessionInv` has the same shape: `ProfilesFromSaved` (every
profile in a copy or a line was saved, up to the end of its credential
reference), `CopiesAreKept` (each stands under its name and could be saved),
`OneProcessOpen` and `SyncedAreOpen`. The round trip holds for copies without a
name that is read as a comment, and `NoNameHashed` says that such a name can only
have come from a profile that was saved.

*The sites.* `SiteInv` follows the call under way: the lines it is about to write,
together with the older store as the call will leave it, show what the call is
for (`WillAgree`); no name stands on two of them (`NamesOnce`); a save that can
still fail has left the file alone (`FileUntouched`). The three lemmas
`VisibleSaved`, `VisibleWithout` and `VisibleSession` say how the list changes
with each store.

TLC has checked the three invariants in the bounds of the run.

## 11. Local files, masks and paths

- `LocalCopy`: the job queue (`crossscp-transfer/src/lib.rs`) and the executor of
  the local adapter, one call of the file system per step. `fs::copy` is two:
  the source is opened and the destination emptied (`OpenCopy`), then filled from
  the source that is held, whatever stands under the two paths by then (`Fill`).
- `LocalFiles`: create, remove and rename of the local adapter on trees with
  links. `create_dir_all` takes a link to a directory for one, and may make some
  of the directories and fail (`CreateBreaks`).
- `FileMask` (`crossscp-core/src/masks.rs`): one turn of the loops per step.
  Its characters are bytes, as there (78): of a path that is not ASCII, `?` takes
  one byte of a character.
- `RemotePaths`: numbered names, the destination of an upload, the home
  directory, the parent that FTP looks in; a state is a call and its result.
  Trimming and searching are by position, as in the code (`Kept`, `LastAt`).
  `Names` is what a server reads in a path, and `..` a name like others there;
  only `Path::file_name`, hence the numbering of local names, takes it for none
  (`file_name`). `Numerals` stands for ` (1)`, ` (2)`...,
  of which only matters that they differ and hold no slash; each is one member
  of a path.

Run `local` checks:

- `MasksDecide`: at every turn of the backtracking what is consumed of the mask
  stands for what is consumed of the path, a mask is left only if it does not
  match, and the decision is what the masks mean.
- `PathsLandRight`: a numbered name is a new sibling, the same on both sides
  unless the path ends in `..` (section 12); an upload lands at its path or directly inside; an absolute FTP path is looked up
  where it is stored. One upload is excepted (`TakenForDownload`, section 12).
- `CopiesKeepPromise`: jobs start in order; one that was started is completed or
  failed when the executor returns; what a completed job leaves is what its mode
  says, resumed copies included.
- `OthersKept`: without interference, what is outside of the paths of a call is
  as it was, also behind links.
- `RenamedStaysWhole`: a rename, which removes the destination first if it may,
  loses nothing of what it renames: without interference all of it is at the old
  path as long as the call has not succeeded, and at the new path, only there,
  when it has. Two paths of which one is in the other are excepted
  (`RenamedIsSomewhere`, section 12).

*Bounds.* Two jobs and one interference; masks of up to three characters
(two stars and a letter make it backtrack) on paths of up to four, one mask of
each kind; paths of up to four characters over `/`, `.`, `~`, blank and a
letter, and local names with and without an extension and the name `download`
that the code makes up. Deadlock is not checked: calls return.

### Proofs

`Files_proofs.tla` proves all of these, for every queue, tree, mask and path and
any number of interferences.

*Assumed.* `CopyAssumption`: files hold sequences of bytes, and jobs name one of
the five modes and one of the paths as destination. `TreeAssumption`: the trees
to start from are finite, every entry is in a directory, paths are sequences
of names, no link leads to another one, and no path of a call goes through a link. `PathsAssumption`: numbers are written in different ways, without a
slash; the name of a local file has no slash in it and is not empty or `.`; a
login starts in a directory whose path is absolute and, as every path that is
trimmed, does not end in a blank. The masks need nothing.

*The masks* (`MasksAreMeant`). What a mask means is declarative: the text can be
cut so that each character of the mask stands for its piece (`FileMask!Glob`).
`Sound` says that what is consumed of the mask stands for what is consumed of
the text, also at the last star, from where it would be tried again. That is not
enough for "no match is lost": the loop never goes back behind the last star.
`Complete` says why it need not: however the text may be cut, the piece of that
star ends at or behind the place that is tried, and while there is text left,
the characters since the star took one each. When the loop is stuck, no cut
ends the star's piece there, so all of them do so at least one further
(`StuckCutsGoOnLater`); when it gives up, there is no cut (`TurnGivesUp`). The
loop takes a star of the *text* for a character first (section 12), so this
holds for texts without one (`Plain`).

*The copies* (`CopiesAreKept`). `QueueInv` keeps the numbers of the queue
ascending, so that what `start_next` finds is the oldest; `RunningIsExecuted` is
needed with it, or the executor would settle a job that is no longer there.
`Undisturbed` carries the start of a job to its end: as long as nobody
interferes, what the executor has read at each of its calls is what was there
when the job was started, and its decision is `decide_overwrite` of that.

*The adapter* (`LocalFilesAreKept`, `RenamedIsNeverLost`). `FileInv` says that
the tree stays one, whatever others do, and that without them it is the tree of
the call until the one change is made, or, for a rename with overwrite, that
tree without the destination (`Untouched`). A rename replaces the beginning of
every path below the source: `Swap` does that and undoes it (`SwapBack`), hence
is a bijection, so nothing is lost on the way and nothing else appears
(`MoveFacts`); that it moves no directory into itself or onto one that holds
something makes the result a tree again (`MoveApart`). Without overwrite, what
`exists` does not see at the destination is nothing, or a link that leads
nowhere, and only this may be replaced. `RenamedStaysWhole` needs that taking
away the destination, or a part of it, takes nothing of the source, and that the
move puts each path of the source at its place (`FileWhole`).

*The paths* (`PathsLandRightAlways`). `PathsInv` says that the call is one of
those that can be made and its result what the functions return for it; the
theorem is about these functions, for paths of any length. Three laws relate
the text of a path to its names: what follows a slash adds its names
(`NamesBehindSlash`), slashes at the end add none (`NamesOfTrimmed`), and a name
behind a directory is one name more (`ChildOfDirectory`). `LastAtIs` cuts a text
at its last slash or dot. The rest follows the code: a numbered name is the name
with the number put in at one position, and the functions of the two sides,
which share no code, choose the same one (`PutInAt`), so it differs
from the name and from the name with another number; a path that was made
absolute leads where it led before, from the login directory (`NormalIs`); each
branch of `resolve_upload_destination_for_type` gives that place or a
child of it (`DestinationLandsWell`), but for the one upload of section 12, which
this proof brought up; the parent and the name that FTP looks for make up the
place of the path (`LookedUpAtPlace`).

## 12. Disagreements between the code and its documents

Two runs end in a violation, because the code does what a document says it
does not:

1. `session_overlap`: `performUpload` (`Main.qml` 363) looks for a conflict when
   an upload is queued. Two uploads to one name in a row both find nothing; the
   second replaces the first without a prompt, where `README.md:10` promises a
   choice (`UploadConflictsResolved`).
2. `download_list`: a listing that fails is taken for "not a directory"
   (`crossscp-protocol-ftp/src/lib.rs` 369); with Replace the local directory is
   then removed before `RETR` fails, where `protocol.rs:201` says that matching
   directories are merged (`MatchingDirectoriesMerged`). The same happens to a
   download by SFTP whose `stat` fails (`ssh2_backend.rs` 224), and by SCP of a
   directory (`crossscp-protocol-scp/src/lib.rs` 239).

TLC also refutes the following definitions, which state what a document, a
message or a test says. They are kept in their modules; to see a trace, name
one in the configuration of the module's run. Where a weaker statement is true,
that is what the run checks.

| Definition | What the code does | What is said |
|---|---|---|
| `TransferQueueModel!RunningTransferListed` | Clear Finished (`TransferQueueModel.cpp` 311) keeps rows with exactly `"Queued"` or `"Running"`; a running row that shows progress, or OpenSSH, is dropped | the label "Clear Finished" (`Main.qml:1518`) |
| `TransferQueueModel!HelperTemporary` | the askpass file of such a row is never removed (607) | "temporary OpenSSH askpass helper" (376) |
| `GuiSession!PromptSpeaksOfDestination` | after a failed connection the pane keeps the failed host and the session the old one; conflicts are looked up on the former, uploads go to the latter (`RemoteFileModel.cpp` 84) | "already exists at the destination" (`Main.qml:1538`) |
| `FileMask!MaskedByWildcards` | a mask's star is used up by a star in the path before it is asked whether it is a wildcard (`masks.rs` 85) | "supporting `*` and `?` wildcards" (16) |
| `RemotePaths!EmptyPathNotDeleted` | an empty path becomes the home directory before it is tested for being empty (`ssh2_backend.rs` 442) | "refusing to delete empty path or remote root" (931) |
| `RemotePaths!RootNotDeleted` | only the text `/` is the root, `//` and `/.` are not (929) | the same |
| `RemotePaths!EachUploadLandsAtOrInside` | a path of slashes only, such as `//`, has no last name, for which `remote_basename` puts `download` (646): a directory of this name is taken for the same one, and its destination becomes the empty path, where nothing is created (`ssh2_backend.rs` 527) | only a directory of the same name is the merge root: the test at 1088 |
| `RemotePaths!EachNumberedAlike` | for a path that ends in `..`, `Path::file_name` has no name: locally it becomes ` (1)`, remotely `.. (1)`, or `. (1).` if it is a file (`protocol.rs` 252) | "suffixed directly" (211): `photos (1)`, `report (1).pdf` |
| `RemotePaths!LookedUpWhereStored` | a relative FTP path is looked up in `/` and stored in the login directory (`crossscp-protocol-ftp/src/lib.rs` 687) | "Keep the destination item" (`protocol.rs:199`) |
| `SftpUpload!FoldersMerged` | under Keep both a folder goes into a new numbered one, nothing is merged (`ssh2_backend.rs` 561) | "Existing destination folders are merged" (`CHANGELOG.md:29`) |
| `Download!OthersEntriesKept`, `FtpUpload!OthersEntriesKept` | `File::create` and `STOR` overwrite what has appeared since the look (`ssh2_backend.rs` 267, FTP 437) | `protocol.rs:199` |
| `RemoteDelete!DeletesOnlyThis` | `stat` follows links, so a linked directory is emptied (`ssh2_backend.rs` 936) | "Delete this file or folder?" (`Main.qml:847`) |
| `RecordLines!PersistsAcrossReopen` | a carriage return at the end of a line is lost (`crossscp-config/src/lib.rs` 279) | the test at 347 |
| `SessionStore!PersistsAcrossReopen` | a profile whose name starts with `#` is skipped as a comment (229) | the test at 347 |
| `LocalCopy!NeverOverwrites` | the decision uses metadata read before, `fs::copy` truncates (`crossscp-protocol-local/src/lib.rs` 165) | the test at 610 |
| `LocalCopy!SourceKept` | a copy onto itself truncates before it reads (172) | "Copy a local file" (110) |
| `LocalFiles!RenamesWithoutOverwriting` | `exists` is asked first, and `fs::rename` replaces (385) | the test at 489 |
| `SiteProfiles!DeletedIsGone` | the profile is found, the file does not open for writing and `session-delete` fails: `true` is returned, and nothing is deleted (`AppBackend.cpp` 165, 174) | "Deleted full profile '%1'" (176) |
| `LocalFiles!RenamedIsSomewhere` | with overwrite the destination is removed first, also if it is or holds the source (389) | the test at 511 |
| `RemoteCommands!NamedVariableIsFound` | an empty `CROSSSCP_REMOTE_...` hides the variable of the protocol (`main.rs` 921) | the help (83) |
| `RemoteCommands!TimeoutIsKept` | `runCommand` kills after 120 s whatever the timeout (`AppBackend.cpp` 679) | 300 seconds (`CHANGELOG.md:71`) |

## 13. What is proved and what is model-checked

| Run | Bounds | Proved for all values | Model-checked only |
|---|---|---|---|
| `queue` | 3 jobs | safety and the steps of the refinement | `WaitsOnlyBehindRunning` |
| `tunnel` | 3 hosts, 2 ports | everything | |
| `session`, `session_direct` | section 5 | everything | |
| `transfers` | section 6, 1 interference | safety and every step of the refinement | `TransfersComeToRest` |
| `remote_delete` | 5 places, 2 interferences | everything | |
| `remote_session` | 3 connects, 2 secrets | everything | |
| `remote_commands` | 2 requests | safety | `CallerAnswered` |
| `stores` | section 10 | everything | |
| `local` | section 11 | everything | |

Every theorem is relative to the named assumptions of its module only, which
TLC evaluates in the runs. Every invariant and every action property that a run
without an expected violation checks is proved. Liveness stays with TLC, since
it rests on fairness and on `ENABLED`, or on an order of what is still to be done.

## 14. What is not modelled

- *Formatting and layout:* the GUI's rows, icons and wording, JSON, progress
  lines, packaging. *Arguments:* how a command line is split into flags.
- *Listings:* how a line of `LIST` or `MLSD` is parsed, and servers that answer
  `LIST` of a file with the file itself. A listing is what is in the directory, or
  fails.
- *Protocols and cryptography* of libssh2, suppaftp and TLS; implicit FTPS
  shares every step of FTPS but the handshake. An SCP upload reads no exit
  status, so the model lets the server fail to store unnoticed.
- *Host keys in use:* `HostKeys` models the stores and the verification; the
  ssh2 backend's `connect` never calls it, so no property relates the two.
- *Progress arithmetic:* `bytesDone * 100` overflows at sizes no disk has; byte
  counts are left out of the queue.
- *Local commands* of the CLI are one call each of the local adapter.
- *Two writers of one file:* lines that two processes have written across each
  other are taken as unreadable.
- *`MasterPasswordVault`* is used by its own test only, and is cryptography.
- *Stubs:* every operation of WebDAV and S3 fails at once; macOS and Windows
  crates have no behaviour.
