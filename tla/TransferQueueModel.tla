------------------------- MODULE TransferQueueModel -------------------------
(***************************************************************************)
(* The transfer queue of the GUI (apps/crossscp-gui/cpp/                   *)
(* TransferQueueModel.cpp): a list of jobs, the one QProcess that runs the *)
(* current job, and the slots the signals of that process call.            *)
(*                                                                         *)
(* Everything here runs on the GUI thread, so a slot or a click is atomic. *)
(* What interleaves is the order in which the event loop delivers clicks,  *)
(* process signals and deferred deletions.  A QProcess given to            *)
(* deleteLater while it runs stays connected until its destructor has      *)
(* killed it and waited for it, and its last signals are delivered to the  *)
(* same slots, which act on currentProcess_ and not on their sender.       *)
(*                                                                         *)
(* Jobs are numbered in the order in which they are added, and since a job *)
(* is started at most once its number also names its process.  Rows count  *)
(* from 1 and 0 stands for -1 and for a null pointer.                      *)
(*                                                                         *)
(* A definition marked "faulty variant" is no part of the model: it is the *)
(* definition after it with a plausible mistake, which shows that some     *)
(* property would catch that mistake.                                      *)
(***************************************************************************)
EXTENDS Naturals, Sequences

CONSTANTS
  MaxJobs,        \* bound: how many jobs are ever added
  ClicksBatched   \* may a click be handled before a pending deferred delete?

ASSUME MaxJobsAssumption == MaxJobs \in Nat
ASSUME ClicksBatchedAssumption == ClicksBatched \in BOOLEAN

VARIABLES
  jobs,            \* jobs_
  currentRow,      \* currentRow_
  currentProcess,  \* currentProcess_
  useOpenSsh,      \* useOpenSshBackend_
  buffered,        \* whose output the three byte buffers hold
  procs,           \* how far each job's QProcess has come
  condemned,       \* processes given to deleteLater that have yet to end
  files,           \* rows whose askpass helper file is on disk
  reported,        \* the outcome signalled for each job
  nextId,          \* how many jobs have been added
  app              \* whether the application runs

vars == <<jobs, currentRow, currentProcess, useOpenSsh, buffered, procs,
          condemned, files, reported, nextId, app>>

-----------------------------------------------------------------------------

NoRow == 0
NoProcess == 0
NoPath == 0

Ids == 1..MaxJobs

\* The command a job runs; a local copy has none.
Programs == {"none", "cli", "scp"}

\* The texts of Job::state; the texts that carry a percentage are one value.
FinalStates  == {"Completed", "Failed"}
ActiveStates == {"Running", "Running with OpenSSH fast path", "Running N%"}
States       == {"Queued"} \cup ActiveStates \cup FinalStates

\* needsHelper: an scp that gets its password or passphrase from an askpass file.
Job == [id : Ids, program : Programs, needsHelper : BOOLEAN, state : States,
        askPassPath : Nat]

\* "unstarted" is a process that could not be started, "ok" and "bad" are
\* processes that ended with exit code 0 and in any other way.
LivePhases == {"starting", "running"}
EndPhases  == {"unstarted", "ok", "bad"}
Phases     == {"none"} \cup LivePhases \cup EndPhases

Live == {p \in Ids : procs[p] \in LivePhases}

\* Rows that startNextQueuedTransfer may pick.
Runnable(js) == {r \in DOMAIN js : js[r].state = "Queued" /\ js[r].program # "none"}

TypeOK ==
  /\ jobs \in Seq(Job)
  /\ currentRow \in 0..Len(jobs)
  /\ currentProcess \in Ids \cup {NoProcess}
  /\ useOpenSsh \in BOOLEAN
  /\ buffered \subseteq Ids
  /\ procs \in [Ids -> Phases]
  /\ condemned \subseteq Ids
  /\ files \subseteq Nat
  /\ reported \in [Ids -> {"none", "completed", "failed"}]
  /\ nextId \in 0..MaxJobs
  /\ app \in {"running", "crashed", "quit"}

Init ==
  /\ jobs = <<>>
  /\ currentRow = NoRow
  /\ currentProcess = NoProcess
  /\ useOpenSsh = FALSE
  /\ buffered = {}
  /\ procs = [p \in Ids |-> "none"]
  /\ condemned = {}
  /\ files = {}
  /\ reported = [i \in Ids |-> "none"]
  /\ nextId = 0
  /\ app = "running"

-----------------------------------------------------------------------------
(***************************************************************************)
(* startNextQueuedTransfer and startCurrentProcess, called while no        *)
(* process is current, on the values the caller has already computed.  The *)
(* rows before `next' are the jobs that fail on the spot: the helper file  *)
(* cannot be opened, or start() reports FailedToStart before it returns.   *)
(* Each such failure calls failCurrentProcess, which looks for the next    *)
(* job.  `wrote' are those of them whose helper file was written, and      *)
(* removed again by the failure.                                           *)
(***************************************************************************)

\* Faulty variant of StartedJob: the job forgets where its helper file is.
StartedJobNoPath(job, row) ==
  [job EXCEPT
     !.state = IF job.program = "scp" THEN "Running with OpenSSH fast path"
                                      ELSE "Running"]

StartedJob(job, row) ==
  [job EXCEPT
     !.state = IF job.program = "scp" THEN "Running with OpenSSH fast path"
                                      ELSE "Running",
     !.askPassPath = IF job.needsHelper THEN row ELSE @]

RefusedJob(job, row, wrote) ==
  [job EXCEPT !.state = "Failed",
              !.askPassPath = IF row \in wrote THEN row ELSE @]

\* Faulty variant of Refused: rows are skipped and stay queued.
NoneRefused(js, next) == {}

\* The runnable rows that must fail for the row next to be reached.
Refused(js, next) == {r \in Runnable(js) : next = NoRow \/ r < next}

\* startCurrentProcess clears the buffers of the process before.
BuffersAfterStart(js, bufs) == IF Runnable(js) = {} THEN bufs ELSE {}

StartRow(next, wrote, js, ps, reps, fs, bufs) ==
  LET refusedIds == {js[r].id : r \in Refused(js, next)}
  IN /\ jobs' = [r \in DOMAIN js |->
                   CASE r \in Refused(js, next) -> RefusedJob(js[r], r, wrote)
                     [] r = next                -> StartedJob(js[r], r)
                     [] OTHER                   -> js[r]]
     /\ currentRow' = next
     /\ currentProcess' = IF next = NoRow THEN NoProcess ELSE js[next].id
     /\ procs' = [p \in Ids |->
                    CASE p \in refusedIds    -> "unstarted"
                      [] p = currentProcess' -> "starting"
                      [] OTHER               -> ps[p]]
     /\ reported' = [i \in Ids |-> IF i \in refusedIds THEN "failed" ELSE reps[i]]
     /\ files' = (fs \ wrote) \cup {r \in {next} \cap DOMAIN js : js[r].needsHelper}
     /\ buffered' = BuffersAfterStart(js, bufs)

StartNextQueuedTransfer(js, ps, reps, fs, bufs) ==
  \E next \in Runnable(js) \cup {NoRow} :
    \E wrote \in SUBSET {r \in Refused(js, next) : js[r].needsHelper} :
      StartRow(next, wrote, js, ps, reps, fs, bufs)

(***************************************************************************)
(* What finishCurrentProcess and failCurrentProcess do to the row of the   *)
(* current job before they look for the next one.  The row is NoRow when   *)
(* clearFinished has dropped it.                                           *)
(***************************************************************************)
SettledJobs(ok) ==
  [r \in DOMAIN jobs |->
     IF r = currentRow
     THEN [jobs[r] EXCEPT !.state = IF ok THEN "Completed" ELSE "Failed"]
     ELSE jobs[r]]

SettledReports(ok) ==
  [i \in Ids |->
     IF currentRow # NoRow /\ jobs[currentRow].id = i
     THEN IF ok THEN "completed" ELSE "failed"
     ELSE reported[i]]

\* cleanupOpenSshAskPass for the current job.
FilesAfterCleanup ==
  IF currentRow # NoRow THEN files \ {jobs[currentRow].askPassPath} ELSE files

SettleCurrentRow(ps, ok, bufs) ==
  StartNextQueuedTransfer(SettledJobs(ok), ps, SettledReports(ok), FilesAfterCleanup, bufs)

\* deleteLater on the process that was current when a signal of p came.
Condemn(p) == (condemned \cup ({currentProcess} \ {NoProcess})) \ {p}

-----------------------------------------------------------------------------
(***************************************************************************)
(* Clicks.  Without ClicksBatched the event loop runs the deferred delete  *)
(* of a killed process before it handles another click.                    *)
(***************************************************************************)
UserTurn ==
  /\ app = "running"
  /\ ClicksBatched \/ condemned = {}

NewJob(program, secret, state) ==
  [id |-> nextId + 1, program |-> program, state |-> state,
   needsHelper |-> program = "scp" /\ secret, askPassPath |-> NoPath]

\* The branches of StartNextIfIdle, and each of them a faulty variant of it.
NeverStartNext(js) ==
  /\ jobs' = js
  /\ UNCHANGED <<currentRow, currentProcess, procs, reported, files, buffered>>

AlwaysStartNext(js) == StartNextQueuedTransfer(js, procs, reported, files, buffered)

\* startNextQueuedTransfer after a job has been appended.
StartNextIfIdle(js) ==
  IF currentProcess = NoProcess THEN AlwaysStartNext(js) ELSE NeverStartNext(js)

\* enqueueRemoteTransfer.  `native' is a transfer only the CLI can make: an
\* FTP transfer, one with a conflict policy, an SFTP upload of a folder.
EnqueueRemoteTransfer ==
  /\ UserTurn
  /\ nextId < MaxJobs
  /\ \E native, secret \in BOOLEAN :
       LET program == IF useOpenSsh /\ ~native THEN "scp" ELSE "cli"
       IN StartNextIfIdle(Append(jobs, NewJob(program, secret, "Queued")))
  /\ nextId' = nextId + 1
  /\ UNCHANGED <<useOpenSsh, condemned, app>>

\* enqueueLocalCopy blocks the event loop until the copy is over.
EnqueueLocalCopy ==
  /\ UserTurn
  /\ nextId < MaxJobs
  /\ \E state \in FinalStates : jobs' = Append(jobs, NewJob("none", FALSE, state))
  /\ nextId' = nextId + 1
  /\ UNCHANGED <<currentRow, currentProcess, useOpenSsh, buffered, procs,
                 condemned, files, reported, app>>

SetUseOpenSshBackend ==
  /\ UserTurn
  /\ useOpenSsh' = ~useOpenSsh
  /\ UNCHANGED <<jobs, currentRow, currentProcess, buffered, procs, condemned,
                 files, reported, nextId, app>>

(***************************************************************************)
(* clearFinished keeps the rows whose state text is exactly "Queued" or    *)
(* "Running", in their order.  kept lists the rows that stay, as a         *)
(* strictly increasing sequence.                                           *)
(***************************************************************************)
KeptStates == {"Queued", "Running"}

Increasing(S, n) ==
  {f \in UNION {[1..m -> S] : m \in 0..n} :
     /\ \A a, b \in DOMAIN f : a < b => f[a] < f[b]
     /\ \A s \in S : \E a \in DOMAIN f : f[a] = s}

\* Faulty variant of RemappedRow: only an index past the end is corrected.
RowClamped(kept) == IF currentRow \in DOMAIN kept THEN currentRow ELSE Len(kept)

\* Where the current row ends up, if it stays.
RemappedRow(kept) ==
  IF \E a \in DOMAIN kept : kept[a] = currentRow
  THEN CHOOSE a \in DOMAIN kept : kept[a] = currentRow
  ELSE NoRow

ClearFinished ==
  /\ UserTurn
  /\ \E kept \in Increasing({r \in DOMAIN jobs : jobs[r].state \in KeptStates}, Len(jobs)) :
       /\ jobs' = [a \in DOMAIN kept |-> jobs[kept[a]]]
       /\ currentRow' = RemappedRow(kept)
  /\ UNCHANGED <<currentProcess, useOpenSsh, buffered, procs, condemned, files,
                 reported, nextId, app>>

\* clearAll, the queue's part of Disconnect.
ClearAll ==
  /\ UserTurn
  /\ files' = FilesAfterCleanup
  /\ condemned' = condemned \cup ({currentProcess} \ {NoProcess})
  /\ currentProcess' = NoProcess
  /\ currentRow' = NoRow
  /\ buffered' = {}
  /\ jobs' = <<>>
  /\ UNCHANGED <<useOpenSsh, procs, reported, nextId, app>>

\* Closing the window destroys the model, and with it all connections, before
\* the processes: no slot runs, and no helper file is removed.
Quit ==
  /\ UserTurn
  /\ app' = "quit"
  /\ UNCHANGED <<jobs, currentRow, currentProcess, useOpenSsh, buffered, procs,
                 condemned, files, reported, nextId>>

-----------------------------------------------------------------------------
(***************************************************************************)
(* Signals of the process of job p, current or condemned.                  *)
(***************************************************************************)

\* The lambda on QProcess::started calls currentProcess_->closeWriteChannel()
\* without looking at the pointer.
ProcessStarted(p) ==
  /\ app = "running"
  /\ procs[p] = "starting"
  /\ procs' = [procs EXCEPT ![p] = "running"]
  /\ app' = IF currentProcess = NoProcess THEN "crashed" ELSE app
  /\ UNCHANGED <<jobs, currentRow, currentProcess, useOpenSsh, buffered,
                 condemned, files, reported, nextId>>

\* errorOccurred(FailedToStart), then failCurrentProcess.
ProcessFailedToStart(p) ==
  LET ps == [procs EXCEPT ![p] = "unstarted"]
  IN /\ app = "running"
     /\ procs[p] = "starting"
     /\ IF currentProcess = NoProcess
        THEN /\ procs' = ps
             /\ UNCHANGED <<jobs, currentRow, currentProcess, buffered, files, reported>>
        ELSE SettleCurrentRow(ps, FALSE, buffered)
     /\ condemned' = Condemn(p)
     /\ UNCHANGED <<useOpenSsh, nextId, app>>

\* Faulty variant of Succeeded: the exit code is not looked at.
AnyExitSucceeds(how) == TRUE

\* exitStatus == NormalExit && exitCode == 0
Succeeded(how) == how = "ok"

\* finished, then finishCurrentProcess.
ProcessFinished(p, how) ==
  LET ps == [procs EXCEPT ![p] = how]
  IN /\ app = "running"
     /\ procs[p] = "running"
     /\ IF currentProcess = NoProcess
        THEN /\ procs' = ps
             /\ UNCHANGED <<jobs, currentRow, currentProcess, buffered, files, reported>>
        ELSE SettleCurrentRow(ps, Succeeded(how), {})
     /\ condemned' = Condemn(p)
     /\ UNCHANGED <<useOpenSsh, nextId, app>>

\* readyRead: text that is no progress line goes to a buffer; a progress line
\* also rewrites the state text of the current row, if there is one.
ConsumeOutput ==
  /\ app = "running"
  /\ currentProcess # NoProcess
  /\ procs[currentProcess] = "running"
  /\ buffered' = buffered \cup {currentProcess}
  /\ \/ jobs' = jobs
     \/ jobs' = [r \in DOMAIN jobs |->
                   IF r = currentRow THEN [jobs[r] EXCEPT !.state = "Running N%"]
                                     ELSE jobs[r]]
  /\ UNCHANGED <<currentRow, currentProcess, useOpenSsh, procs, condemned, files,
                 reported, nextId, app>>

-----------------------------------------------------------------------------

ProcessEnds(p) == ProcessFailedToStart(p) \/ \E how \in {"ok", "bad"} : ProcessFinished(p, how)

Next ==
  \/ EnqueueRemoteTransfer
  \/ EnqueueLocalCopy
  \/ SetUseOpenSshBackend
  \/ ClearFinished
  \/ ClearAll
  \/ Quit
  \/ \E p \in Ids : ProcessStarted(p) \/ ProcessEnds(p)
  \/ ConsumeOutput

(***************************************************************************)
(* start() is answered: by started or by FailedToStart.  Nothing makes a   *)
(* process end that runs: FTP transfers and scp have no timeout, and the   *)
(* queue sets none for its process.                                        *)
(***************************************************************************)
Fairness == \A p \in Ids : WF_vars(ProcessStarted(p) \/ ProcessFailedToStart(p))

SafeSpec == Init /\ [][Next]_vars

Spec == SafeSpec /\ Fairness

-----------------------------------------------------------------------------
(***************************************************************************)
(* Safety.                                                                 *)
(***************************************************************************)

\* The row that shows a transfer as running is the row of the current process,
\* and the only one: clearing rows above it, a failed start or the signals of a
\* killed process never leave currentRow_ on another job or a job running for
\* ever without a process.
RowIntegrity ==
  /\ currentRow # NoRow =>
       /\ currentProcess # NoProcess
       /\ jobs[currentRow].id = currentProcess
  /\ \A r \in DOMAIN jobs : jobs[r].state \in ActiveStates <=> r = currentRow

\* The queue never goes idle with a transfer left in it: every way in which a
\* process stops being current looks for the next job.
NoStall == currentProcess = NoProcess => Runnable(jobs) = {}

\* A transfer that waits was submitted after every transfer that was ever
\* begun, so none is overtaken and none is begun twice, whatever was cleared.
NoOvertaking ==
  \A r \in Runnable(jobs), p \in Ids : procs[p] # "none" => p < jobs[r].id

\* While the row of an scp with a secret is current its askpass file is there:
\* neither the removal for another job, nor the shift of the rows that name the
\* files, takes it away.
HelperPresent ==
  currentRow # NoRow /\ jobs[currentRow].needsHelper =>
    jobs[currentRow].askPassPath \in files

\* The buffers that become the error text or the final destination of a job
\* hold output of its own process only.
OutputOwned == currentProcess # NoProcess => buffered \subseteq {currentProcess}

\* Every QProcess that runs is the current one or is about to be deleted: none
\* is forgotten by the queue.
NoOrphan ==
  /\ Live = condemned \cup ({currentProcess} \ {NoProcess})
  /\ currentProcess \notin condemned

\* Two transfers never run side by side, if deferred deletes come before clicks.
OneTransferAtATime == ~ClicksBatched => \A p, q \in Live : p = q

\* A job is signalled as completed only if its own process exited with 0, and
\* as failed only if its own process did not, if deferred deletes come before
\* clicks.
OutcomeTruthful ==
  ~ClicksBatched =>
    \A i \in Ids : /\ reported[i] = "completed" => procs[i] = "ok"
                   /\ reported[i] = "failed"    => procs[i] \in {"unstarted", "bad"}

\* The one way to reach the null pointer behind QProcess::started is to
\* disconnect while a process is starting.
CrashOnlyOnDisconnect ==
  app = "crashed" => \E p \in condemned : procs[p] = "running"

\* An outcome that was signalled is final, and its row, until it is cleared,
\* is never touched again.
OutcomeKept ==
  /\ \A i \in Ids : reported[i] # "none" => reported'[i] = reported[i]
  /\ \A r \in DOMAIN jobs, s \in DOMAIN jobs' :
       jobs[r].state \in FinalStates /\ jobs'[s].id = jobs[r].id => jobs'[s] = jobs[r]

OutcomeFinal == [][OutcomeKept]_vars

(***************************************************************************)
(* Liveness.                                                               *)
(***************************************************************************)
WaitingIds == {jobs[r].id : r \in Runnable(jobs)}

\* A transfer that waits for ever waits behind one process that runs for ever:
\* no failed start, no clearing and no disconnect makes the queue forget it,
\* and every other end of the transfers before it brings its turn.
WaitsOnlyBehindRunning ==
  \A i \in Ids :
    <>[](i \in WaitingIds /\ app = "running")
      => \E p \in Ids : <>[](currentProcess = p /\ procs[p] = "running")

(***************************************************************************)
(* The queue as a first-come first-served server.                          *)
(***************************************************************************)
Serial == INSTANCE SerialTransferQueue
            WITH last <- nextId, waiting <- WaitingIds,
                 active <- currentProcess, open <- app = "running"

\* Every step of the queue is a step of the serial server or none at all,
\* whatever order the event loop chooses.
StepsAreSerial == Serial!SafeSpec

(***************************************************************************)
(* What the GUI says of the queue and the code does not keep.              *)
(***************************************************************************)

\* "Clear Finished" clears finished transfers: a transfer whose process runs
\* keeps its row.
RunningTransferListed == currentProcess # NoProcess => currentRow # NoRow

\* The askpass helper is temporary: none is on disk while nothing runs.
HelperTemporary == currentProcess = NoProcess => files = {}

=============================================================================
