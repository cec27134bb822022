---------------------- MODULE TransferQueueModel_proofs ----------------------
(***************************************************************************)
(* Theorems about TransferQueueModel, for every number of jobs and whether *)
(* or not clicks are handled before deferred deletes.                      *)
(***************************************************************************)
EXTENDS TransferQueueModel, SequenceTheorems, TLAPS

-----------------------------------------------------------------------------
(***************************************************************************)
(* What the helpers return.                                                *)
(***************************************************************************)

\* A function on 1..n is a sequence of length n.
LEMMA FunctionIsSeq ==
  ASSUME NEW S, NEW n \in Nat, NEW f \in [1..n -> S]
  PROVE  f \in Seq(S) /\ Len(f) = n /\ DOMAIN f = 1..n
PROOF
  <1>1. DOMAIN f = 1..n
    OBVIOUS
  <1>2. f \in Seq(S)
    OBVIOUS
  <1>3. Len(f) = n
    BY <1>1, <1>2, LenProperties
  <1> QED
    BY <1>1, <1>2, <1>3

\* A sequence of jobs is a function on its rows.
LEMMA RowsOf ==
  ASSUME NEW js \in Seq(Job)
  PROVE  /\ Len(js) \in Nat
         /\ DOMAIN js = 1..Len(js)
         /\ \A r \in DOMAIN js : js[r] \in Job
         /\ NoRow \notin DOMAIN js
         /\ Runnable(js) \subseteq DOMAIN js
PROOF
  <1>1. Len(js) \in Nat /\ js \in [1..Len(js) -> Job] /\ DOMAIN js = 1..Len(js)
    BY LenProperties
  <1>2. NoRow \notin DOMAIN js
    BY <1>1 DEF NoRow
  <1> QED
    BY <1>1, <1>2 DEF Runnable

\* A job that is started keeps its number and names its row as the place of its
\* askpass file.
LEMMA StartedJobType ==
  ASSUME NEW job \in Job, NEW row \in Nat
  PROVE  /\ StartedJob(job, row) \in Job
         /\ StartedJob(job, row).id = job.id
         /\ StartedJob(job, row).state \in ActiveStates
         /\ job.needsHelper =>
              StartedJob(job, row).askPassPath = row
         /\ StartedJob(job, row).needsHelper = job.needsHelper
PROOF
  BY DEF StartedJob, Job, States, ActiveStates, FinalStates, Programs

\* A job that is refused keeps its number and has failed.
LEMMA RefusedJobType ==
  ASSUME NEW job \in Job, NEW row \in Nat, NEW wrote
  PROVE  /\ RefusedJob(job, row, wrote) \in Job
         /\ RefusedJob(job, row, wrote).id = job.id
         /\ RefusedJob(job, row, wrote).state = "Failed"
PROOF
  BY DEF RefusedJob, Job, States, ActiveStates, FinalStates, Programs

\* What StartRow leaves in each row.
LEMMA StartRowRows ==
  ASSUME NEW js \in Seq(Job), NEW next \in Runnable(js) \cup {NoRow},
         NEW wrote, NEW ps, NEW reps, NEW fs, NEW bufs,
         StartRow(next, wrote, js, ps, reps, fs, bufs)
  PROVE  /\ jobs' \in Seq(Job)
         /\ Len(jobs') = Len(js)
         /\ DOMAIN jobs' = DOMAIN js
         /\ \A r \in DOMAIN js :
              /\ jobs'[r].id = js[r].id
              /\ r \in Refused(js, next) => jobs'[r].state = "Failed"
              /\ r = next =>
                   /\ jobs'[r].state \in ActiveStates
                   /\ jobs'[r].needsHelper = js[r].needsHelper
                   /\ jobs'[r].needsHelper => jobs'[r].askPassPath = r
              /\ r \notin Refused(js, next) \cup {next} => jobs'[r] = js[r]
         /\ next \notin Refused(js, next)
PROOF
  <1>1. /\ Len(js) \in Nat
        /\ DOMAIN js = 1..Len(js)
        /\ \A r \in DOMAIN js : js[r] \in Job
        /\ \A r \in DOMAIN js : r \in Nat
        /\ NoRow \notin DOMAIN js
    BY RowsOf
  <1>2. next \notin Refused(js, next)
    BY <1>1 DEF Refused, Runnable, NoRow
  <1>3. jobs' = [r \in DOMAIN js |->
                   CASE r \in Refused(js, next) -> RefusedJob(js[r], r, wrote)
                     [] r = next                -> StartedJob(js[r], r)
                     [] OTHER                   -> js[r]]
    BY DEF StartRow
  <1>4. \A r \in DOMAIN js :
          /\ r \in Refused(js, next) => jobs'[r] = RefusedJob(js[r], r, wrote)
          /\ r = next => jobs'[r] = StartedJob(js[r], r)
          /\ r \notin Refused(js, next) \cup {next} => jobs'[r] = js[r]
    BY <1>2, <1>3
  <1>5. ASSUME NEW r \in DOMAIN js
        PROVE  jobs'[r] \in Job
    <2>1. js[r] \in Job /\ r \in Nat
      BY <1>1
    <2>2. StartedJob(js[r], r) \in Job /\ RefusedJob(js[r], r, wrote) \in Job
      BY <2>1, StartedJobType, RefusedJobType
    <2> QED
      BY <1>4, <2>1, <2>2
  <1>6. jobs' \in [1..Len(js) -> Job]
    BY <1>1, <1>3, <1>5
  <1>7. jobs' \in Seq(Job) /\ Len(jobs') = Len(js) /\ DOMAIN jobs' = DOMAIN js
    BY <1>1, <1>6, FunctionIsSeq
  <1>8. ASSUME NEW r \in DOMAIN js
        PROVE  /\ jobs'[r].id = js[r].id
               /\ r \in Refused(js, next) => jobs'[r].state = "Failed"
               /\ r = next =>
                    /\ jobs'[r].state \in ActiveStates
                    /\ jobs'[r].needsHelper = js[r].needsHelper
                    /\ jobs'[r].needsHelper => jobs'[r].askPassPath = r
    <2>1. js[r] \in Job /\ r \in Nat
      BY <1>1
    <2>2. CASE r \in Refused(js, next)
      BY <1>2, <1>4, <2>1, <2>2, RefusedJobType
    <2>3. CASE r = next
      <3>1. jobs'[r] = StartedJob(js[r], r)
        BY <1>4, <2>3
      <3>2. /\ StartedJob(js[r], r).id = js[r].id
            /\ StartedJob(js[r], r).state \in ActiveStates
            /\ StartedJob(js[r], r).needsHelper = js[r].needsHelper
            /\ js[r].needsHelper => StartedJob(js[r], r).askPassPath = r
        BY <2>1, StartedJobType
      <3> QED
        BY <1>2, <2>3, <3>1, <3>2
    <2>4. CASE r \notin Refused(js, next) \cup {next}
      BY <1>4, <2>4
    <2> QED
      BY <2>2, <2>3, <2>4
  <1> QED
    BY <1>2, <1>4, <1>7, <1>8

\* The other variables that StartRow sets have their types.
LEMMA StartNextType ==
  ASSUME NEW js \in Seq(Job), NEW ps \in [Ids -> Phases],
         NEW reps \in [Ids -> {"none", "completed", "failed"}],
         NEW fs \in SUBSET Nat, NEW bufs \in SUBSET Ids,
         StartNextQueuedTransfer(js, ps, reps, fs, bufs)
  PROVE  /\ jobs' \in Seq(Job)
         /\ Len(jobs') = Len(js)
         /\ currentRow' \in 0..Len(jobs')
         /\ currentProcess' \in Ids \cup {NoProcess}
         /\ procs' \in [Ids -> Phases]
         /\ reported' \in [Ids -> {"none", "completed", "failed"}]
         /\ files' \in SUBSET Nat
         /\ buffered' \in SUBSET Ids
PROOF
  <1>1. PICK next \in Runnable(js) \cup {NoRow}, wrote \in SUBSET DOMAIN js :
          StartRow(next, wrote, js, ps, reps, fs, bufs)
    BY DEF StartNextQueuedTransfer, Refused, Runnable
  <1>2. /\ Len(js) \in Nat
        /\ DOMAIN js = 1..Len(js)
        /\ \A r \in DOMAIN js : js[r] \in Job
        /\ Runnable(js) \subseteq DOMAIN js
    BY RowsOf
  <1>3. jobs' \in Seq(Job) /\ Len(jobs') = Len(js)
    BY <1>1, StartRowRows
  <1>4. currentRow' \in 0..Len(jobs')
    BY <1>1, <1>2, <1>3 DEF StartRow, NoRow
  <1>5. currentProcess' \in Ids \cup {NoProcess}
    BY <1>1, <1>2 DEF StartRow, Job
  <1>6. procs' \in [Ids -> Phases]
    BY <1>1 DEF StartRow, Phases, LivePhases, EndPhases
  <1>7. reported' \in [Ids -> {"none", "completed", "failed"}]
    BY <1>1 DEF StartRow
  <1>8. files' \in SUBSET Nat /\ buffered' \in SUBSET Ids
    BY <1>1, <1>2 DEF StartRow, BuffersAfterStart
  <1> QED
    BY <1>3, <1>4, <1>5, <1>6, <1>7, <1>8

\* The values finishCurrentProcess and failCurrentProcess hand on.
LEMMA SettledType ==
  ASSUME TypeOK, NEW ok \in BOOLEAN
  PROVE  /\ SettledJobs(ok) \in Seq(Job)
         /\ Len(SettledJobs(ok)) = Len(jobs)
         /\ DOMAIN SettledJobs(ok) = DOMAIN jobs
         /\ \A r \in DOMAIN jobs :
              /\ SettledJobs(ok)[r].id = jobs[r].id
              /\ SettledJobs(ok)[r].program = jobs[r].program
              /\ r = currentRow => SettledJobs(ok)[r].state \in FinalStates
              /\ r # currentRow => SettledJobs(ok)[r] = jobs[r]
         /\ SettledReports(ok) \in [Ids -> {"none", "completed", "failed"}]
         /\ FilesAfterCleanup \in SUBSET Nat
PROOF
  <1>1. /\ Len(jobs) \in Nat
        /\ DOMAIN jobs = 1..Len(jobs)
        /\ \A r \in DOMAIN jobs : jobs[r] \in Job
    BY RowsOf DEF TypeOK
  <1>2. ASSUME NEW r \in DOMAIN jobs
        PROVE  /\ SettledJobs(ok)[r] \in Job
               /\ SettledJobs(ok)[r].id = jobs[r].id
               /\ SettledJobs(ok)[r].program = jobs[r].program
               /\ r = currentRow => SettledJobs(ok)[r].state \in FinalStates
               /\ r # currentRow => SettledJobs(ok)[r] = jobs[r]
    <2>1. jobs[r] \in Job
      BY <1>1
    <2>2. [jobs[r] EXCEPT !.state = IF ok THEN "Completed" ELSE "Failed"] \in Job
      BY <2>1 DEF Job, States, FinalStates
    <2> QED
      BY <2>1, <2>2 DEF SettledJobs, Job, FinalStates
  <1>3. SettledJobs(ok) \in [1..Len(jobs) -> Job]
    BY <1>1, <1>2 DEF SettledJobs
  <1>4. /\ SettledJobs(ok) \in Seq(Job)
        /\ Len(SettledJobs(ok)) = Len(jobs)
        /\ DOMAIN SettledJobs(ok) = DOMAIN jobs
    BY <1>1, <1>3, FunctionIsSeq
  <1>5. SettledReports(ok) \in [Ids -> {"none", "completed", "failed"}]
    BY DEF TypeOK, SettledReports
  <1>6. FilesAfterCleanup \in SUBSET Nat
    BY DEF TypeOK, FilesAfterCleanup
  <1> QED
    BY <1>2, <1>4, <1>5, <1>6

\* A job that is added.
LEMMA NewJobType ==
  ASSUME TypeOK, nextId < MaxJobs, NEW program \in Programs, NEW secret \in BOOLEAN,
         NEW state \in States
  PROVE  /\ NewJob(program, secret, state) \in Job
         /\ Append(jobs, NewJob(program, secret, state)) \in Seq(Job)
         /\ Len(Append(jobs, NewJob(program, secret, state))) = Len(jobs) + 1
         /\ \A r \in 1..Len(jobs) : Append(jobs, NewJob(program, secret, state))[r] = jobs[r]
         /\ Append(jobs, NewJob(program, secret, state))[Len(jobs) + 1] = NewJob(program, secret, state)
PROOF
  <1>1. nextId + 1 \in Ids
    BY MaxJobsAssumption DEF TypeOK, Ids
  <1>2. NewJob(program, secret, state) \in Job
    BY <1>1 DEF NewJob, Job, NoPath
  <1> QED
    BY <1>2, AppendProperties DEF TypeOK

\* The rows that clearFinished keeps.
LEMMA KeptRows ==
  ASSUME TypeOK,
         NEW kept \in Increasing({r \in DOMAIN jobs : jobs[r].state \in KeptStates}, Len(jobs))
  PROVE  /\ \E m \in 0..Len(jobs) : DOMAIN kept = 1..m
         /\ \A a \in DOMAIN kept : /\ kept[a] \in DOMAIN jobs
                                   /\ jobs[kept[a]].state \in KeptStates
         /\ \A a, b \in DOMAIN kept : a < b => kept[a] < kept[b]
         /\ \A r \in DOMAIN jobs : jobs[r].state \in KeptStates =>
              \E a \in DOMAIN kept : kept[a] = r
         /\ \E m \in 0..Len(jobs) : [a \in DOMAIN kept |-> jobs[kept[a]]] \in [1..m -> Job]
         /\ RemappedRow(kept) \in DOMAIN kept \cup {NoRow}
         /\ RemappedRow(kept) # NoRow => kept[RemappedRow(kept)] = currentRow
         /\ \A a \in DOMAIN kept : kept[a] = currentRow => RemappedRow(kept) # NoRow
PROOF
  <1> DEFINE S == {r \in DOMAIN jobs : jobs[r].state \in KeptStates}
  <1>1. PICK m \in 0..Len(jobs) : kept \in [1..m -> S]
    BY DEF Increasing
  <1>2. /\ DOMAIN kept = 1..m
        /\ \A a \in DOMAIN kept : kept[a] \in S
    BY <1>1
  <1>3. /\ \A a, b \in DOMAIN kept : a < b => kept[a] < kept[b]
        /\ \A s \in S : \E a \in DOMAIN kept : kept[a] = s
    BY DEF Increasing
  <1>4. /\ Len(jobs) \in Nat
        /\ \A r \in DOMAIN jobs : jobs[r] \in Job
    BY RowsOf DEF TypeOK
  <1>5. [a \in DOMAIN kept |-> jobs[kept[a]]] \in [1..m -> Job]
    BY <1>2, <1>4
  <1>6. NoRow \notin DOMAIN kept
    BY <1>2 DEF NoRow
  <1>9. /\ RemappedRow(kept) \in DOMAIN kept \cup {NoRow}
        /\ RemappedRow(kept) # NoRow => kept[RemappedRow(kept)] = currentRow
        /\ \A a \in DOMAIN kept : kept[a] = currentRow => RemappedRow(kept) # NoRow
    <2>1. CASE \E a \in DOMAIN kept : kept[a] = currentRow
      BY <1>6, <2>1 DEF RemappedRow
    <2>2. CASE ~ \E a \in DOMAIN kept : kept[a] = currentRow
      BY <1>6, <2>2 DEF RemappedRow
    <2> QED
      BY <2>1, <2>2
  <1> QED
    BY <1>2, <1>3, <1>5, <1>9

-----------------------------------------------------------------------------
(***************************************************************************)
(* Type correctness.                                                       *)
(***************************************************************************)

LEMMA TypeInit == Init => TypeOK
PROOF
  <1> SUFFICES ASSUME Init
               PROVE  TypeOK
    OBVIOUS
  <1>1. jobs \in Seq(Job) /\ Len(jobs) = 0
    BY EmptySeq DEF Init
  <1>2. currentRow \in 0..Len(jobs) /\ nextId \in 0..MaxJobs
    BY <1>1, MaxJobsAssumption DEF Init, NoRow
  <1> QED
    BY <1>1, <1>2 DEF Init, TypeOK, Phases

LEMMA TypeStep == TypeOK /\ [Next]_vars => TypeOK'
PROOF
  <1> SUFFICES ASSUME TypeOK, [Next]_vars
               PROVE  TypeOK'
    OBVIOUS
  <1>1. CASE EnqueueRemoteTransfer
    <2>1. PICK program \in Programs, secret \in BOOLEAN :
            StartNextIfIdle(Append(jobs, NewJob(program, secret, "Queued")))
      BY <1>1 DEF EnqueueRemoteTransfer, Programs
    <2> DEFINE js == Append(jobs, NewJob(program, secret, "Queued"))
    <2>2. nextId < MaxJobs /\ nextId' = nextId + 1
          /\ UNCHANGED <<useOpenSsh, condemned, app>>
      BY <1>1 DEF EnqueueRemoteTransfer
    <2>3. js \in Seq(Job) /\ Len(js) = Len(jobs) + 1 /\ Len(jobs) \in Nat
      BY <2>2, NewJobType, RowsOf DEF States, TypeOK
    <2>6. nextId' \in 0..MaxJobs
      BY <2>2, MaxJobsAssumption DEF TypeOK
    <2>4. CASE currentProcess = NoProcess
      <3>1. StartNextQueuedTransfer(js, procs, reported, files, buffered)
        BY <2>1, <2>4 DEF StartNextIfIdle, AlwaysStartNext
      <3> HIDE DEF js
      <3> QED
        BY <2>2, <2>3, <2>6, <3>1, StartNextType DEF TypeOK
    <2>5. CASE currentProcess # NoProcess
      <3>1. jobs' = js /\ UNCHANGED <<currentRow, currentProcess, procs, reported, files, buffered>>
        BY <2>1, <2>5 DEF StartNextIfIdle, NeverStartNext
      <3> HIDE DEF js
      <3> QED
        BY <2>2, <2>3, <2>6, <3>1 DEF TypeOK
    <2> QED
      BY <2>4, <2>5
  <1>2. CASE EnqueueLocalCopy
    <2>1. PICK state \in FinalStates : jobs' = Append(jobs, NewJob("none", FALSE, state))
      BY <1>2 DEF EnqueueLocalCopy
    <2>2. jobs' \in Seq(Job) /\ Len(jobs') = Len(jobs) + 1 /\ Len(jobs) \in Nat
      BY <1>2, <2>1, NewJobType, RowsOf DEF States, Programs, TypeOK, EnqueueLocalCopy
    <2> QED
      <3>1. nextId' \in 0..MaxJobs
        BY <1>2, MaxJobsAssumption DEF EnqueueLocalCopy, TypeOK
      <3> QED
        <4>1. UNCHANGED <<currentRow, currentProcess, useOpenSsh, buffered, procs,
                          condemned, files, reported, app>>
          BY <1>2 DEF EnqueueLocalCopy
        <4>2. currentRow' \in 0..Len(jobs')
          BY <2>2, <4>1 DEF TypeOK
        <4> QED
          BY <2>2, <3>1, <4>1, <4>2 DEF TypeOK
  <1>3. CASE SetUseOpenSshBackend
    BY <1>3 DEF SetUseOpenSshBackend, TypeOK
  <1>4. CASE ClearFinished
    <2>1. PICK kept \in Increasing({r \in DOMAIN jobs : jobs[r].state \in KeptStates}, Len(jobs)) :
            /\ jobs' = [a \in DOMAIN kept |-> jobs[kept[a]]]
            /\ currentRow' = RemappedRow(kept)
      BY <1>4 DEF ClearFinished
    <2>2. PICK m \in 0..Len(jobs) : jobs' \in [1..m -> Job]
      BY <2>1, KeptRows
    <2>3. jobs' \in Seq(Job) /\ Len(jobs') = m /\ DOMAIN jobs' = 1..m /\ m \in Nat
      BY <2>2, FunctionIsSeq, RowsOf DEF TypeOK
    <2>4. currentRow' \in DOMAIN jobs' \cup {NoRow}
      BY <2>1, KeptRows
    <2> QED
      BY <1>4, <2>3, <2>4 DEF ClearFinished, TypeOK, NoRow
  <1>5. CASE ClearAll
    <2>1. jobs' \in Seq(Job) /\ currentRow' \in 0..Len(jobs')
      BY <1>5 DEF ClearAll, NoRow
    <2> QED
      BY <1>5, <2>1 DEF ClearAll, TypeOK, FilesAfterCleanup
  <1>6. CASE Quit
    BY <1>6 DEF Quit, TypeOK
  <1>7. ASSUME NEW p \in Ids, ProcessStarted(p)
        PROVE  TypeOK'
    BY <1>7 DEF ProcessStarted, TypeOK, Phases, LivePhases
  <1>8. ASSUME NEW p \in Ids, NEW ps \in [Ids -> Phases], NEW ok \in BOOLEAN,
               NEW bufs \in SUBSET Ids,
               SettleCurrentRow(ps, ok, bufs), condemned' = Condemn(p),
               UNCHANGED <<useOpenSsh, nextId, app>>
        PROVE  TypeOK'
    <2>1. StartNextQueuedTransfer(SettledJobs(ok), ps, SettledReports(ok),
                                  FilesAfterCleanup, bufs)
      BY <1>8 DEF SettleCurrentRow
    <2>2. /\ SettledJobs(ok) \in Seq(Job)
          /\ SettledReports(ok) \in [Ids -> {"none", "completed", "failed"}]
          /\ FilesAfterCleanup \in SUBSET Nat
      BY SettledType
    <2>3. condemned' \in SUBSET Ids
      BY <1>8 DEF Condemn, TypeOK, NoProcess
    <2> QED
      BY <1>8, <2>1, <2>2, <2>3, StartNextType DEF TypeOK
  <1>9. ASSUME NEW p \in Ids, ProcessFailedToStart(p)
        PROVE  TypeOK'
    <2>1. [procs EXCEPT ![p] = "unstarted"] \in [Ids -> Phases]
      BY DEF TypeOK, Phases, EndPhases
    <2>2. CASE currentProcess = NoProcess
      BY <1>9, <2>1, <2>2 DEF ProcessFailedToStart, Condemn, TypeOK
    <2>3. CASE currentProcess # NoProcess
      BY <1>8, <1>9, <2>1, <2>3 DEF ProcessFailedToStart, TypeOK
    <2> QED
      BY <2>2, <2>3
  <1>10. ASSUME NEW p \in Ids, NEW how \in {"ok", "bad"}, ProcessFinished(p, how)
         PROVE  TypeOK'
    <2>1. [procs EXCEPT ![p] = how] \in [Ids -> Phases]
      BY DEF TypeOK, Phases, EndPhases
    <2>2. CASE currentProcess = NoProcess
      BY <1>10, <2>1, <2>2 DEF ProcessFinished, Condemn, TypeOK
    <2>3. CASE currentProcess # NoProcess
      <3>1. Succeeded(how) \in BOOLEAN
        BY DEF Succeeded
      <3>3. {} \in SUBSET Ids
        OBVIOUS
      <3>2. /\ SettleCurrentRow([procs EXCEPT ![p] = how], Succeeded(how), {})
            /\ condemned' = Condemn(p)
            /\ UNCHANGED <<useOpenSsh, nextId, app>>
        BY <1>10, <2>3 DEF ProcessFinished
      <3> QED
        BY <1>8, <2>1, <3>1, <3>2, <3>3
    <2> QED
      BY <2>2, <2>3
  <1>11. CASE ConsumeOutput
    <2>1. jobs' \in Seq(Job) /\ Len(jobs') = Len(jobs)
      <3>1. /\ Len(jobs) \in Nat
            /\ DOMAIN jobs = 1..Len(jobs)
            /\ \A r \in DOMAIN jobs : jobs[r] \in Job
        BY RowsOf DEF TypeOK
      <3>2. CASE jobs' = jobs
        BY <3>2 DEF TypeOK
      <3>3. CASE jobs' = [r \in DOMAIN jobs |->
                            IF r = currentRow THEN [jobs[r] EXCEPT !.state = "Running N%"]
                                              ELSE jobs[r]]
        <4>1. \A job \in Job : [job EXCEPT !.state = "Running N%"] \in Job
          BY DEF Job, States, ActiveStates
        <4>2. jobs' \in [1..Len(jobs) -> Job]
          BY <3>1, <3>3, <4>1
        <4> QED
          BY <3>1, <4>2, FunctionIsSeq
      <3> QED
        BY <1>11, <3>2, <3>3 DEF ConsumeOutput
    <2> QED
      BY <1>11, <2>1 DEF ConsumeOutput, TypeOK
  <1>12. CASE UNCHANGED vars
    BY <1>12 DEF vars, TypeOK
  <1> QED
    BY <1>1, <1>2, <1>3, <1>4, <1>5, <1>6, <1>7, <1>9, <1>10, <1>11, <1>12
    DEF Next, ProcessEnds

\* Every variable of the queue keeps its type, currentRow_ stays within the list.
THEOREM TypeCorrect == SafeSpec => []TypeOK
PROOF
  <1> QED
    BY TypeInit, TypeStep, PTL DEF SafeSpec

-----------------------------------------------------------------------------
(***************************************************************************)
(* Rows, order and progress.  RowIntegrity, NoStall and NoOvertaking are   *)
(* inductive together with two facts: job numbers grow along the list, and *)
(* only numbers that have been given out are in use.                       *)
(***************************************************************************)
Ascending == \A r, s \in DOMAIN jobs : r < s => jobs[r].id < jobs[s].id

Issued ==
  /\ \A r \in DOMAIN jobs : jobs[r].id <= nextId
  /\ \A p \in Ids : procs[p] # "none" => p <= nextId

OrderInv ==
  /\ TypeOK
  /\ Ascending
  /\ Issued
  /\ RowIntegrity
  /\ NoStall
  /\ NoOvertaking

\* Looking for the next job restores the invariant once no row is active.
LEMMA StartNextOrder ==
  ASSUME NEW js \in Seq(Job), NEW ps \in [Ids -> Phases],
         NEW reps, NEW fs, NEW bufs, NEW n \in Nat,
         \A r, s \in DOMAIN js : r < s => js[r].id < js[s].id,
         \A r \in DOMAIN js : js[r].id <= n /\ js[r].state \notin ActiveStates,
         \A p \in Ids : ps[p] # "none" => p <= n,
         \A r \in Runnable(js), p \in Ids : ps[p] # "none" => p < js[r].id,
         StartNextQueuedTransfer(js, ps, reps, fs, bufs),
         nextId' = n
  PROVE  Ascending' /\ Issued' /\ RowIntegrity' /\ NoStall' /\ NoOvertaking'
PROOF
  <1>1. PICK next \in Runnable(js) \cup {NoRow}, wrote \in SUBSET DOMAIN js :
          StartRow(next, wrote, js, ps, reps, fs, bufs)
    BY DEF StartNextQueuedTransfer, Refused, Runnable
  <1>2. /\ Len(js) \in Nat
        /\ DOMAIN js = 1..Len(js)
        /\ \A r \in DOMAIN js : js[r].id \in Ids
        /\ NoRow \notin DOMAIN js
        /\ Runnable(js) \subseteq DOMAIN js
    BY RowsOf DEF Job
  <1>3. /\ DOMAIN jobs' = DOMAIN js
        /\ \A r \in DOMAIN js :
             /\ jobs'[r].id = js[r].id
             /\ r \in Refused(js, next) => jobs'[r].state = "Failed"
             /\ r = next => jobs'[r].state \in ActiveStates
             /\ r \notin Refused(js, next) \cup {next} => jobs'[r] = js[r]
    BY <1>1, StartRowRows
  <1>4. /\ currentRow' = next
        /\ currentProcess' = IF next = NoRow THEN NoProcess ELSE js[next].id
    BY <1>1 DEF StartRow
  <1>5. ASSUME NEW p \in Ids, procs'[p] # "none"
        PROVE  \/ \E r \in Refused(js, next) : p = js[r].id
               \/ next # NoRow /\ p = js[next].id
               \/ ps[p] # "none"
    <2>1. \/ \E r \in Refused(js, next) : p = js[r].id
          \/ p = currentProcess'
          \/ procs'[p] = ps[p]
      BY <1>1 DEF StartRow
    <2>2. p # NoProcess
      BY DEF Ids, NoProcess
    <2> QED
      BY <1>4, <1>5, <2>1, <2>2
  <1>6. \A r \in Refused(js, next) : r \in Runnable(js) /\ r \in DOMAIN js
    BY <1>2 DEF Refused
  <1>7. \A r \in DOMAIN js : js[r].id \in Nat
    BY <1>2 DEF Ids
  <1>8. Ascending'
    BY <1>3 DEF Ascending
  <1>9. Issued'
    BY <1>2, <1>3, <1>5, <1>6 DEF Issued
  <1>10. RowIntegrity'
    <2>1. currentRow' # NoRow =>
            currentProcess' # NoProcess /\ jobs'[currentRow'].id = currentProcess'
      BY <1>2, <1>3, <1>4 DEF Ids, NoProcess
    <2>2. ASSUME NEW r \in DOMAIN jobs'
          PROVE  jobs'[r].state \in ActiveStates <=> r = currentRow'
      BY <1>3, <1>4 DEF ActiveStates
    <2> QED
      BY <2>1, <2>2 DEF RowIntegrity
  <1>11. ASSUME NEW r \in Runnable(jobs')
         PROVE  /\ r \in Runnable(js)
                /\ jobs'[r] = js[r]
                /\ next # NoRow
                /\ next < r
    <2>1. r \in DOMAIN js /\ jobs'[r].state = "Queued" /\ jobs'[r].program # "none"
      BY <1>3 DEF Runnable
    <2>2. r \notin Refused(js, next) /\ r # next
      BY <1>3, <2>1 DEF ActiveStates
    <2>3. jobs'[r] = js[r] /\ r \in Runnable(js)
      BY <1>3, <2>1, <2>2 DEF Runnable
    <2>4. next # NoRow /\ ~(r < next)
      BY <2>2, <2>3 DEF Refused
    <2> QED
      BY <1>2, <2>1, <2>2, <2>3, <2>4
  <1>12. NoStall'
    <2>1. currentProcess' = NoProcess => next = NoRow
      BY <1>2, <1>4 DEF Ids, NoProcess
    <2> QED
      BY <1>11, <2>1 DEF NoStall
  <1>13. ASSUME NEW r \in Runnable(jobs'), NEW p \in Ids, procs'[p] # "none"
         PROVE  p < jobs'[r].id
    <2>1. /\ r \in Runnable(js) /\ r \in DOMAIN js /\ jobs'[r] = js[r]
          /\ next # NoRow /\ next < r /\ next \in DOMAIN js
      BY <1>2, <1>11
    <2>2. CASE \E q \in Refused(js, next) : p = js[q].id
      <3>1. PICK q \in Refused(js, next) : p = js[q].id
        BY <2>2
      <3>2. q \in DOMAIN js /\ q < next
        BY <1>6, <2>1, <3>1 DEF Refused
      <3>3. q < r
        BY <1>2, <2>1, <3>2
      <3> QED
        BY <2>1, <3>1, <3>2, <3>3
    <2>3. CASE p = js[next].id
      BY <2>1, <2>3
    <2>4. CASE ps[p] # "none"
      BY <2>1, <2>4
    <2> QED
      BY <1>5, <1>13, <2>2, <2>3, <2>4
  <1>14. NoOvertaking'
    BY <1>13 DEF NoOvertaking
  <1> QED
    BY <1>8, <1>9, <1>10, <1>12, <1>14

\* What a signal that ends process p finds when it has settled the current row.
LEMMA SettledOrder ==
  ASSUME OrderInv, NEW p \in Ids, procs[p] # "none", NEW phase \in Phases \ {"none"},
         NEW ok \in BOOLEAN, NEW bufs,
         SettleCurrentRow([procs EXCEPT ![p] = phase], ok, bufs),
         nextId' = nextId
  PROVE  Ascending' /\ Issued' /\ RowIntegrity' /\ NoStall' /\ NoOvertaking'
PROOF
  <1> DEFINE js == SettledJobs(ok)
             ps == [procs EXCEPT ![p] = phase]
  <1>1. StartNextQueuedTransfer(js, ps, SettledReports(ok), FilesAfterCleanup, bufs)
    BY DEF SettleCurrentRow
  <1>2. /\ js \in Seq(Job)
        /\ DOMAIN js = DOMAIN jobs
        /\ \A r \in DOMAIN jobs :
             /\ js[r].id = jobs[r].id
             /\ r = currentRow => js[r].state \in FinalStates
             /\ r # currentRow => js[r] = jobs[r]
    BY SettledType DEF OrderInv
  <1>3. ps \in [Ids -> Phases] /\ \A q \in Ids : ps[q] # "none" => procs[q] # "none"
    BY DEF OrderInv, TypeOK
  <1>4. \A r \in DOMAIN js : js[r].id <= nextId /\ js[r].state \notin ActiveStates
    BY <1>2 DEF OrderInv, Issued, RowIntegrity, ActiveStates, FinalStates
  <1>5. \A r \in Runnable(js) : r \in Runnable(jobs) /\ js[r] = jobs[r]
    BY <1>2 DEF Runnable, FinalStates
  <1>6. \A r \in Runnable(js), q \in Ids : ps[q] # "none" => q < js[r].id
    BY <1>3, <1>5 DEF OrderInv, NoOvertaking
  <1>7. \A r, s \in DOMAIN js : r < s => js[r].id < js[s].id
    BY <1>2 DEF OrderInv, Ascending
  <1>8. \A q \in Ids : ps[q] # "none" => q <= nextId
    BY <1>3 DEF OrderInv, Issued
  <1>9. nextId \in Nat
    BY MaxJobsAssumption DEF OrderInv, TypeOK
  <1> HIDE DEF js, ps
  <1> QED
    BY <1>1, <1>2, <1>3, <1>4, <1>6, <1>7, <1>8, <1>9, StartNextOrder

\* Appending a job with a new number keeps the numbers ascending.
LEMMA AppendedJob ==
  ASSUME OrderInv, nextId < MaxJobs, NEW program \in Programs, NEW secret \in BOOLEAN,
         NEW state \in States \ ActiveStates
  PROVE  LET js == Append(jobs, NewJob(program, secret, state))
         IN /\ js \in Seq(Job)
            /\ DOMAIN js = 1..(Len(jobs) + 1)
            /\ \A r \in DOMAIN jobs : r \in DOMAIN js /\ js[r] = jobs[r]
            /\ \A r, s \in DOMAIN js : r < s => js[r].id < js[s].id
            /\ \A r \in DOMAIN js : js[r].id <= nextId + 1
            /\ \A r \in DOMAIN js : r \notin DOMAIN jobs =>
                 js[r].state = state /\ js[r].id = nextId + 1 /\ js[r].program = program
PROOF
  <1> DEFINE job == NewJob(program, secret, state)
             js == Append(jobs, job)
  <1>t. TypeOK
    BY DEF OrderInv
  <1>r. /\ Len(jobs) \in Nat
        /\ DOMAIN jobs = 1..Len(jobs)
        /\ \A r \in DOMAIN jobs : jobs[r] \in Job
    BY <1>t, RowsOf DEF TypeOK
  <1>n. nextId \in Nat /\ nextId + 1 \in Nat
    BY <1>t, MaxJobsAssumption DEF TypeOK
  <1>1. /\ js \in Seq(Job)
        /\ Len(js) = Len(jobs) + 1
        /\ \A r \in 1..Len(jobs) : js[r] = jobs[r]
        /\ js[Len(jobs) + 1] = job
    BY <1>t, NewJobType
  <1>2. job.id = nextId + 1 /\ job.state = state /\ job.program = program
    BY DEF NewJob
  <1> HIDE DEF js, job
  <1>3. DOMAIN js = 1..(Len(jobs) + 1)
    BY <1>1, LenProperties
  <1>4. \A r \in DOMAIN jobs : jobs[r].id <= nextId /\ jobs[r].id \in Nat
    BY <1>r DEF OrderInv, Issued, Job, Ids
  <1>5. ASSUME NEW r \in DOMAIN js
        PROVE  \/ r \in DOMAIN jobs /\ js[r] = jobs[r]
               \/ r = Len(jobs) + 1 /\ js[r] = job /\ r \notin DOMAIN jobs
    BY <1>r, <1>1, <1>3
  <1>6. ASSUME NEW r \in DOMAIN js, NEW s \in DOMAIN js, r < s
        PROVE  js[r].id < js[s].id
    <2>1. r \in DOMAIN jobs /\ js[r] = jobs[r]
      BY <1>r, <1>1, <1>3, <1>6
    <2>2. CASE s \in DOMAIN jobs /\ js[s] = jobs[s]
      BY <1>6, <2>1, <2>2 DEF OrderInv, Ascending
    <2>3. CASE js[s] = job
      BY <1>n, <1>2, <1>4, <2>1, <2>3
    <2> QED
      BY <1>5, <2>2, <2>3
  <1>7. \A r \in DOMAIN js : js[r].id <= nextId + 1
    BY <1>n, <1>2, <1>4, <1>5
  <1>8. \A r \in DOMAIN jobs : r \in DOMAIN js /\ js[r] = jobs[r]
    BY <1>r, <1>1, <1>3
  <1>9. \A r \in DOMAIN js : r \notin DOMAIN jobs =>
          js[r].state = state /\ js[r].id = nextId + 1 /\ js[r].program = program
    BY <1>2, <1>5
  <1> QED
    BY <1>1, <1>3, <1>6, <1>7, <1>8, <1>9 DEF js, job

\* Nothing that was begun comes after a row that waits, the new row included.
LEMMA AppendedOrder ==
  ASSUME OrderInv, NEW js,
         \A r \in DOMAIN jobs : js[r] = jobs[r],
         \A r \in DOMAIN js : r \notin DOMAIN jobs => js[r].id = nextId + 1,
         NEW r \in Runnable(js), NEW p \in Ids, procs[p] # "none"
  PROVE  p < js[r].id
PROOF
  <1>1. nextId \in Nat /\ p <= nextId /\ p \in Nat
    BY MaxJobsAssumption DEF OrderInv, TypeOK, Issued, Ids
  <1>2. CASE r \in DOMAIN jobs
    <2>1. r \in Runnable(jobs) /\ js[r] = jobs[r]
      BY <1>2 DEF Runnable
    <2> QED
      BY <2>1 DEF OrderInv, NoOvertaking
  <1>3. CASE r \notin DOMAIN jobs
    <2>1. js[r].id = nextId + 1
      BY <1>3 DEF Runnable
    <2> QED
      BY <1>1, <2>1
  <1> QED
    BY <1>2, <1>3

LEMMA OrderInit == Init => OrderInv
PROOF
  BY TypeInit DEF Init, OrderInv, Ascending, Issued, RowIntegrity, NoStall, NoOvertaking,
     Runnable, NoRow, NoProcess

LEMMA OrderStep == OrderInv /\ [Next]_vars => OrderInv'
PROOF
  <1> SUFFICES ASSUME OrderInv, [Next]_vars
               PROVE  OrderInv'
    OBVIOUS
  <1> DEFINE Goal == Ascending' /\ Issued' /\ RowIntegrity' /\ NoStall' /\ NoOvertaking'
  <1>t. TypeOK /\ TypeOK'
    BY TypeStep DEF OrderInv
  <1>r. /\ Len(jobs) \in Nat
        /\ DOMAIN jobs = 1..Len(jobs)
        /\ \A r \in DOMAIN jobs : jobs[r] \in Job
        /\ NoRow \notin DOMAIN jobs
    BY <1>t, RowsOf DEF TypeOK
  <1>n. nextId \in Nat /\ nextId + 1 \in Nat
    BY <1>t, MaxJobsAssumption DEF TypeOK
  <1>p. \A p \in Ids : procs[p] # "none" => p <= nextId /\ p \in Nat
    BY DEF OrderInv, Issued, Ids
  <1>2. CASE EnqueueRemoteTransfer
    <2>1. PICK program \in {"cli", "scp"}, secret \in BOOLEAN :
            StartNextIfIdle(Append(jobs, NewJob(program, secret, "Queued")))
      BY <1>2 DEF EnqueueRemoteTransfer
    <2> DEFINE js == Append(jobs, NewJob(program, secret, "Queued"))
    <2>2. nextId < MaxJobs /\ nextId' = nextId + 1
      BY <1>2 DEF EnqueueRemoteTransfer
    <2>3. /\ js \in Seq(Job)
          /\ DOMAIN js = 1..(Len(jobs) + 1)
          /\ \A r \in DOMAIN jobs : r \in DOMAIN js /\ js[r] = jobs[r]
          /\ \A r, s \in DOMAIN js : r < s => js[r].id < js[s].id
          /\ \A r \in DOMAIN js : js[r].id <= nextId + 1
          /\ \A r \in DOMAIN js : r \notin DOMAIN jobs =>
               js[r].state = "Queued" /\ js[r].id = nextId + 1 /\ js[r].program = program
      <3>1. program \in Programs /\ secret \in BOOLEAN /\ "Queued" \in States \ ActiveStates
        BY <2>1 DEF Programs, States, ActiveStates
      <3> QED
        BY <2>2, <3>1, AppendedJob
    <2>4. StartNextIfIdle(js)
      BY <2>1
    <2> HIDE DEF js
    <2>5. \A p \in Ids : procs[p] # "none" => p <= nextId + 1
      BY <1>n, <1>p
    <2>6. \A r \in Runnable(js), p \in Ids : procs[p] # "none" => p < js[r].id
      BY <2>3, AppendedOrder
    <2>7. CASE currentProcess = NoProcess
      <3>1. StartNextQueuedTransfer(js, procs, reported, files, buffered)
        BY <2>4, <2>7 DEF StartNextIfIdle, AlwaysStartNext
      <3>2. currentRow = NoRow
        BY <2>7 DEF OrderInv, RowIntegrity
      <3>3. \A r \in DOMAIN js : js[r].state \notin ActiveStates
        BY <1>r, <2>3, <3>2 DEF OrderInv, RowIntegrity, ActiveStates
      <3>4. procs \in [Ids -> Phases]
        BY <1>t DEF TypeOK
      <3> QED
        BY <1>n, <1>t, <2>2, <2>3, <2>5, <2>6, <3>1, <3>3, <3>4, StartNextOrder DEF OrderInv
    <2>8. CASE currentProcess # NoProcess
      <3>1. jobs' = js /\ UNCHANGED <<currentRow, currentProcess, procs>>
        BY <2>4, <2>8 DEF StartNextIfIdle, NeverStartNext
      <3>2. Ascending' /\ Issued' /\ NoStall' /\ NoOvertaking'
        BY <2>2, <2>3, <2>5, <2>6, <2>8, <3>1 DEF Ascending, Issued, NoStall, NoOvertaking
      <3>3. currentRow # NoRow => currentRow \in DOMAIN jobs
        BY <1>r, <1>t DEF TypeOK, NoRow
      <3>4. \A r \in DOMAIN js : r \notin DOMAIN jobs => r # currentRow
        BY <1>r, <2>3, <3>3 DEF NoRow
      <3>5. RowIntegrity'
        BY <2>3, <3>1, <3>3, <3>4 DEF OrderInv, RowIntegrity, ActiveStates
      <3> QED
        BY <1>t, <3>2, <3>5 DEF OrderInv
    <2> QED
      BY <2>7, <2>8
  <1>3. CASE EnqueueLocalCopy
    <2>1. PICK secret \in BOOLEAN, state \in FinalStates :
            jobs' = Append(jobs, NewJob("none", secret, state))
      BY <1>3 DEF EnqueueLocalCopy
    <2>2. /\ nextId < MaxJobs
          /\ nextId' = nextId + 1
          /\ UNCHANGED <<currentRow, currentProcess, procs>>
      BY <1>3 DEF EnqueueLocalCopy
    <2>3. /\ DOMAIN jobs' = 1..(Len(jobs) + 1)
          /\ \A r \in DOMAIN jobs : r \in DOMAIN jobs' /\ jobs'[r] = jobs[r]
          /\ \A r, s \in DOMAIN jobs' : r < s => jobs'[r].id < jobs'[s].id
          /\ \A r \in DOMAIN jobs' : jobs'[r].id <= nextId + 1
          /\ \A r \in DOMAIN jobs' : r \notin DOMAIN jobs => jobs'[r].state = state
      <3>1. "none" \in Programs /\ state \in States \ ActiveStates
        BY DEF Programs, States, ActiveStates, FinalStates
      <3> DEFINE js == Append(jobs, NewJob("none", secret, state))
      <3>2. /\ DOMAIN js = 1..(Len(jobs) + 1)
            /\ \A r \in DOMAIN jobs : r \in DOMAIN js /\ js[r] = jobs[r]
            /\ \A r, s \in DOMAIN js : r < s => js[r].id < js[s].id
            /\ \A r \in DOMAIN js : js[r].id <= nextId + 1
            /\ \A r \in DOMAIN js : r \notin DOMAIN jobs => js[r].state = state
        BY <2>2, <3>1, AppendedJob
      <3>3. jobs' = js
        BY <2>1
      <3> HIDE DEF js
      <3> QED
        BY <3>2, <3>3
    <2>4. Ascending' /\ Issued'
      BY <1>n, <1>p, <2>2, <2>3 DEF Ascending, Issued
    <2>5. \A r \in Runnable(jobs') : r \in Runnable(jobs) /\ jobs'[r] = jobs[r]
      BY <2>3 DEF Runnable, FinalStates
    <2>6. NoStall' /\ NoOvertaking'
      BY <2>2, <2>5 DEF OrderInv, NoStall, NoOvertaking
    <2>7. currentRow # NoRow => currentRow \in DOMAIN jobs
      BY <1>r, <1>t DEF TypeOK, NoRow
    <2>8. \A r \in DOMAIN jobs' : r \notin DOMAIN jobs => r # currentRow
      BY <1>r, <2>3, <2>7 DEF NoRow
    <2>9. RowIntegrity'
      BY <2>2, <2>3, <2>7, <2>8 DEF OrderInv, RowIntegrity, ActiveStates, FinalStates
    <2> QED
      BY <1>t, <2>4, <2>6, <2>9 DEF OrderInv
  <1>4. CASE ClearFinished
    <2>1. PICK kept \in Increasing({r \in DOMAIN jobs : jobs[r].state \in KeptStates}, Len(jobs)) :
            /\ jobs' = [a \in DOMAIN kept |-> jobs[kept[a]]]
            /\ currentRow' = RemappedRow(kept)
      BY <1>4 DEF ClearFinished
    <2>2. UNCHANGED <<currentProcess, procs, nextId>>
      BY <1>4 DEF ClearFinished
    <2>3. /\ \A a \in DOMAIN kept : kept[a] \in DOMAIN jobs
          /\ \A a, b \in DOMAIN kept : a < b => kept[a] < kept[b]
          /\ RemappedRow(kept) \in DOMAIN kept \cup {NoRow}
          /\ RemappedRow(kept) # NoRow => kept[RemappedRow(kept)] = currentRow
          /\ \A a \in DOMAIN kept : kept[a] = currentRow => RemappedRow(kept) # NoRow
          /\ DOMAIN kept \subseteq Nat
      BY <1>t, KeptRows
    <2>4. DOMAIN jobs' = DOMAIN kept /\ \A a \in DOMAIN kept : jobs'[a] = jobs[kept[a]]
      BY <2>1
    <2>5. Ascending' /\ Issued'
      BY <2>2, <2>3, <2>4 DEF OrderInv, Ascending, Issued
    <2>6. \A a \in Runnable(jobs') : kept[a] \in Runnable(jobs) /\ jobs'[a] = jobs[kept[a]]
      BY <2>3, <2>4 DEF Runnable
    <2>7. NoStall' /\ NoOvertaking'
      BY <2>2, <2>6 DEF OrderInv, NoStall, NoOvertaking
    <2>8. ASSUME NEW a \in DOMAIN kept
          PROVE  kept[a] = currentRow <=> a = RemappedRow(kept)
      <3>1. CASE kept[a] = currentRow
        <4>1. RemappedRow(kept) \in DOMAIN kept /\ kept[RemappedRow(kept)] = kept[a]
          BY <2>3, <3>1
        <4>2. kept[a] \in Nat /\ a \in Nat /\ RemappedRow(kept) \in Nat
          BY <1>r, <2>3, <4>1
        <4> QED
          BY <2>3, <3>1, <4>1, <4>2
      <3>2. CASE a = RemappedRow(kept) /\ RemappedRow(kept) # NoRow
        BY <2>3, <3>2
      <3>3. NoRow \notin DOMAIN kept
        BY <1>t, KeptRows DEF NoRow
      <3> QED
        BY <3>1, <3>2, <3>3
    <2>9. RowIntegrity'
      <3>1. \A a \in DOMAIN jobs' : jobs'[a].state \in ActiveStates <=> a = currentRow'
        BY <2>1, <2>3, <2>4, <2>8 DEF OrderInv, RowIntegrity
      <3>2. ASSUME currentRow' # NoRow
            PROVE  currentProcess # NoProcess /\ jobs'[currentRow'].id = currentProcess
        <4>1. currentRow' \in DOMAIN kept /\ kept[currentRow'] = currentRow
          BY <2>1, <2>3, <3>2
        <4>2. currentRow \in DOMAIN jobs /\ currentRow # NoRow
          BY <1>r, <2>3, <4>1
        <4> QED
          BY <2>4, <4>1, <4>2 DEF OrderInv, RowIntegrity
      <3> QED
        BY <2>2, <3>1, <3>2 DEF RowIntegrity
    <2> QED
      BY <1>t, <2>5, <2>7, <2>9 DEF OrderInv
  <1>5. CASE ClearAll
    <2>1. /\ jobs' = <<>> /\ DOMAIN jobs' = {}
          /\ currentRow' = NoRow /\ UNCHANGED <<procs, nextId>>
      BY <1>5 DEF ClearAll
    <2> QED
      BY <1>t, <2>1 DEF OrderInv, Ascending, Issued, RowIntegrity, NoStall, NoOvertaking,
                        Runnable
  <1>6. ASSUME UNCHANGED <<jobs, currentRow, currentProcess, procs, nextId>>
        PROVE  OrderInv'
    BY <1>t, <1>6 DEF OrderInv, Ascending, Issued, RowIntegrity, NoStall, NoOvertaking, Runnable
  <1>7. CASE SetUseOpenSshBackend
    BY <1>6, <1>7 DEF SetUseOpenSshBackend
  <1>8. CASE Quit
    BY <1>6, <1>8 DEF Quit
  <1>9. ASSUME NEW p \in Ids, procs[p] # "none", NEW phase \in Phases \ {"none"},
               procs' = [procs EXCEPT ![p] = phase],
               UNCHANGED <<jobs, currentRow, currentProcess, nextId>>
        PROVE  OrderInv'
    <2>1. \A q \in Ids : procs'[q] # "none" => procs[q] # "none"
      BY <1>9, <1>t DEF TypeOK
    <2> QED
      BY <1>t, <1>9, <2>1 DEF OrderInv, Ascending, Issued, RowIntegrity, NoStall, NoOvertaking, Runnable
  <1>10. ASSUME NEW p \in Ids, ProcessStarted(p)
         PROVE  OrderInv'
    <2>1. procs[p] # "none" /\ "running" \in Phases \ {"none"}
      BY <1>10 DEF ProcessStarted, Phases, LivePhases
    <2> QED
      BY <1>9, <1>10, <2>1 DEF ProcessStarted
  <1>11. ASSUME NEW p \in Ids, ProcessFailedToStart(p)
         PROVE  OrderInv'
    <2>1. procs[p] # "none" /\ "unstarted" \in Phases \ {"none"} /\ nextId' = nextId
      BY <1>11 DEF ProcessFailedToStart, Phases, EndPhases
    <2>2. CASE currentProcess = NoProcess
      BY <1>9, <1>11, <2>1, <2>2 DEF ProcessFailedToStart
    <2>3. CASE currentProcess # NoProcess
      <3>1. SettleCurrentRow([procs EXCEPT ![p] = "unstarted"], FALSE, buffered)
        BY <1>11, <2>3 DEF ProcessFailedToStart
      <3> QED
        BY <1>t, <2>1, <3>1, SettledOrder DEF OrderInv
    <2> QED
      BY <2>2, <2>3
  <1>12. ASSUME NEW p \in Ids, NEW how \in {"ok", "bad"}, ProcessFinished(p, how)
         PROVE  OrderInv'
    <2>1. procs[p] # "none" /\ how \in Phases \ {"none"} /\ nextId' = nextId
      BY <1>12 DEF ProcessFinished, Phases, EndPhases
    <2>2. CASE currentProcess = NoProcess
      BY <1>9, <1>12, <2>1, <2>2 DEF ProcessFinished
    <2>3. CASE currentProcess # NoProcess
      <3>1. SettleCurrentRow([procs EXCEPT ![p] = how], Succeeded(how), {})
        BY <1>12, <2>3 DEF ProcessFinished
      <3>2. Succeeded(how) \in BOOLEAN
        BY DEF Succeeded
      <3> QED
        BY <1>t, <2>1, <3>1, <3>2, SettledOrder DEF OrderInv
    <2> QED
      BY <2>2, <2>3
  <1>13. CASE ConsumeOutput
    <2>1. UNCHANGED <<currentRow, currentProcess, procs, nextId>>
      BY <1>13 DEF ConsumeOutput
    <2>2. CASE jobs' = jobs
      BY <1>6, <2>1, <2>2
    <2>3. CASE jobs' = [r \in DOMAIN jobs |->
                          IF r = currentRow THEN [jobs[r] EXCEPT !.state = "Running N%"]
                                            ELSE jobs[r]]
      <3>1. DOMAIN jobs' = DOMAIN jobs
        BY <2>3
      <3>2. ASSUME NEW r \in DOMAIN jobs
            PROVE  /\ jobs'[r].id = jobs[r].id
                   /\ r = currentRow => jobs'[r].state = "Running N%"
                   /\ r # currentRow => jobs'[r] = jobs[r]
        BY <1>r, <2>3 DEF Job
      <3>3. Ascending' /\ Issued'
        BY <2>1, <3>1, <3>2 DEF OrderInv, Ascending, Issued
      <3>4. RowIntegrity'
        <4>1. currentRow # NoRow => currentRow \in DOMAIN jobs
          BY <1>r, <1>t DEF TypeOK, NoRow
        <4> QED
          BY <2>1, <3>1, <3>2, <4>1 DEF OrderInv, RowIntegrity, ActiveStates
      <3>5. \A r \in Runnable(jobs') : r \in Runnable(jobs) /\ jobs'[r] = jobs[r]
        BY <3>1, <3>2 DEF Runnable
      <3>6. NoStall' /\ NoOvertaking'
        BY <2>1, <3>5 DEF OrderInv, NoStall, NoOvertaking
      <3> QED
        BY <1>t, <3>3, <3>4, <3>6 DEF OrderInv
    <2> QED
      BY <1>13, <2>2, <2>3 DEF ConsumeOutput
  <1>14. CASE UNCHANGED vars
    BY <1>6, <1>14 DEF vars
  <1> QED
    BY <1>2, <1>3, <1>4, <1>5, <1>7, <1>8, <1>10, <1>11, <1>12, <1>13, <1>14
    DEF Next, ProcessEnds

LEMMA OrderInvariant == SafeSpec => []OrderInv
PROOF
  BY OrderInit, OrderStep, PTL DEF SafeSpec

\* The row shown as running is the row of the current process, and the only one.
THEOREM RowsIntact == SafeSpec => []RowIntegrity
PROOF
  <1>1. OrderInv => RowIntegrity
    BY DEF OrderInv
  <1> QED
    BY <1>1, OrderInvariant, PTL

\* No transfer waits while no process is current.
THEOREM NeverStalls == SafeSpec => []NoStall
PROOF
  <1>1. OrderInv => NoStall
    BY DEF OrderInv
  <1> QED
    BY <1>1, OrderInvariant, PTL

\* Transfers begin in the order in which they were submitted, each at most once.
THEOREM NeverOvertaken == SafeSpec => []NoOvertaking
PROOF
  <1>1. OrderInv => NoOvertaking
    BY DEF OrderInv
  <1> QED
    BY <1>1, OrderInvariant, PTL

-----------------------------------------------------------------------------
(***************************************************************************)
(* Processes, files, buffers and outcomes.  ReportsOf says that an outcome *)
(* belongs to a job that was begun and is no longer current.               *)
(***************************************************************************)
ReportsOf ==
  \A i \in Ids : reported[i] # "none" =>
    procs[i] # "none" /\ (currentRow # NoRow => i # currentProcess)

ProcessInv ==
  /\ OrderInv
  /\ ReportsOf
  /\ HelperPresent
  /\ OutputOwned
  /\ NoOrphan
  /\ OneTransferAtATime
  /\ OutcomeTruthful
  /\ CrashOnlyOnDisconnect

\* The processes a function of phases counts as alive.
LiveIn(ps) == {p \in Ids : ps[p] \in LivePhases}

\* Looking for the next job adds the process of that job to the live ones, and
\* signals a failure for jobs that were never begun.
LEMMA StartNextProcesses ==
  ASSUME NEW js \in Seq(Job), NEW ps \in [Ids -> Phases],
         NEW reps \in [Ids -> {"none", "completed", "failed"}],
         NEW fs, NEW bufs,
         \A r, s \in DOMAIN js : r < s => js[r].id < js[s].id,
         \A r \in Runnable(js), p \in Ids : ps[p] # "none" => p < js[r].id,
         \A i \in Ids : reps[i] # "none" => ps[i] # "none",
         StartNextQueuedTransfer(js, ps, reps, fs, bufs)
  PROVE  /\ Live' = LiveIn(ps) \cup ({currentProcess'} \ {NoProcess})
         /\ currentProcess' \notin LiveIn(ps)
         /\ ReportsOf'
         /\ HelperPresent'
         /\ OutputOwned'
         /\ \A i \in Ids : reps[i] # "none" => reported'[i] = reps[i] /\ procs'[i] = ps[i]
         /\ \A i \in Ids : reps[i] = "none" /\ reported'[i] # "none" =>
              reported'[i] = "failed" /\ procs'[i] = "unstarted"
         /\ \A p \in Ids : ps[p] # "none" => procs'[p] = ps[p]
         /\ DOMAIN jobs' = DOMAIN js
         /\ \A r \in DOMAIN js :
              /\ jobs'[r].id = js[r].id
              /\ js[r].state # "Queued" => jobs'[r] = js[r]
PROOF
  <1>1. PICK next \in Runnable(js) \cup {NoRow}, wrote \in SUBSET DOMAIN js :
          StartRow(next, wrote, js, ps, reps, fs, bufs)
    BY DEF StartNextQueuedTransfer, Refused, Runnable
  <1> DEFINE refusedIds == {js[r].id : r \in Refused(js, next)}
  <1>2. /\ Len(js) \in Nat
        /\ DOMAIN js = 1..Len(js)
        /\ \A r \in DOMAIN js : js[r].id \in Ids
        /\ NoRow \notin DOMAIN js
        /\ Runnable(js) \subseteq DOMAIN js
    BY RowsOf DEF Job
  <1>3. /\ DOMAIN jobs' = DOMAIN js
        /\ \A r \in DOMAIN js :
             /\ jobs'[r].id = js[r].id
             /\ r = next =>
                  /\ jobs'[r].needsHelper = js[r].needsHelper
                  /\ jobs'[r].needsHelper => jobs'[r].askPassPath = r
             /\ r \notin Refused(js, next) \cup {next} => jobs'[r] = js[r]
        /\ next \notin Refused(js, next)
    BY <1>1, StartRowRows
  <1>4. /\ currentRow' = next
        /\ currentProcess' = IF next = NoRow THEN NoProcess ELSE js[next].id
        /\ procs' = [p \in Ids |-> CASE p \in refusedIds    -> "unstarted"
                                     [] p = currentProcess' -> "starting"
                                     [] OTHER               -> ps[p]]
        /\ reported' = [i \in Ids |-> IF i \in refusedIds THEN "failed" ELSE reps[i]]
        /\ {r \in {next} \cap DOMAIN js : js[r].needsHelper} \subseteq files'
        /\ buffered' = BuffersAfterStart(js, bufs)
    BY <1>1 DEF StartRow
  <1>5. \A r \in Runnable(js) : js[r].id \in Ids /\ js[r].id \in Nat /\ ps[js[r].id] = "none"
    BY <1>2 DEF Ids
  <1>6. \A i \in refusedIds : i \in Ids /\ ps[i] = "none"
    BY <1>5 DEF Refused
  <1>7. /\ currentProcess' # NoProcess =>
             /\ next \in Runnable(js)
             /\ currentProcess' = js[next].id
             /\ currentProcess' \in Ids
             /\ ps[currentProcess'] = "none"
        /\ currentProcess' = NoProcess => next = NoRow
    BY <1>2, <1>4, <1>5 DEF Ids, NoProcess
  <1>8. currentProcess' \notin refusedIds
    <2>1. CASE currentProcess' = NoProcess
      <3>1. NoProcess \notin Ids
        BY DEF Ids, NoProcess
      <3> HIDE DEF refusedIds
      <3> QED
        BY <1>6, <2>1, <3>1
    <2>2. ASSUME NEW r \in Refused(js, next), currentProcess' # NoProcess
          PROVE  js[r].id # currentProcess'
      <3>1. r \in DOMAIN js /\ next \in DOMAIN js /\ next # NoRow /\ r < next
        BY <1>2, <1>7, <2>2 DEF Refused
      <3>2. js[r].id < js[next].id /\ js[r].id \in Nat /\ js[next].id \in Nat
        BY <1>2, <3>1 DEF Ids
      <3> QED
        BY <1>7, <2>2, <3>2
    <2> QED
      BY <2>1, <2>2
  <1>9. \A p \in Ids : /\ p \in refusedIds => procs'[p] = "unstarted"
                       /\ p = currentProcess' => procs'[p] = "starting"
                       /\ p \notin refusedIds \cup {currentProcess'} => procs'[p] = ps[p]
    <2> HIDE DEF refusedIds
    <2> QED
      BY <1>4, <1>8
  <1>10. \A i \in Ids : reported'[i] = IF i \in refusedIds THEN "failed" ELSE reps[i]
    BY <1>4
  <1> HIDE DEF refusedIds
  <1>11. Live' = LiveIn(ps) \cup ({currentProcess'} \ {NoProcess})
    <2>1. ASSUME NEW p \in Ids
          PROVE  procs'[p] \in LivePhases
                   <=> ps[p] \in LivePhases \/ (p = currentProcess' /\ p # NoProcess)
      <3>1. p # NoProcess
        BY DEF Ids, NoProcess
      <3>2. CASE p \in refusedIds
        BY <1>6, <1>8, <1>9, <3>2 DEF LivePhases
      <3>3. CASE p = currentProcess'
        BY <1>9, <3>1, <3>3 DEF LivePhases
      <3>4. CASE p \notin refusedIds \cup {currentProcess'}
        BY <1>9, <3>4
      <3> QED
        BY <3>2, <3>3, <3>4
    <2> QED
      BY <1>7, <2>1 DEF Live, LiveIn
  <1>12. currentProcess' \notin LiveIn(ps)
    BY <1>7 DEF LiveIn, LivePhases, Ids, NoProcess
  <1>13. \A p \in Ids : ps[p] # "none" => procs'[p] = ps[p]
    BY <1>6, <1>7, <1>9 DEF Ids, NoProcess
  <1>14. \A i \in Ids : reps[i] # "none" => reported'[i] = reps[i] /\ procs'[i] = ps[i]
    BY <1>6, <1>10, <1>13
  <1>15. \A i \in Ids : reps[i] = "none" /\ reported'[i] # "none" =>
           reported'[i] = "failed" /\ procs'[i] = "unstarted"
    BY <1>9, <1>10
  <1>16. ReportsOf'
    <2>1. ASSUME NEW i \in Ids, reported'[i] # "none"
          PROVE  procs'[i] # "none" /\ i # currentProcess'
      <3>1. CASE i \in refusedIds
        BY <1>8, <1>9, <3>1
      <3>2. CASE i \notin refusedIds
        <4>1. ps[i] # "none"
          BY <1>10, <2>1, <3>2
        <4> QED
          BY <1>7, <1>13, <4>1 DEF Ids, NoProcess
      <3> QED
        BY <3>1, <3>2
    <2> QED
      BY <2>1 DEF ReportsOf
  <1>17. HelperPresent'
    BY <1>2, <1>3, <1>4 DEF HelperPresent
  <1>18. OutputOwned'
    BY <1>4, <1>7 DEF OutputOwned, BuffersAfterStart
  <1>19. \A r \in DOMAIN js : js[r].state # "Queued" => jobs'[r] = js[r]
    BY <1>2, <1>3 DEF Refused, Runnable, NoRow
  <1> QED
    BY <1>3, <1>11, <1>12, <1>13, <1>14, <1>15, <1>16, <1>17, <1>18, <1>19

\* What a signal that ends process p does to processes and outcomes.
LEMMA SettledProcesses ==
  ASSUME ProcessInv, NEW p \in Ids, procs[p] \in LivePhases,
         currentProcess # NoProcess,
         NEW phase \in EndPhases, NEW ok \in BOOLEAN, NEW bufs,
         ok <=> phase = "ok",
         SettleCurrentRow([procs EXCEPT ![p] = phase], ok, bufs),
         condemned' = Condemn(p)
  PROVE  /\ ReportsOf'
         /\ HelperPresent'
         /\ OutputOwned'
         /\ NoOrphan'
         /\ OneTransferAtATime'
         /\ OutcomeTruthful'
         /\ \A i \in Ids : reported[i] # "none" => reported'[i] = reported[i]
         /\ DOMAIN jobs' = DOMAIN jobs
         /\ \A r \in DOMAIN jobs :
              /\ jobs'[r].id = jobs[r].id
              /\ jobs[r].state \in FinalStates => jobs'[r] = jobs[r]
PROOF
  <1> DEFINE js == SettledJobs(ok)
             ps == [procs EXCEPT ![p] = phase]
             reps == SettledReports(ok)
             fs == FilesAfterCleanup
  <1>1. StartNextQueuedTransfer(js, ps, reps, fs, bufs)
    BY DEF SettleCurrentRow
  <1>t. TypeOK
    BY DEF ProcessInv, OrderInv
  <1>2. /\ js \in Seq(Job)
        /\ DOMAIN js = DOMAIN jobs
        /\ \A r \in DOMAIN jobs :
             /\ js[r].id = jobs[r].id
             /\ r = currentRow => js[r].state \in FinalStates
             /\ r # currentRow => js[r] = jobs[r]
        /\ reps \in [Ids -> {"none", "completed", "failed"}]
    BY <1>t, SettledType
  <1>3. /\ ps \in [Ids -> Phases]
        /\ ps[p] = phase
        /\ \A q \in Ids : q # p => ps[q] = procs[q]
        /\ \A q \in Ids : ps[q] # "none" <=> procs[q] # "none"
    BY <1>t DEF TypeOK, Phases, EndPhases, LivePhases
  <1>4. \A r, s \in DOMAIN js : r < s => js[r].id < js[s].id
    BY <1>2 DEF ProcessInv, OrderInv, Ascending
  <1>5. \A r \in Runnable(js) : r \in Runnable(jobs) /\ js[r] = jobs[r]
    BY <1>2 DEF Runnable, FinalStates
  <1>6. \A r \in Runnable(js), q \in Ids : ps[q] # "none" => q < js[r].id
    BY <1>3, <1>5 DEF ProcessInv, OrderInv, NoOvertaking
  <1>7. /\ currentProcess \in Live
        /\ currentProcess \in Ids
        /\ p \in Live
    BY <1>t DEF ProcessInv, NoOrphan, Live, TypeOK
  <1>8. \A i \in Ids :
          \/ /\ currentRow # NoRow
             /\ i = currentProcess
             /\ reported[i] = "none"
             /\ reps[i] = IF ok THEN "completed" ELSE "failed"
          \/ reps[i] = reported[i]
    BY DEF SettledReports, ProcessInv, OrderInv, RowIntegrity, ReportsOf
  <1>9. \A i \in Ids : reps[i] # "none" => ps[i] # "none"
    BY <1>3, <1>7, <1>8 DEF ProcessInv, ReportsOf, Live, LivePhases
  <1>10. LiveIn(ps) = Live \ {p}
    BY <1>3 DEF LiveIn, Live, EndPhases, LivePhases
  <1>11. condemned' = LiveIn(ps)
    BY <1>7, <1>10 DEF Condemn, ProcessInv, NoOrphan
  <1>a. js \in Seq(Job) /\ ps \in [Ids -> Phases]
    BY <1>2, <1>3
  <1>b. reps \in [Ids -> {"none", "completed", "failed"}]
    BY <1>2
  <1> HIDE DEF js, ps, reps, fs
  <1>12. /\ Live' = LiveIn(ps) \cup ({currentProcess'} \ {NoProcess})
         /\ currentProcess' \notin LiveIn(ps)
         /\ ReportsOf'
         /\ HelperPresent'
         /\ OutputOwned'
         /\ \A i \in Ids : reps[i] # "none" => reported'[i] = reps[i] /\ procs'[i] = ps[i]
         /\ \A i \in Ids : reps[i] = "none" /\ reported'[i] # "none" =>
              reported'[i] = "failed" /\ procs'[i] = "unstarted"
         /\ DOMAIN jobs' = DOMAIN js
         /\ \A r \in DOMAIN js :
              /\ jobs'[r].id = js[r].id
              /\ js[r].state # "Queued" => jobs'[r] = js[r]
    BY <1>1, <1>a, <1>b, <1>4, <1>6, <1>9, StartNextProcesses
  <1>13. NoOrphan'
    BY <1>11, <1>12 DEF NoOrphan
  <1>14. ASSUME ~ClicksBatched
         PROVE  p = currentProcess /\ LiveIn(ps) = {}
    BY <1>7, <1>10, <1>14 DEF ProcessInv, OneTransferAtATime
  <1>15. OneTransferAtATime'
    BY <1>12, <1>14 DEF OneTransferAtATime
  <1>16. OutcomeTruthful'
    <2> SUFFICES ASSUME ~ClicksBatched, NEW i \in Ids
                 PROVE  /\ reported'[i] = "completed" => procs'[i] = "ok"
                        /\ reported'[i] = "failed" => procs'[i] \in {"unstarted", "bad"}
      BY DEF OutcomeTruthful
    <2>1. CASE reps[i] = "none"
      BY <1>12, <2>1
    <2>2. CASE reps[i] # "none"
      <3>1. reported'[i] = reps[i] /\ procs'[i] = ps[i]
        BY <1>12, <2>2
      <3>2. CASE i = p /\ reps[i] = IF ok THEN "completed" ELSE "failed"
        BY <1>3, <3>1, <3>2 DEF EndPhases
      <3>3. CASE reps[i] = reported[i]
        <4>1. i # p
          BY <1>7, <1>14, <2>2, <3>3 DEF ProcessInv, OutcomeTruthful, Live, LivePhases,
                                         OrderInv, TypeOK
        <4> QED
          BY <1>3, <3>1, <3>3, <4>1 DEF ProcessInv, OutcomeTruthful
      <3> QED
        BY <1>8, <1>14, <3>2, <3>3
    <2> QED
      BY <2>1, <2>2
  <1>17. \A i \in Ids : reported[i] # "none" => reported'[i] = reported[i]
    BY <1>8, <1>12
  <1>18. ASSUME NEW r \in DOMAIN jobs
         PROVE  /\ jobs'[r].id = jobs[r].id
                /\ jobs[r].state \in FinalStates => jobs'[r] = jobs[r]
    <2>1. jobs'[r].id = jobs[r].id
      BY <1>2, <1>12
    <2>2. ASSUME jobs[r].state \in FinalStates
          PROVE  jobs'[r] = jobs[r]
      <3>1. r # currentRow
        BY <2>2 DEF ProcessInv, OrderInv, RowIntegrity, ActiveStates, FinalStates
      <3>2. js[r] = jobs[r] /\ js[r].state # "Queued"
        BY <1>2, <2>2, <3>1 DEF FinalStates
      <3> QED
        BY <1>2, <1>12, <3>2
    <2> QED
      BY <2>1, <2>2
  <1> QED
    BY <1>2, <1>12, <1>13, <1>15, <1>16, <1>17, <1>18

LEMMA ProcessInit == Init => ProcessInv
PROOF
  <1> SUFFICES ASSUME Init
               PROVE  ProcessInv
    OBVIOUS
  <1>1. Live = {}
    BY DEF Init, Live, LivePhases
  <1> QED
    BY <1>1, OrderInit DEF Init, ProcessInv, ReportsOf, HelperPresent, OutputOwned, NoOrphan,
       OneTransferAtATime, OutcomeTruthful, CrashOnlyOnDisconnect, NoRow, NoProcess

\* What ends a process that nothing is current for.
LEMMA ForgottenProcesses ==
  ASSUME ProcessInv, NEW p \in Ids, procs[p] \in LivePhases,
         currentProcess = NoProcess,
         NEW phase \in EndPhases,
         procs' = [procs EXCEPT ![p] = phase],
         condemned' = Condemn(p),
         UNCHANGED <<jobs, currentRow, currentProcess, buffered, files, reported>>
  PROVE  ReportsOf' /\ HelperPresent' /\ OutputOwned' /\ NoOrphan' /\ OneTransferAtATime'
         /\ OutcomeTruthful'
PROOF
  <1>t. TypeOK /\ currentRow = NoRow
    BY DEF ProcessInv, OrderInv, RowIntegrity
  <1>1. /\ procs'[p] = phase
        /\ \A q \in Ids : q # p => procs'[q] = procs[q]
        /\ phase # "none" /\ phase \notin LivePhases
    BY <1>t DEF TypeOK, EndPhases, LivePhases
  <1>2. Live' = Live \ {p} /\ p \in Live
    BY <1>1 DEF Live
  <1>3. condemned' = condemned \ {p}
    BY DEF Condemn
  <1>4. NoOrphan' /\ OneTransferAtATime'
    BY <1>2, <1>3 DEF ProcessInv, NoOrphan, OneTransferAtATime
  <1>5. ReportsOf' /\ HelperPresent' /\ OutputOwned'
    BY <1>t, <1>1 DEF ProcessInv, ReportsOf, HelperPresent, OutputOwned
  <1>6. OutcomeTruthful'
    <2>1. ~ClicksBatched => reported[p] = "none"
      BY <1>t DEF ProcessInv, OutcomeTruthful, TypeOK, LivePhases
    <2> QED
      BY <1>1, <2>1 DEF ProcessInv, OutcomeTruthful
  <1> QED
    BY <1>4, <1>5, <1>6

\* Job numbers name rows.
LEMMA UniqueIds ==
  ASSUME OrderInv
  PROVE  \A r, s \in DOMAIN jobs : jobs[r].id = jobs[s].id => r = s
PROOF
  <1>1. /\ DOMAIN jobs = 1..Len(jobs)
        /\ Len(jobs) \in Nat
        /\ \A r \in DOMAIN jobs : jobs[r] \in Job
    BY RowsOf DEF OrderInv, TypeOK
  <1>2. \A r \in DOMAIN jobs : jobs[r].id \in Nat
    BY <1>1 DEF Job, Ids
  <1> QED
    BY <1>1, <1>2 DEF OrderInv, Ascending

\* A signal that ends a process, whether or not a process is current.
LEMMA EndedProcesses ==
  ASSUME ProcessInv, NEW p \in Ids, procs[p] \in LivePhases,
         NEW phase \in EndPhases, NEW ok \in BOOLEAN, NEW bufs,
         ok <=> phase = "ok",
         IF currentProcess = NoProcess
         THEN /\ procs' = [procs EXCEPT ![p] = phase]
              /\ UNCHANGED <<jobs, currentRow, currentProcess, buffered, files, reported>>
         ELSE SettleCurrentRow([procs EXCEPT ![p] = phase], ok, bufs),
         condemned' = Condemn(p)
  PROVE  /\ ReportsOf' /\ HelperPresent' /\ OutputOwned' /\ NoOrphan'
         /\ OneTransferAtATime' /\ OutcomeTruthful'
         /\ OutcomeKept
PROOF
  <1>u. \A r, s \in DOMAIN jobs : jobs[r].id = jobs[s].id => r = s
    BY UniqueIds DEF ProcessInv
  <1>2. CASE currentProcess = NoProcess
    <2>1. /\ procs' = [procs EXCEPT ![p] = phase]
          /\ UNCHANGED <<jobs, currentRow, currentProcess, buffered, files, reported>>
      BY <1>2
    <2>2. OutcomeKept
      BY <1>u, <2>1 DEF OutcomeKept
    <2> QED
      BY <1>2, <2>1, <2>2, ForgottenProcesses
  <1>3. CASE currentProcess # NoProcess
    <2>1. SettleCurrentRow([procs EXCEPT ![p] = phase], ok, bufs)
      BY <1>3
    <2>2. /\ ReportsOf' /\ HelperPresent' /\ OutputOwned' /\ NoOrphan'
          /\ OneTransferAtATime' /\ OutcomeTruthful'
          /\ \A i \in Ids : reported[i] # "none" => reported'[i] = reported[i]
          /\ DOMAIN jobs' = DOMAIN jobs
          /\ \A r \in DOMAIN jobs :
               /\ jobs'[r].id = jobs[r].id
               /\ jobs[r].state \in FinalStates => jobs'[r] = jobs[r]
      BY <1>3, <2>1, SettledProcesses
    <2>3. OutcomeKept
      BY <1>u, <2>2 DEF OutcomeKept
    <2> QED
      BY <2>2, <2>3
  <1> QED
    BY <1>2, <1>3

\* The signals FailedToStart and finished end a process in this sense.
LEMMA EndsOfProcesses ==
  ASSUME ProcessInv, NEW p \in Ids, ProcessEnds(p)
  PROVE  /\ ReportsOf' /\ HelperPresent' /\ OutputOwned' /\ NoOrphan'
         /\ OneTransferAtATime' /\ OutcomeTruthful'
         /\ OutcomeKept
PROOF
  <1>1. CASE ProcessFailedToStart(p)
    <2>1. "unstarted" \in EndPhases /\ (FALSE <=> "unstarted" = "ok")
      BY DEF EndPhases
    <2>2. /\ procs[p] \in LivePhases
          /\ IF currentProcess = NoProcess
             THEN /\ procs' = [procs EXCEPT ![p] = "unstarted"]
                  /\ UNCHANGED <<jobs, currentRow, currentProcess, buffered, files, reported>>
             ELSE SettleCurrentRow([procs EXCEPT ![p] = "unstarted"], FALSE, buffered)
          /\ condemned' = Condemn(p)
      BY <1>1 DEF ProcessFailedToStart, LivePhases
    <2> QED
      BY <2>1, <2>2, EndedProcesses
  <1>2. ASSUME NEW how \in {"ok", "bad"}, ProcessFinished(p, how)
        PROVE  /\ ReportsOf' /\ HelperPresent' /\ OutputOwned' /\ NoOrphan'
               /\ OneTransferAtATime' /\ OutcomeTruthful'
               /\ OutcomeKept
    <2> DEFINE ok == how = "ok"
    <2>1. how \in EndPhases /\ ok \in BOOLEAN /\ (ok <=> how = "ok")
      BY DEF EndPhases
    <2>2. /\ procs[p] \in LivePhases
          /\ IF currentProcess = NoProcess
             THEN /\ procs' = [procs EXCEPT ![p] = how]
                  /\ UNCHANGED <<jobs, currentRow, currentProcess, buffered, files, reported>>
             ELSE SettleCurrentRow([procs EXCEPT ![p] = how], ok, {})
          /\ condemned' = Condemn(p)
      BY <1>2 DEF ProcessFinished, LivePhases, Succeeded
    <2> HIDE DEF ok
    <2> QED
      BY <2>1, <2>2, EndedProcesses
  <1> QED
    BY <1>1, <1>2 DEF ProcessEnds

LEMMA ProcessStep == ProcessInv /\ [Next]_vars => ProcessInv'
PROOF
  <1> SUFFICES ASSUME ProcessInv, [Next]_vars
               PROVE  ProcessInv'
    OBVIOUS
  <1>o. OrderInv /\ OrderInv'
    BY OrderStep DEF ProcessInv
  <1>t. TypeOK
    BY <1>o DEF OrderInv
  <1>r. /\ Len(jobs) \in Nat
        /\ DOMAIN jobs = 1..Len(jobs)
        /\ \A r \in DOMAIN jobs : jobs[r] \in Job
        /\ currentRow # NoRow => currentRow \in DOMAIN jobs
    BY <1>t, RowsOf DEF TypeOK, NoRow
  <1> DEFINE Rest == /\ ReportsOf' /\ HelperPresent' /\ OutputOwned' /\ NoOrphan'
                     /\ OneTransferAtATime' /\ OutcomeTruthful' /\ CrashOnlyOnDisconnect'
  <1>s. ASSUME Rest
        PROVE  ProcessInv'
    BY <1>o, <1>s DEF ProcessInv
  <1>a. ASSUME app' # "crashed"
        PROVE  CrashOnlyOnDisconnect'
    BY <1>a DEF CrashOnlyOnDisconnect
  \* Steps that add or move rows and touch nothing else.
  <1>b. ASSUME UNCHANGED <<currentProcess, procs, condemned, reported, files, buffered>>,
               app' # "crashed",
               currentRow' # NoRow =>
                 /\ currentRow # NoRow
                 /\ jobs'[currentRow'] = jobs[currentRow]
        PROVE  Rest
    <2>1. Live' = Live
      BY <1>b DEF Live
    <2> QED
      BY <1>a, <1>b, <2>1 DEF ProcessInv, ReportsOf, HelperPresent, OutputOwned, NoOrphan,
         OneTransferAtATime, OutcomeTruthful
  <1>1. CASE EnqueueRemoteTransfer
    <2>1. PICK program \in {"cli", "scp"}, secret \in BOOLEAN :
            StartNextIfIdle(Append(jobs, NewJob(program, secret, "Queued")))
      BY <1>1 DEF EnqueueRemoteTransfer
    <2> DEFINE js == Append(jobs, NewJob(program, secret, "Queued"))
    <2>2. /\ nextId < MaxJobs
          /\ UNCHANGED <<condemned, app>>
          /\ app = "running"
          /\ ~ClicksBatched => condemned = {}
      BY <1>1 DEF EnqueueRemoteTransfer, UserTurn
    <2>3. /\ js \in Seq(Job)
          /\ DOMAIN js = 1..(Len(jobs) + 1)
          /\ \A r \in DOMAIN jobs : r \in DOMAIN js /\ js[r] = jobs[r]
          /\ \A r, s \in DOMAIN js : r < s => js[r].id < js[s].id
          /\ \A r \in DOMAIN js : js[r].id <= nextId + 1
          /\ \A r \in DOMAIN js : r \notin DOMAIN jobs =>
               js[r].state = "Queued" /\ js[r].id = nextId + 1 /\ js[r].program = program
      <3>1. program \in Programs /\ secret \in BOOLEAN /\ "Queued" \in States \ ActiveStates
        BY <2>1 DEF Programs, States, ActiveStates
      <3> QED
        BY <1>o, <2>2, <3>1, AppendedJob
    <2>4. StartNextIfIdle(js)
      BY <2>1
    <2> HIDE DEF js
    <2>5. CASE currentProcess # NoProcess
      <3>1. jobs' = js
            /\ UNCHANGED <<currentRow, currentProcess, procs, reported, files, buffered>>
        BY <2>4, <2>5 DEF StartNextIfIdle, NeverStartNext
      <3>2. Rest
        BY <1>b, <1>r, <2>2, <2>3, <3>1
      <3> QED
        BY <1>s, <3>2
    <2>6. CASE currentProcess = NoProcess
      <3>1. StartNextQueuedTransfer(js, procs, reported, files, buffered)
        BY <2>4, <2>6 DEF StartNextIfIdle, AlwaysStartNext
      <3>2. \A r \in Runnable(js), p \in Ids : procs[p] # "none" => p < js[r].id
        BY <1>o, <2>3, AppendedOrder
      <3>3. procs \in [Ids -> Phases] /\ reported \in [Ids -> {"none", "completed", "failed"}]
        BY <1>t DEF TypeOK
      <3>4. \A i \in Ids : reported[i] # "none" => procs[i] # "none"
        BY DEF ProcessInv, ReportsOf
      <3>5. \A r, s \in DOMAIN js : r < s => js[r].id < js[s].id
        BY <2>3
      <3>6. js \in Seq(Job)
        BY <2>3
      <3>7. /\ Live' = LiveIn(procs) \cup ({currentProcess'} \ {NoProcess})
            /\ currentProcess' \notin LiveIn(procs)
            /\ ReportsOf'
            /\ HelperPresent'
            /\ OutputOwned'
            /\ \A i \in Ids : reported[i] # "none" =>
                 reported'[i] = reported[i] /\ procs'[i] = procs[i]
            /\ \A i \in Ids : reported[i] = "none" /\ reported'[i] # "none" =>
                 reported'[i] = "failed" /\ procs'[i] = "unstarted"
        BY <3>1, <3>2, <3>3, <3>4, <3>5, <3>6, StartNextProcesses
      <3>8. LiveIn(procs) = condemned
        BY <2>6 DEF LiveIn, Live, ProcessInv, NoOrphan
      <3>9. NoOrphan' /\ OneTransferAtATime'
        BY <2>2, <3>7, <3>8 DEF NoOrphan, OneTransferAtATime
      <3>10. OutcomeTruthful'
        BY <3>7 DEF ProcessInv, OutcomeTruthful
      <3>11. CrashOnlyOnDisconnect'
        BY <1>a, <2>2
      <3> QED
        BY <1>s, <3>7, <3>9, <3>10, <3>11
    <2> QED
      BY <2>5, <2>6
  <1>2. CASE EnqueueLocalCopy
    <2>1. PICK secret \in BOOLEAN, state \in FinalStates :
            jobs' = Append(jobs, NewJob("none", secret, state))
      BY <1>2 DEF EnqueueLocalCopy
    <2>2. /\ UNCHANGED <<currentRow, currentProcess, procs, condemned, reported, files,
                         buffered, app>>
          /\ app = "running"
      BY <1>2 DEF EnqueueLocalCopy, UserTurn
    <2>3. \A r \in DOMAIN jobs : jobs'[r] = jobs[r]
      <3> DEFINE job == NewJob("none", secret, state)
      <3>1. jobs' = Append(jobs, job)
        BY <2>1
      <3> HIDE DEF job
      <3>2. jobs \in Seq(Job)
        BY <1>t DEF TypeOK
      <3> QED
        BY <1>r, <3>1, <3>2
    <2>4. Rest
      BY <1>b, <1>r, <2>2, <2>3
    <2> QED
      BY <1>s, <2>4
  <1>3. CASE SetUseOpenSshBackend \/ Quit
    <2>1. /\ UNCHANGED <<jobs, currentRow, currentProcess, procs, condemned, reported, files,
                         buffered>>
          /\ app' # "crashed"
      BY <1>3 DEF SetUseOpenSshBackend, Quit, UserTurn
    <2>2. Rest
      BY <1>b, <2>1
    <2> QED
      BY <1>s, <2>2
  <1>4. CASE ClearFinished
    <2>1. PICK kept \in Increasing({r \in DOMAIN jobs : jobs[r].state \in KeptStates}, Len(jobs)) :
            /\ jobs' = [a \in DOMAIN kept |-> jobs[kept[a]]]
            /\ currentRow' = RemappedRow(kept)
      BY <1>4 DEF ClearFinished
    <2>2. /\ UNCHANGED <<currentProcess, procs, condemned, reported, files, buffered>>
          /\ app' # "crashed"
      BY <1>4 DEF ClearFinished, UserTurn
    <2>3. /\ \A a \in DOMAIN kept : kept[a] \in DOMAIN jobs
          /\ RemappedRow(kept) \in DOMAIN kept \cup {NoRow}
          /\ RemappedRow(kept) # NoRow => kept[RemappedRow(kept)] = currentRow
      BY <1>t, KeptRows
    <2>4. ASSUME currentRow' # NoRow
          PROVE  currentRow # NoRow /\ jobs'[currentRow'] = jobs[currentRow]
      <3>1. currentRow' \in DOMAIN kept /\ kept[currentRow'] = currentRow
        BY <2>1, <2>3, <2>4
      <3> QED
        BY <1>r, <2>1, <2>3, <3>1 DEF NoRow
    <2>5. Rest
      BY <1>b, <2>2, <2>4
    <2> QED
      BY <1>s, <2>5
  <1>5. CASE ClearAll
    <2>1. /\ condemned' = condemned \cup ({currentProcess} \ {NoProcess})
          /\ currentProcess' = NoProcess
          /\ currentRow' = NoRow
          /\ UNCHANGED <<procs, reported, app>>
          /\ app = "running"
      BY <1>5 DEF ClearAll, UserTurn
    <2>2. Live' = Live
      BY <2>1 DEF Live
    <2>3. NoProcess \notin Live
      BY DEF Live, Ids, NoProcess
    <2>4. NoOrphan' /\ OneTransferAtATime'
      BY <2>1, <2>2, <2>3 DEF ProcessInv, NoOrphan, OneTransferAtATime
    <2>5. ReportsOf' /\ HelperPresent' /\ OutputOwned' /\ OutcomeTruthful'
      BY <2>1 DEF ProcessInv, ReportsOf, HelperPresent, OutputOwned, OutcomeTruthful
    <2> QED
      BY <1>a, <1>s, <2>1, <2>4, <2>5
  <1>6. ASSUME NEW p \in Ids, ProcessStarted(p)
        PROVE  ProcessInv'
    <2>1. /\ procs[p] = "starting"
          /\ procs' = [procs EXCEPT ![p] = "running"]
          /\ app' = IF currentProcess = NoProcess THEN "crashed" ELSE app
          /\ app = "running"
          /\ UNCHANGED <<jobs, currentRow, currentProcess, buffered, condemned, files, reported>>
      BY <1>6 DEF ProcessStarted
    <2>2. procs'[p] = "running" /\ \A q \in Ids : q # p => procs'[q] = procs[q]
      BY <1>t, <2>1 DEF TypeOK
    <2>3. Live' = Live /\ p \in Live
      BY <2>1, <2>2 DEF Live, LivePhases
    <2>4. NoOrphan' /\ OneTransferAtATime'
      BY <2>1, <2>3 DEF ProcessInv, NoOrphan, OneTransferAtATime
    <2>5. ReportsOf' /\ HelperPresent' /\ OutputOwned'
      BY <2>1, <2>2 DEF ProcessInv, ReportsOf, HelperPresent, OutputOwned
    <2>6. OutcomeTruthful'
      <3>1. ~ClicksBatched => reported[p] = "none"
        BY <1>t, <2>1 DEF ProcessInv, OutcomeTruthful, TypeOK
      <3> QED
        BY <2>1, <2>2, <3>1 DEF ProcessInv, OutcomeTruthful
    <2>7. CrashOnlyOnDisconnect'
      <3>1. currentProcess = NoProcess => p \in condemned'
        BY <2>1, <2>3 DEF ProcessInv, NoOrphan
      <3> QED
        BY <2>1, <2>2, <3>1 DEF CrashOnlyOnDisconnect
    <2> QED
      BY <1>s, <2>4, <2>5, <2>6, <2>7
  <1>7. ASSUME NEW p \in Ids, ProcessEnds(p)
        PROVE  ProcessInv'
    <2>1. /\ ReportsOf' /\ HelperPresent' /\ OutputOwned' /\ NoOrphan'
          /\ OneTransferAtATime' /\ OutcomeTruthful' /\ OutcomeKept
      BY <1>7, EndsOfProcesses
    <2>2. app' # "crashed"
      BY <1>7 DEF ProcessEnds, ProcessFailedToStart, ProcessFinished
    <2> QED
      BY <1>a, <1>s, <2>1, <2>2
  <1>8. CASE ConsumeOutput
    <2>1. /\ buffered' = buffered \cup {currentProcess}
          /\ UNCHANGED <<currentRow, currentProcess, procs, condemned, files, reported, app>>
          /\ app = "running"
      BY <1>8 DEF ConsumeOutput
    <2>2. Live' = Live
      BY <2>1 DEF Live
    <2>3. currentRow # NoRow =>
            /\ jobs'[currentRow].needsHelper = jobs[currentRow].needsHelper
            /\ jobs'[currentRow].askPassPath = jobs[currentRow].askPassPath
      BY <1>8, <1>r DEF ConsumeOutput, Job
    <2>4. ReportsOf' /\ NoOrphan' /\ OneTransferAtATime' /\ OutcomeTruthful'
      BY <2>1, <2>2 DEF ProcessInv, ReportsOf, NoOrphan, OneTransferAtATime, OutcomeTruthful
    <2>5. HelperPresent' /\ OutputOwned'
      BY <2>1, <2>3 DEF ProcessInv, HelperPresent, OutputOwned
    <2> QED
      BY <1>a, <1>s, <2>1, <2>4, <2>5
  <1>9. CASE UNCHANGED vars
    BY <1>9, <1>o DEF vars, ProcessInv, ReportsOf, HelperPresent, OutputOwned, NoOrphan, Live,
       OneTransferAtATime, OutcomeTruthful, CrashOnlyOnDisconnect
  <1> QED
    BY <1>1, <1>2, <1>3, <1>4, <1>5, <1>6, <1>7, <1>8, <1>9 DEF Next

LEMMA ProcessInvariant == SafeSpec => []ProcessInv
PROOF
  BY ProcessInit, ProcessStep, PTL DEF SafeSpec

\* The askpass file of the current job is never taken away from it.
THEOREM HelperIsPresent == SafeSpec => []HelperPresent
PROOF
  <1>1. ProcessInv => HelperPresent
    BY DEF ProcessInv
  <1> QED
    BY <1>1, ProcessInvariant, PTL

\* No job is shown the output of another job's process.
THEOREM OutputIsOwned == SafeSpec => []OutputOwned
PROOF
  <1>1. ProcessInv => OutputOwned
    BY DEF ProcessInv
  <1> QED
    BY <1>1, ProcessInvariant, PTL

\* Every running process is current or about to be deleted.
THEOREM NoneOrphaned == SafeSpec => []NoOrphan
PROOF
  <1>1. ProcessInv => NoOrphan
    BY DEF ProcessInv
  <1> QED
    BY <1>1, ProcessInvariant, PTL

\* Two transfers never run at once, if deferred deletes come before clicks.
THEOREM TransfersAlternate == SafeSpec => []OneTransferAtATime
PROOF
  <1>1. ProcessInv => OneTransferAtATime
    BY DEF ProcessInv
  <1> QED
    BY <1>1, ProcessInvariant, PTL

\* Every outcome that is signalled is that of the job's own process, if
\* deferred deletes come before clicks.
THEOREM OutcomesTrue == SafeSpec => []OutcomeTruthful
PROOF
  <1>1. ProcessInv => OutcomeTruthful
    BY DEF ProcessInv
  <1> QED
    BY <1>1, ProcessInvariant, PTL

\* Only a disconnect during the start of a process leads to the null pointer.
THEOREM CrashNeedsDisconnect == SafeSpec => []CrashOnlyOnDisconnect
PROOF
  <1>1. ProcessInv => CrashOnlyOnDisconnect
    BY DEF ProcessInv
  <1> QED
    BY <1>1, ProcessInvariant, PTL

\* No step takes back an outcome or touches a finished row.
LEMMA OutcomeStep == ProcessInv /\ [Next]_vars => [OutcomeKept]_vars
PROOF
  <1> SUFFICES ASSUME ProcessInv, Next
               PROVE  OutcomeKept
    OBVIOUS
  <1>o. OrderInv
    BY DEF ProcessInv
  <1>t. TypeOK
    BY <1>o DEF OrderInv
  <1>u. \A r, s \in DOMAIN jobs : jobs[r].id = jobs[s].id => r = s
    BY <1>o, UniqueIds
  <1>r. \A r \in DOMAIN jobs : /\ jobs[r] \in Job
                               /\ jobs[r].id \in Nat
                               /\ jobs[r].id <= nextId
    <2>1. \A r \in DOMAIN jobs : jobs[r] \in Job
      BY <1>t, RowsOf DEF TypeOK
    <2> QED
      BY <1>o, <2>1 DEF Job, Ids, OrderInv, Issued
  <1>n. nextId \in Nat
    BY <1>t, MaxJobsAssumption DEF TypeOK
  \* Rows that keep their place, and rows for new jobs.
  <1>k. ASSUME \A i \in Ids : reported[i] # "none" => reported'[i] = reported[i],
               \A r \in DOMAIN jobs' : r \notin DOMAIN jobs => jobs'[r].id = nextId + 1,
               \A r \in DOMAIN jobs \cap DOMAIN jobs' :
                 /\ jobs'[r].id = jobs[r].id
                 /\ jobs[r].state \in FinalStates => jobs'[r] = jobs[r]
        PROVE  OutcomeKept
    <2> SUFFICES ASSUME NEW r \in DOMAIN jobs, NEW s \in DOMAIN jobs',
                        jobs[r].state \in FinalStates, jobs'[s].id = jobs[r].id
                 PROVE  jobs'[s] = jobs[r]
      BY <1>k DEF OutcomeKept
    <2>1. s \in DOMAIN jobs
      BY <1>k, <1>n, <1>r
    <2>2. s = r
      BY <1>k, <1>u, <2>1
    <2> QED
      BY <1>k, <2>1, <2>2
  <1>1. CASE EnqueueRemoteTransfer
    <2>1. PICK program \in {"cli", "scp"}, secret \in BOOLEAN :
            StartNextIfIdle(Append(jobs, NewJob(program, secret, "Queued")))
      BY <1>1 DEF EnqueueRemoteTransfer
    <2> DEFINE js == Append(jobs, NewJob(program, secret, "Queued"))
    <2>2. nextId < MaxJobs
      BY <1>1 DEF EnqueueRemoteTransfer
    <2>3. /\ js \in Seq(Job)
          /\ DOMAIN js = 1..(Len(jobs) + 1)
          /\ \A r \in DOMAIN jobs : r \in DOMAIN js /\ js[r] = jobs[r]
          /\ \A r, s \in DOMAIN js : r < s => js[r].id < js[s].id
          /\ \A r \in DOMAIN js : js[r].id <= nextId + 1
          /\ \A r \in DOMAIN js : r \notin DOMAIN jobs =>
               js[r].state = "Queued" /\ js[r].id = nextId + 1 /\ js[r].program = program
      <3>1. program \in Programs /\ secret \in BOOLEAN /\ "Queued" \in States \ ActiveStates
        BY <2>1 DEF Programs, States, ActiveStates
      <3> QED
        BY <1>o, <2>2, <3>1, AppendedJob
    <2>4. StartNextIfIdle(js)
      BY <2>1
    <2> HIDE DEF js
    <2>5. CASE currentProcess # NoProcess
      <3>1. jobs' = js /\ reported' = reported
        BY <2>4, <2>5 DEF StartNextIfIdle, NeverStartNext
      <3> QED
        BY <1>k, <2>3, <3>1
    <2>6. CASE currentProcess = NoProcess
      <3>1. StartNextQueuedTransfer(js, procs, reported, files, buffered)
        BY <2>4, <2>6 DEF StartNextIfIdle, AlwaysStartNext
      <3>2. \A r \in Runnable(js), p \in Ids : procs[p] # "none" => p < js[r].id
        BY <1>o, <2>3, AppendedOrder
      <3>3. procs \in [Ids -> Phases] /\ reported \in [Ids -> {"none", "completed", "failed"}]
        BY <1>t DEF TypeOK
      <3>4. \A i \in Ids : reported[i] # "none" => procs[i] # "none"
        BY DEF ProcessInv, ReportsOf
      <3>5. \A r, s \in DOMAIN js : r < s => js[r].id < js[s].id
        BY <2>3
      <3>6. js \in Seq(Job)
        BY <2>3
      <3>7. /\ \A i \in Ids : reported[i] # "none" =>
                 reported'[i] = reported[i] /\ procs'[i] = procs[i]
            /\ DOMAIN jobs' = DOMAIN js
            /\ \A r \in DOMAIN js :
                 /\ jobs'[r].id = js[r].id
                 /\ js[r].state # "Queued" => jobs'[r] = js[r]
        BY <3>1, <3>2, <3>3, <3>4, <3>5, <3>6, StartNextProcesses
      <3> QED
        BY <1>k, <2>3, <3>7 DEF FinalStates
    <2> QED
      BY <2>5, <2>6
  <1>2. CASE EnqueueLocalCopy
    <2>1. PICK secret \in BOOLEAN, state \in FinalStates :
            jobs' = Append(jobs, NewJob("none", secret, state))
      BY <1>2 DEF EnqueueLocalCopy
    <2> DEFINE js == Append(jobs, NewJob("none", secret, state))
    <2>2. nextId < MaxJobs /\ reported' = reported
      BY <1>2 DEF EnqueueLocalCopy
    <2>3. /\ \A r \in DOMAIN jobs : r \in DOMAIN js /\ js[r] = jobs[r]
          /\ \A r \in DOMAIN js : r \notin DOMAIN jobs => js[r].id = nextId + 1
      <3>1. "none" \in Programs /\ state \in States \ ActiveStates
        BY DEF Programs, States, ActiveStates, FinalStates
      <3> QED
        BY <1>o, <2>2, <3>1, AppendedJob
    <2>4. jobs' = js
      BY <2>1
    <2> HIDE DEF js
    <2> QED
      BY <1>k, <2>2, <2>3, <2>4
  <1>3. CASE ClearFinished
    <2>1. PICK kept \in Increasing({r \in DOMAIN jobs : jobs[r].state \in KeptStates}, Len(jobs)) :
            jobs' = [a \in DOMAIN kept |-> jobs[kept[a]]]
      BY <1>3 DEF ClearFinished
    <2>2. reported' = reported
      BY <1>3 DEF ClearFinished
    <2>3. \A a \in DOMAIN kept : kept[a] \in DOMAIN jobs
      BY <1>t, KeptRows
    <2>4. \A s \in DOMAIN jobs' : s \in DOMAIN kept /\ jobs'[s] = jobs[kept[s]]
      BY <2>1
    <2> QED
      BY <1>u, <2>2, <2>3, <2>4 DEF OutcomeKept
  <1>4. CASE ClearAll
    BY <1>4 DEF ClearAll, OutcomeKept
  <1>5. ASSUME NEW p \in Ids, ProcessEnds(p)
        PROVE  OutcomeKept
    BY <1>5, EndsOfProcesses
  <1>6. ASSUME UNCHANGED <<jobs, reported>>
        PROVE  OutcomeKept
    BY <1>k, <1>6
  <1>7. CASE SetUseOpenSshBackend \/ Quit
    BY <1>6, <1>7 DEF SetUseOpenSshBackend, Quit
  <1>8. ASSUME NEW p \in Ids, ProcessStarted(p)
        PROVE  OutcomeKept
    BY <1>6, <1>8 DEF ProcessStarted
  <1>9. CASE ConsumeOutput
    <2>1. reported' = reported
      BY <1>9 DEF ConsumeOutput
    <2>2. CASE jobs' = jobs
      BY <1>6, <2>1, <2>2
    <2>3. CASE jobs' = [r \in DOMAIN jobs |->
                          IF r = currentRow THEN [jobs[r] EXCEPT !.state = "Running N%"]
                                            ELSE jobs[r]]
      <3>1. \A r \in DOMAIN jobs : jobs'[r].id = jobs[r].id /\ (r # currentRow => jobs'[r] = jobs[r])
        BY <1>r, <2>3 DEF Job
      <3>2. \A r \in DOMAIN jobs : jobs[r].state \in FinalStates => r # currentRow
        BY <1>o DEF OrderInv, RowIntegrity, ActiveStates, FinalStates
      <3> QED
        BY <1>k, <2>1, <2>3, <3>1, <3>2
    <2> QED
      BY <1>9, <2>2, <2>3 DEF ConsumeOutput
  <1> QED
    BY <1>1, <1>2, <1>3, <1>4, <1>5, <1>7, <1>8, <1>9 DEF Next

\* A signalled outcome is never taken back, and a finished row never changes
\* before it is cleared.
THEOREM OutcomesFinal == SafeSpec => OutcomeFinal
PROOF
  BY ProcessInvariant, OutcomeStep, PTL DEF SafeSpec, OutcomeFinal

-----------------------------------------------------------------------------
(***************************************************************************)
(* TransferQueueModel implements the steps of SerialTransferQueue.         *)
(***************************************************************************)

\* The numbers of the jobs that a list of jobs keeps waiting.
IdsWaitingIn(js) == {js[r].id : r \in Runnable(js)}

\* Looking for the next job serves the oldest job that can be begun.
LEMMA StartNextDispatches ==
  ASSUME NEW js \in Seq(Job), NEW ps, NEW reps, NEW fs, NEW bufs,
         \A r, s \in DOMAIN js : r < s => js[r].id < js[s].id,
         StartNextQueuedTransfer(js, ps, reps, fs, bufs)
  PROVE  Serial!Dispatch(IdsWaitingIn(js))
PROOF
  <1>1. PICK next \in Runnable(js) \cup {NoRow}, wrote \in SUBSET DOMAIN js :
          StartRow(next, wrote, js, ps, reps, fs, bufs)
    BY DEF StartNextQueuedTransfer, Refused, Runnable
  <1>2. /\ Len(js) \in Nat
        /\ DOMAIN js = 1..Len(js)
        /\ \A r \in DOMAIN js : js[r].id \in Nat
        /\ NoRow \notin DOMAIN js
        /\ Runnable(js) \subseteq DOMAIN js
    <2>1. /\ Len(js) \in Nat
          /\ DOMAIN js = 1..Len(js)
          /\ \A r \in DOMAIN js : js[r] \in Job
          /\ NoRow \notin DOMAIN js
          /\ Runnable(js) \subseteq DOMAIN js
      BY RowsOf
    <2>2. \A r \in DOMAIN js : js[r].id \in Nat
      BY <2>1 DEF Job, Ids
    <2> QED
      BY <2>1, <2>2
  <1>3. /\ DOMAIN jobs' = DOMAIN js
        /\ \A r \in DOMAIN js :
             /\ r \in Refused(js, next) => jobs'[r].state = "Failed"
             /\ r = next => jobs'[r].state \in ActiveStates
             /\ r \notin Refused(js, next) \cup {next} => jobs'[r] = js[r]
    BY <1>1, StartRowRows
  <1>4. currentProcess' = IF next = NoRow THEN NoProcess ELSE js[next].id
    BY <1>1 DEF StartRow
  <1>5. ASSUME NEW r
        PROVE  r \in Runnable(jobs') <=> r \in Runnable(js) /\ next # NoRow /\ next < r
    <2>1. CASE r \in Refused(js, next) \cup {next}
      <3>1. r \notin Runnable(jobs')
        BY <1>2, <1>3, <2>1 DEF Runnable, Refused, ActiveStates, NoRow
      <3>2. next = NoRow \/ r = next \/ r < next
        BY <2>1 DEF Refused
      <3>3. next = NoRow \/ next \in Nat
        BY <1>2
      <3>4. r \in Runnable(js) => r \in Nat
        BY <1>2
      <3> QED
        BY <3>1, <3>2, <3>3, <3>4
    <2>2. CASE r \notin Refused(js, next) \cup {next}
      <3>1. r \in Runnable(jobs') <=> r \in Runnable(js)
        BY <1>3, <2>2 DEF Runnable
      <3>2. r \in Runnable(js) => next # NoRow /\ ~(r < next) /\ r # next
        BY <2>2 DEF Refused
      <3> QED
        BY <1>2, <3>1, <3>2
    <2> QED
      BY <2>1, <2>2
  <1>6. \A r \in Runnable(jobs') : r \in DOMAIN js /\ jobs'[r] = js[r]
    BY <1>2, <1>3, <1>5 DEF Refused
  <1>7. CASE next = NoRow
    <2>1. WaitingIds' = {}
      BY <1>5, <1>7 DEF WaitingIds
    <2>2. currentProcess' = Serial!None
      BY <1>4, <1>7 DEF Serial!None, NoProcess
    <2> QED
      BY <2>1, <2>2 DEF Serial!Dispatch
  <1>8. CASE next # NoRow
    <2>1. next \in Runnable(js) /\ currentProcess' = js[next].id
      BY <1>4, <1>8
    <2>2. \A r \in Runnable(js) : next < r <=> js[next].id < js[r].id
      BY <1>2, <2>1
    <2>3. WaitingIds' = {u \in IdsWaitingIn(js) : u > js[next].id}
      BY <1>5, <1>6, <1>8, <2>2, <1>2, <2>1 DEF WaitingIds, IdsWaitingIn
    <2>4. js[next].id \in IdsWaitingIn(js)
      BY <2>1 DEF IdsWaitingIn
    <2> QED
      BY <2>1, <2>3, <2>4 DEF Serial!Dispatch
  <1> QED
    BY <1>7, <1>8

LEMMA SerialInit == Init => Serial!Init
PROOF
  <1> SUFFICES ASSUME Init
               PROVE  Serial!Init
    OBVIOUS
  <1>1. WaitingIds = {}
    BY DEF Init, WaitingIds, Runnable
  <1> QED
    BY <1>1 DEF Init, Serial!Init, Serial!None, NoProcess

LEMMA SerialStep == OrderInv /\ [Next]_vars => [Serial!Next]_(Serial!vars)
PROOF
  <1> SUFFICES ASSUME OrderInv, [Next]_vars
               PROVE  Serial!Next \/ UNCHANGED Serial!vars
    OBVIOUS
  <1>t. TypeOK
    BY DEF OrderInv
  <1>r. /\ Len(jobs) \in Nat
        /\ DOMAIN jobs = 1..Len(jobs)
        /\ \A r \in DOMAIN jobs : jobs[r] \in Job
    BY <1>t, RowsOf DEF TypeOK
  <1>n. Serial!None = NoProcess
    BY DEF Serial!None, NoProcess
  <1>s. ASSUME UNCHANGED <<nextId, currentProcess, app>>, WaitingIds' = WaitingIds
        PROVE  UNCHANGED Serial!vars
    BY <1>s DEF Serial!vars
  <1>1. CASE EnqueueRemoteTransfer
    <2>1. PICK program \in {"cli", "scp"}, secret \in BOOLEAN :
            StartNextIfIdle(Append(jobs, NewJob(program, secret, "Queued")))
      BY <1>1 DEF EnqueueRemoteTransfer
    <2> DEFINE js == Append(jobs, NewJob(program, secret, "Queued"))
    <2>2. nextId < MaxJobs /\ nextId' = nextId + 1 /\ app = "running" /\ app' = app
      BY <1>1 DEF EnqueueRemoteTransfer, UserTurn
    <2>3. /\ js \in Seq(Job)
          /\ DOMAIN js = 1..(Len(jobs) + 1)
          /\ \A r \in DOMAIN jobs : r \in DOMAIN js /\ js[r] = jobs[r]
          /\ \A r, s \in DOMAIN js : r < s => js[r].id < js[s].id
          /\ \A r \in DOMAIN js : js[r].id <= nextId + 1
          /\ \A r \in DOMAIN js : r \notin DOMAIN jobs =>
               js[r].state = "Queued" /\ js[r].id = nextId + 1 /\ js[r].program = program
      <3>1. program \in Programs /\ secret \in BOOLEAN /\ "Queued" \in States \ ActiveStates
        BY <2>1 DEF Programs, States, ActiveStates
      <3> QED
        BY <2>2, <3>1, AppendedJob
    <2>4. StartNextIfIdle(js) /\ program # "none"
      BY <2>1
    <2> HIDE DEF js
    <2>5. IdsWaitingIn(js) = WaitingIds \cup {nextId'}
      <3>1. Len(jobs) + 1 \in DOMAIN js /\ Len(jobs) + 1 \notin DOMAIN jobs
        BY <1>r, <2>3
      <3>2. \A r : r \in Runnable(js) <=> r \in Runnable(jobs) \/ r = Len(jobs) + 1
        BY <1>r, <2>3, <2>4, <3>1 DEF Runnable
      <3>3. \A r \in Runnable(jobs) : js[r].id = jobs[r].id
        BY <2>3 DEF Runnable
      <3>4. js[Len(jobs) + 1].id = nextId'
        BY <2>2, <2>3, <3>1
      <3> QED
        BY <3>2, <3>3, <3>4 DEF IdsWaitingIn, WaitingIds
    <2>6. CASE currentProcess = NoProcess
      <3>1. StartNextQueuedTransfer(js, procs, reported, files, buffered)
        BY <2>4, <2>6 DEF StartNextIfIdle, AlwaysStartNext
      <3>2. Serial!Dispatch(IdsWaitingIn(js))
        BY <2>3, <3>1, StartNextDispatches
      <3>3. Serial!Submit
        BY <1>n, <2>2, <2>5, <2>6, <3>2 DEF Serial!Submit
      <3> QED
        BY <3>3 DEF Serial!Next
    <2>7. CASE currentProcess # NoProcess
      <3>1. jobs' = js /\ UNCHANGED currentProcess
        BY <2>4, <2>7 DEF StartNextIfIdle, NeverStartNext
      <3>2. WaitingIds' = WaitingIds \cup {nextId'}
        BY <2>5, <3>1 DEF IdsWaitingIn, WaitingIds
      <3>3. Serial!Submit
        BY <1>n, <2>2, <2>7, <3>1, <3>2 DEF Serial!Submit
      <3> QED
        BY <3>3 DEF Serial!Next
    <2> QED
      BY <2>6, <2>7
  <1>2. CASE EnqueueLocalCopy
    <2>1. PICK secret \in BOOLEAN, state \in FinalStates :
            jobs' = Append(jobs, NewJob("none", secret, state))
      BY <1>2 DEF EnqueueLocalCopy
    <2> DEFINE js == Append(jobs, NewJob("none", secret, state))
    <2>2. /\ nextId < MaxJobs
          /\ nextId' = nextId + 1
          /\ app = "running"
          /\ UNCHANGED <<currentProcess, app>>
      BY <1>2 DEF EnqueueLocalCopy, UserTurn
    <2>3. /\ \A r \in DOMAIN jobs : r \in DOMAIN js /\ js[r] = jobs[r]
          /\ \A r \in DOMAIN js : r \notin DOMAIN jobs => js[r].state = state
      <3>1. "none" \in Programs /\ state \in States \ ActiveStates
        BY DEF Programs, States, ActiveStates, FinalStates
      <3> QED
        BY <2>2, <3>1, AppendedJob
    <2>4. jobs' = js
      BY <2>1
    <2> HIDE DEF js
    <2>5. Runnable(jobs') = Runnable(jobs) /\ \A r \in Runnable(jobs) : jobs'[r] = jobs[r]
      BY <2>3, <2>4 DEF Runnable, FinalStates
    <2>6. WaitingIds' = WaitingIds
      BY <2>5 DEF WaitingIds
    <2>7. Serial!Immediate
      BY <2>2, <2>6 DEF Serial!Immediate
    <2> QED
      BY <2>7 DEF Serial!Next
  <1>3. CASE ClearFinished
    <2> DEFINE Kept == {r \in DOMAIN jobs : jobs[r].state \in KeptStates}
    <2>1. PICK kept \in Increasing(Kept, Len(jobs)) :
            jobs' = [a \in DOMAIN kept |-> jobs[kept[a]]]
      BY <1>3 DEF ClearFinished
    <2>2. UNCHANGED <<nextId, currentProcess, app>>
      BY <1>3 DEF ClearFinished
    <2>3. \A a \in DOMAIN kept : kept[a] \in DOMAIN jobs
      BY <1>t, <2>1, KeptRows
    <2>4. \A r \in Kept : \E a \in DOMAIN kept : kept[a] = r
      BY <2>1 DEF Increasing
    <2>5. DOMAIN jobs' = DOMAIN kept /\ \A a \in DOMAIN kept : jobs'[a] = jobs[kept[a]]
      BY <2>1
    <2>6. Runnable(jobs) \subseteq Kept
      BY DEF Runnable, KeptStates
    <2> HIDE DEF Kept
    <2>7. \A a \in Runnable(jobs') : kept[a] \in Runnable(jobs) /\ jobs'[a].id = jobs[kept[a]].id
      BY <2>3, <2>5 DEF Runnable
    <2>8. ASSUME NEW r \in Runnable(jobs)
          PROVE  \E a \in Runnable(jobs') : jobs'[a].id = jobs[r].id
      <3>1. PICK a \in DOMAIN kept : kept[a] = r
        BY <2>4, <2>6
      <3> QED
        BY <2>5, <3>1 DEF Runnable
    <2>9. WaitingIds' = WaitingIds
      BY <2>7, <2>8 DEF WaitingIds
    <2> QED
      BY <1>s, <2>2, <2>9
  <1>4. CASE ClearAll
    <2>1. /\ jobs' = <<>>
          /\ currentProcess' = NoProcess
          /\ app = "running"
          /\ UNCHANGED <<nextId, app>>
      BY <1>4 DEF ClearAll, UserTurn
    <2>2. WaitingIds' = {}
      BY <2>1 DEF WaitingIds, Runnable
    <2>3. Serial!Flush
      BY <1>n, <2>1, <2>2 DEF Serial!Flush
    <2> QED
      BY <2>3 DEF Serial!Next
  \* The application ends, or nothing the server knows of happens.
  <1>5. ASSUME UNCHANGED <<jobs, currentProcess, nextId>>, app = "running"
        PROVE  Serial!Next \/ UNCHANGED Serial!vars
    <2>1. WaitingIds' = WaitingIds
      BY <1>5 DEF WaitingIds, Runnable
    <2>2. CASE app' = "running"
      BY <1>5, <1>s, <2>1, <2>2
    <2>3. CASE app' # "running"
      <3>1. Serial!Close
        BY <1>5, <2>1, <2>3 DEF Serial!Close
      <3> QED
        BY <3>1 DEF Serial!Next
    <2> QED
      BY <2>2, <2>3
  <1>6. CASE SetUseOpenSshBackend \/ Quit
    BY <1>5, <1>6 DEF SetUseOpenSshBackend, Quit, UserTurn
  <1>7. ASSUME NEW p \in Ids, ProcessStarted(p)
        PROVE  Serial!Next \/ UNCHANGED Serial!vars
    BY <1>5, <1>7 DEF ProcessStarted
  <1>8. ASSUME NEW ps, NEW ok \in BOOLEAN, NEW bufs, app = "running",
               currentProcess # NoProcess, SettleCurrentRow(ps, ok, bufs),
               UNCHANGED <<nextId, app>>
        PROVE  Serial!Next
    <2> DEFINE js == SettledJobs(ok)
    <2>1. StartNextQueuedTransfer(js, ps, SettledReports(ok), FilesAfterCleanup, bufs)
      BY <1>8 DEF SettleCurrentRow
    <2>2. /\ js \in Seq(Job)
          /\ DOMAIN js = DOMAIN jobs
          /\ \A r \in DOMAIN jobs :
               /\ js[r].id = jobs[r].id
               /\ r = currentRow => js[r].state \in FinalStates
               /\ r # currentRow => js[r] = jobs[r]
      BY <1>t, <1>8, SettledType
    <2>3. \A r, s \in DOMAIN js : r < s => js[r].id < js[s].id
      BY <2>2 DEF OrderInv, Ascending
    <2>4. \A r \in DOMAIN jobs : r = currentRow => jobs[r].state \in ActiveStates
      BY DEF OrderInv, RowIntegrity
    <2> HIDE DEF js
    <2>5. Runnable(js) = Runnable(jobs) /\ \A r \in Runnable(jobs) : js[r].id = jobs[r].id
      BY <2>2, <2>4 DEF Runnable, FinalStates, ActiveStates
    <2>6. IdsWaitingIn(js) = WaitingIds
      BY <2>5 DEF IdsWaitingIn, WaitingIds
    <2>7. Serial!Dispatch(IdsWaitingIn(js))
      BY <2>1, <2>2, <2>3, StartNextDispatches
    <2>8. Serial!End
      BY <1>8, <1>n, <2>6, <2>7 DEF Serial!End
    <2> QED
      BY <2>8 DEF Serial!Next
  <1>9. ASSUME NEW p \in Ids, ProcessFailedToStart(p)
        PROVE  Serial!Next \/ UNCHANGED Serial!vars
    <2>1. app = "running" /\ UNCHANGED <<nextId, app>>
      BY <1>9 DEF ProcessFailedToStart
    <2>2. CASE currentProcess = NoProcess
      BY <1>5, <1>9, <2>1, <2>2 DEF ProcessFailedToStart
    <2>3. CASE currentProcess # NoProcess
      <3>1. SettleCurrentRow([procs EXCEPT ![p] = "unstarted"], FALSE, buffered)
        BY <1>9, <2>3 DEF ProcessFailedToStart
      <3> QED
        BY <1>8, <2>1, <2>3, <3>1
    <2> QED
      BY <2>2, <2>3
  <1>10. ASSUME NEW p \in Ids, NEW how \in {"ok", "bad"}, ProcessFinished(p, how)
         PROVE  Serial!Next \/ UNCHANGED Serial!vars
    <2>1. app = "running" /\ UNCHANGED <<nextId, app>>
      BY <1>10 DEF ProcessFinished
    <2>2. CASE currentProcess = NoProcess
      BY <1>5, <1>10, <2>1, <2>2 DEF ProcessFinished
    <2>3. CASE currentProcess # NoProcess
      <3>1. SettleCurrentRow([procs EXCEPT ![p] = how], Succeeded(how), {})
        BY <1>10, <2>3 DEF ProcessFinished
      <3>2. Succeeded(how) \in BOOLEAN
        BY DEF Succeeded
      <3> QED
        BY <1>8, <2>1, <2>3, <3>1, <3>2
    <2> QED
      BY <2>2, <2>3
  <1>11. CASE ConsumeOutput
    <2>1. UNCHANGED <<nextId, currentProcess, app>>
      BY <1>11 DEF ConsumeOutput
    <2>2. CASE jobs' = jobs
      BY <1>s, <2>1, <2>2 DEF WaitingIds, Runnable
    <2>3. CASE jobs' = [r \in DOMAIN jobs |->
                          IF r = currentRow THEN [jobs[r] EXCEPT !.state = "Running N%"]
                                            ELSE jobs[r]]
      <3>1. /\ DOMAIN jobs' = DOMAIN jobs
            /\ \A r \in DOMAIN jobs : /\ r # currentRow => jobs'[r] = jobs[r]
                                      /\ r = currentRow => jobs'[r].state = "Running N%"
        BY <1>r, <2>3 DEF Job
      <3>2. \A r \in DOMAIN jobs : r = currentRow => jobs[r].state \in ActiveStates
        BY DEF OrderInv, RowIntegrity
      <3>3. Runnable(jobs') = Runnable(jobs) /\ \A r \in Runnable(jobs) : jobs'[r] = jobs[r]
        BY <3>1, <3>2 DEF Runnable, ActiveStates
      <3>4. WaitingIds' = WaitingIds
        BY <3>3 DEF WaitingIds
      <3> QED
        BY <1>s, <2>1, <3>4
    <2> QED
      BY <1>11, <2>2, <2>3 DEF ConsumeOutput
  <1>12. CASE UNCHANGED vars
    BY <1>s, <1>12 DEF vars, WaitingIds, Runnable
  <1> QED
    BY <1>1, <1>2, <1>3, <1>4, <1>6, <1>7, <1>9, <1>10, <1>11, <1>12 DEF Next, ProcessEnds

\* The queue is a first-come first-served server of one transfer at a time that
\* is never idle while a transfer waits.
THEOREM QueueIsSerial == SafeSpec => StepsAreSerial
PROOF
  BY OrderInvariant, SerialInit, SerialStep, PTL DEF SafeSpec, StepsAreSerial, Serial!SafeSpec
=============================================================================
