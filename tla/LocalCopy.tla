----------------------------- MODULE LocalCopy ------------------------------
(***************************************************************************)
(* crates/crossscp-transfer/src/lib.rs, TransferQueue, and the executor of *)
(* crates/crossscp-protocol-local/src/lib.rs that takes the first queued   *)
(* job and copies a file, one call of the file system per step, while      *)
(* another program changes the files.                                      *)
(***************************************************************************)
EXTENDS Naturals, Sequences, SequencesExt, Selection

CONSTANTS
  Requests,  \* [direction, mode, source, destination, create]: jobs, their mode
             \* "ask", "always", "never", "if_newer" or "resume"
  Paths,     \* [dir, name]: files
  TopDir,    \* the directory that is always there
  Files,     \* files to start from: [bytes, modified] by path
  Writes,    \* what the other program writes
  MaxJobs,   \* bound: jobs that are queued
  MaxOthers  \* bound: what the other program does

VARIABLES
  queue, nextId,
  files, dirs,   \* the files, and the directories they may be in
  step, run,     \* the executor: its next call, and what it has read
  others, before \* what others did, and the files, when the job was started

vars == <<queue, nextId, files, dirs, step, run, others, before>>

Unknown == 0   \* a time of modification that the file system does not tell
Now == 3       \* the time of what is written
Done == {"completed", "failed", "cancelled"}
NoFile == [bytes |-> <<>>, modified |-> Unknown, there |-> FALSE]
File(bytes, time) == [bytes |-> bytes, modified |-> time, there |-> TRUE]
At(fs, p) == IF p \in DOMAIN fs THEN fs[p] ELSE NoFile
With(fs, p, f) == [x \in DOMAIN fs \cup {p} |-> IF x = p THEN f ELSE fs[x]]

Idle == [id |-> 0, source |-> NoFile, destination |-> NoFile, held |-> <<>>]

Init ==
  /\ queue = <<>> /\ nextId = 1
  /\ files \in Files /\ dirs = {TopDir}
  /\ step = "idle" /\ run = Idle /\ others = 0 /\ before = <<>>

-----------------------------------------------------------------------------
(* TransferQueue                                                           *)

Fs == <<files, dirs>>

Enqueue(request) ==
  /\ nextId <= MaxJobs /\ nextId' = nextId + 1
  /\ queue' = Append(queue, [id |-> nextId, request |-> request, state |-> "queued"])
  /\ UNCHANGED <<Fs, step, run, others, before>>

Where(id) == CHOOSE i \in DOMAIN queue : queue[i].id = id
SetState(id, state) == queue' = [queue EXCEPT ![Where(id)].state = state]

\* The owner of the queue holds a job back, lets it go on, or cancels it.
SetByOwner(id, state) ==
  /\ step = "idle" /\ queue[Where(id)].state \in {"queued", "paused"}
  /\ SetState(id, state)
  /\ UNCHANGED <<nextId, Fs, step, run, others, before>>

RemoveFinished ==
  /\ step = "idle"
  /\ queue' = Select(queue, {job \in ToSet(queue) : job.state \notin Done})
  /\ queue' # queue
  /\ UNCHANGED <<nextId, Fs, step, run, others, before>>

Queued == {i \in DOMAIN queue : queue[i].state = "queued"}

NextQueued == CHOOSE i \in Queued : \A j \in Queued : i <= j

StartNext ==
  /\ step = "idle" /\ Queued # {}
  /\ queue' = [queue EXCEPT ![NextQueued].state = "running"]
  /\ run' = [Idle EXCEPT !.id = queue[NextQueued].id]
  /\ step' = "stat_source" /\ others' = 0 /\ before' = files
  /\ UNCHANGED <<nextId, Fs>>

-----------------------------------------------------------------------------
(* execute_local_copy_job_with_prompt                                      *)

Job == queue[Where(run.id)].request
Source == At(files, Job.source)
Destination == At(files, Job.destination)

GoOn(next) == step' = next /\ UNCHANGED <<queue, nextId, others, before>>

Settle(state) ==
  /\ SetState(run.id, state)
  /\ step' = "idle" /\ run' = Idle /\ others' = 0 /\ before' = <<>>
  /\ UNCHANGED nextId

\* Any of the calls fails; a directory in the place of a file is one reason.
CallFails == step \notin {"idle", "prompt"} /\ Settle("failed") /\ UNCHANGED Fs

\* The executor takes every job, and fails those that are not local copies.
RefuseRemote ==
  /\ step = "stat_source" /\ Job.direction # "local_copy"
  /\ Settle("failed") /\ UNCHANGED Fs

StatSource ==
  /\ step = "stat_source" /\ Job.direction = "local_copy" /\ Source.there
  /\ run' = [run EXCEPT !.source = Source]
  /\ GoOn("stat_destination") /\ UNCHANGED Fs

\* exists, and then its metadata: of nothing that is removed between.
StatDestination ==
  /\ step = "stat_destination"
  /\ run' = [run EXCEPT !.destination = Destination]
  /\ GoOn(IF Job.create THEN "mkdir" ELSE "decide") /\ UNCHANGED Fs

MakeParents ==
  /\ step = "mkdir" /\ dirs' = dirs \cup {Job.destination.dir}
  /\ GoOn("decide") /\ UNCHANGED <<files, run>>

DecideOverwrite(mode, source, destination) ==
  CASE ~destination.there -> "copy"
    [] destination.there /\ mode = "ask" -> "prompt"
    [] destination.there /\ mode = "always" -> "copy"
    [] destination.there /\ mode = "never" -> "skip"
    [] destination.there /\ mode = "if_newer" ->
         IF Unknown \in {source.modified, destination.modified} THEN "unsupported"
         ELSE IF source.modified > destination.modified THEN "copy" ELSE "skip"
    [] destination.there /\ mode = "resume" ->
         IF Len(destination.bytes) < Len(source.bytes) THEN "resume"
         ELSE IF Len(destination.bytes) = Len(source.bytes) THEN "skip" ELSE "unsupported"

Decide ==
  /\ step = "decide"
  /\ LET decision == DecideOverwrite(Job.mode, run.source, run.destination) IN
       CASE decision = "skip" -> Settle("completed")
         [] decision = "unsupported" -> Settle("failed")
         [] decision \notin {"skip", "unsupported"} -> GoOn(decision) /\ UNCHANGED run
  /\ UNCHANGED Fs

\* Accept, or AcceptAll, or RememberAccepted; Reject, or RejectAll; Cancel, or
\* there is no broker.
Answer(response) ==
  /\ step = "prompt"
  /\ CASE response = "accept" -> GoOn("copy") /\ UNCHANGED run
       [] response = "reject" -> Settle("completed")
       [] response = "cancel" -> Settle("failed")
  /\ UNCHANGED Fs

Writable == Job.destination.dir \in dirs

\* fs::copy opens the source, and creates or empties the destination.
OpenCopy ==
  /\ step = "copy" /\ Source.there /\ Writable
  /\ files' = With(files, Job.destination, File(<<>>, Now))
  /\ run' = [run EXCEPT !.held = At(files', Job.source).bytes]
  /\ GoOn("fill") /\ UNCHANGED dirs

\* It goes on with the two files it holds: another program may write to the
\* source in its place, or put a file in the place of either of them.
Fill ==
  /\ step = "fill"
  /\ \E bytes \in {run.held, Source.bytes} :
       /\ bytes # run.held => Source.there
       /\ \/ Destination.there /\ files' = With(files, Job.destination, File(bytes, Now))
          \/ Destination # File(<<>>, Now) /\ files' = files
  /\ Settle("completed") /\ UNCHANGED dirs

\* Faulty variant of Resume: all of the source is appended.
ResumeAll ==
  /\ step = "resume" /\ Source.there /\ Destination.there
  /\ files' = With(files, Job.destination, File(Destination.bytes \o Source.bytes, Now))
  /\ Settle("completed") /\ UNCHANGED dirs

\* resume_copy: what is behind the size that the destination had is appended.
Resume ==
  /\ step = "resume" /\ Source.there /\ Destination.there
  /\ LET rest == SubSeq(Source.bytes, Len(run.destination.bytes) + 1, Len(Source.bytes))
     IN files' = With(files, Job.destination, File(Destination.bytes \o rest, Now))
  /\ Settle("completed") /\ UNCHANGED dirs

-----------------------------------------------------------------------------

Other ==
  /\ step # "idle" /\ others < MaxOthers /\ others' = others + 1
  /\ \E p \in Paths :
       \/ p.dir \in dirs /\ \E w \in Writes : files' = With(files, p, w)
       \/ p \in DOMAIN files /\ files' = [x \in DOMAIN files \ {p} |-> files[x]]
  /\ UNCHANGED <<queue, nextId, dirs, step, run, before>>

Next ==
  \/ \E request \in Requests : Enqueue(request)
  \/ \E i \in DOMAIN queue, state \in {"queued", "paused", "cancelled"} : SetByOwner(queue[i].id, state)
  \/ RemoveFinished \/ StartNext
  \/ CallFails \/ RefuseRemote \/ StatSource \/ StatDestination \/ MakeParents \/ Decide
  \/ \E response \in {"accept", "reject", "cancel"} : Answer(response)
  \/ OpenCopy \/ Fill \/ Resume
  \/ Other

Spec == Init /\ [][Next]_vars

-----------------------------------------------------------------------------

\* The variables have their types, and no two jobs have one number.
TypeOK ==
  /\ \A i, j \in DOMAIN queue : i < j => queue[i].id < queue[j].id
  /\ \A i \in DOMAIN queue :
       queue[i].id \in 1..nextId - 1 /\ queue[i].state \in Done \cup {"queued", "paused", "running"}
  /\ DOMAIN files \subseteq Paths /\ TopDir \in dirs

\* Exactly the job the executor is at is running: whatever fails, a job that
\* was started is completed or failed when the executor returns.
RunningIsExecuted ==
  \A i \in DOMAIN queue :
    queue[i].state = "running" <=> step # "idle" /\ queue[i].id = run.id

\* Jobs are started in the order they were queued in, but for those that the
\* owner holds back.
StartsFirstQueued ==
  [][\A i \in DOMAIN queue :
       i \in DOMAIN queue' /\ queue[i].state = "queued" /\ queue'[i].state = "running" =>
         \A j \in 1..i - 1 : queue[j].state # "queued"]_vars

Was(p) == At(before, p)

\* The files a completed job leaves, if no other program interferes: a skipped
\* destination is as it was, a copied one is the source, and one that held the
\* beginning of the source is the source after it was resumed.
CompletedKeepsPromise ==
  [][\A i \in DOMAIN queue :
       LET job == queue[i].request
           from == Was(job.source).bytes
           old == Was(job.destination)
           new == At(files', job.destination).bytes
       IN queue[i].state = "running" /\ queue'[i].state = "completed" /\ others = 0 /\ job.source # job.destination =>
            /\ job.direction = "local_copy"
            /\ At(files', job.source) = Was(job.source)
            /\ ~old.there \/ job.mode = "always" => new = from
            /\ old.there /\ job.mode = "never" => new = old.bytes
            /\ old.there /\ job.mode = "ask" => new \in {from, old.bytes}
            /\ old.there /\ job.mode = "if_newer" =>
                 new = IF Was(job.source).modified > old.modified THEN from ELSE old.bytes
            /\ old.there /\ job.mode = "resume" /\ IsPrefix(old.bytes, from) => new = from]_vars

\* A file is "skipped when the destination exists and never overwrite".
NeverOverwrites ==
  [][step # "idle" /\ Job.mode = "never" /\ others' = others /\ Destination.there =>
       At(files', Job.destination) = Destination]_vars

\* A copy leaves its source as it is.
SourceKept ==
  [][step # "idle" /\ others' = others => At(files', Job.source) = Source]_vars
=============================================================================
