---------------------------- MODULE SessionStore ----------------------------
(***************************************************************************)
(* crates/crossscp-config/src/lib.rs: FileSessionStore.  Every process has *)
(* its own copy of the profiles, read when it opens the store; every       *)
(* change rewrites the whole file in place: fs::write truncates it and     *)
(* then writes.  Writes fail and processes die between any two steps.  A   *)
(* file is the sequence of its lines (their text: see RecordLines).        *)
(***************************************************************************)
EXTENDS Naturals, Sequences, Selection

CONSTANTS
  Processes,
  Order,      \* the names of profiles, in the order of the map
  Blank,      \* those of nothing but spaces
  Hashed,     \* those that start with "#"
  Profiles,   \* [name, protocol, host, port, cred]: profiles that are saved
  MaxOps      \* bound: calls of save and remove

VARIABLES
  file,     \* [there, lines]
  pc,       \* what each process is about to do
  memory,   \* its copy: profiles by name
  ops,
  synced,   \* the processes whose copy is what they have last read or written
  saved,    \* every profile that was ever given to save
  expected, \* what the calls up to the last successful one add up to
  mishaps   \* "overlap": two had the store open at once; "cut": a write broke off

vars == <<file, pc, memory, ops, synced, saved, expected, mishaps>>
ghosts == <<synced, saved, expected, mishaps>>

NoProfiles == <<>>
Put(profiles, q) == [n \in DOMAIN profiles \cup {q.name} |-> IF n = q.name THEN q ELSE profiles[n]]
Drop(profiles, name) == [n \in DOMAIN profiles \ {name} |-> profiles[n]]

\* Every protocol but the local one needs a host, those with a port a port.
Validates(q) ==
  /\ q.name \notin Blank
  /\ q.protocol \in {"sftp", "scp", "ftp", "ftps"} => q.host # "" /\ q.port # "none"
  /\ q.protocol \in {"webdav", "s3"} => q.host # ""

\* A line as it is read: "whole" has all its fields, "cut" has not.
Whole(q) == [of |-> q, kind |-> "whole"]
CutShort(q) == [of |-> q, kind |-> "cut"]

Render(profiles) ==
  LET names == Select(Order, DOMAIN profiles)
  IN [i \in DOMAIN names |-> Whole(profiles[names[i]])]

IsComment(line) == line.of.name \in Hashed
Read(lines) == {lines[i] : i \in {j \in DOMAIN lines : ~IsComment(lines[j])}}

ParseFails(lines) == \E line \in Read(lines) : line.kind = "cut" \/ ~Validates(line.of)

Parse(lines) ==
  [n \in {line.of.name : line \in Read(lines)} |->
     LET last == CHOOSE i \in DOMAIN lines :
                   /\ lines[i].of.name = n
                   /\ \A j \in i + 1..Len(lines) : lines[j].of.name # n
     IN lines[last].of]

Init ==
  /\ file = [there |-> FALSE, lines |-> <<>>]
  /\ pc = [p \in Processes |-> "closed"]
  /\ memory = [p \in Processes |-> NoProfiles]
  /\ ops = 0 /\ synced = {} /\ saved = {} /\ expected = NoProfiles /\ mishaps = {}

-----------------------------------------------------------------------------

Goes(p, step) == pc' = [pc EXCEPT ![p] = step]

Open(p) ==
  /\ pc[p] = "closed" /\ ~ParseFails(file.lines)
  /\ memory' = [memory EXCEPT ![p] = Parse(file.lines)]
  /\ Goes(p, "open") /\ synced' = synced \cup {p}
  /\ mishaps' = IF \E o \in Processes : pc[o] # "closed" THEN mishaps \cup {"overlap"} ELSE mishaps
  /\ UNCHANGED <<file, ops, saved, expected>>

\* The end of the process, or its death.
Close(p) ==
  /\ pc[p] # "closed"
  /\ Goes(p, "closed") /\ memory' = [memory EXCEPT ![p] = NoProfiles]
  /\ synced' = synced \ {p}
  /\ mishaps' = IF pc[p] = "write" THEN mishaps \cup {"cut"} ELSE mishaps
  /\ UNCHANGED <<file, ops, saved, expected>>

Call(p) == pc[p] = "open" /\ ops < MaxOps /\ ops' = ops + 1 /\ UNCHANGED <<file, mishaps>>

SaveInvalid(p, q) ==
  /\ Call(p) /\ ~Validates(q)
  /\ UNCHANGED <<pc, memory, synced, saved, expected>>

Save(p, q) ==
  /\ Call(p) /\ Validates(q)
  /\ memory' = [memory EXCEPT ![p] = Put(@, q)]
  /\ Goes(p, "flush") /\ synced' = synced \ {p}
  /\ saved' = saved \cup {q}
  /\ UNCHANGED expected

Forget(p, name) ==
  /\ Call(p) /\ name \in DOMAIN memory[p]
  /\ memory' = [memory EXCEPT ![p] = Drop(@, name)]
  /\ Goes(p, "flush") /\ synced' = synced \ {p}
  /\ UNCHANGED <<saved, expected>>

ForgetMissing(p, name) ==
  /\ Call(p) /\ name \notin DOMAIN memory[p]
  /\ UNCHANGED <<pc, memory, synced, saved, expected>>

\* create_dir_all, or opening the file, fails: the change stays in memory.
FlushFails(p) ==
  /\ pc[p] = "flush" /\ Goes(p, "open")
  /\ UNCHANGED <<file, memory, ops, ghosts>>

Truncate(p) ==
  /\ pc[p] = "flush" /\ Goes(p, "write")
  /\ file' = [there |-> TRUE, lines |-> <<>>]
  /\ synced' = {}
  /\ UNCHANGED <<memory, ops, saved, expected, mishaps>>

\* What another process wrote after the truncation and beyond the end of the
\* text that is written now; its first line is whole, or lost its beginning and
\* with it fields.
Tails(old, new) ==
  {<<>>} \cup
  UNION {{SubSeq(old, k, Len(old)), <<CutShort(old[k].of)>> \o SubSeq(old, k + 1, Len(old))} :
           k \in DOMAIN old}

\* Faulty variant of Write: without the profile that sorts last.
WriteAllButLast(p) ==
  /\ pc[p] = "write" /\ Goes(p, "open")
  /\ LET new == Render(memory[p]) IN
       file' = [file EXCEPT !.lines = IF Len(new) > 1 THEN SubSeq(new, 1, Len(new) - 1) ELSE new]
  /\ synced' = {p}
  /\ expected' = memory[p]
  /\ UNCHANGED <<memory, ops, saved, mishaps>>

Write(p) ==
  /\ pc[p] = "write" /\ Goes(p, "open")
  /\ LET new == Render(memory[p]) IN
     \E tail \in IF file.lines = <<>> THEN {<<>>} ELSE Tails(file.lines, new) :
       /\ file' = [file EXCEPT !.lines = new \o tail]
       /\ synced' = IF tail = <<>> THEN {p} ELSE {}
  /\ expected' = memory[p]
  /\ UNCHANGED <<memory, ops, saved, mishaps>>

\* What a write that breaks off leaves of a line: nothing, a line with fields
\* missing, or one whose last field is shorter.
Rests(line) ==
  {<<>>, <<CutShort(line.of)>>} \cup
  {<<Whole([line.of EXCEPT !.cred = c])>> : c \in 0..line.of.cred}

\* Part of the text is written, and the call fails (over nothing: what is left
\* of two texts is not followed further).
WriteBreaks(p) ==
  /\ pc[p] = "write" /\ file.lines = <<>> /\ Goes(p, "open")
  /\ LET new == Render(memory[p]) IN
     \E k \in 1..Len(new) : \E rest \in Rests(new[k]) :
       file' = [file EXCEPT !.lines = SubSeq(new, 1, k - 1) \o rest]
  /\ mishaps' = mishaps \cup {"cut"} /\ synced' = {}
  /\ UNCHANGED <<memory, ops, saved, expected>>

Next ==
  \E p \in Processes :
    \/ Open(p) \/ Close(p) \/ FlushFails(p) \/ Truncate(p) \/ Write(p) \/ WriteBreaks(p)
    \/ \E q \in Profiles : Save(p, q) \/ SaveInvalid(p, q) \/ Forget(p, q.name) \/ ForgetMissing(p, q.name)

Spec == Init /\ [][Next]_vars

-----------------------------------------------------------------------------

\* The variables have their types, and no profile in memory has a blank name.
TypeOK ==
  /\ pc \in [Processes -> {"closed", "open", "flush", "write"}]
  /\ \A p \in Processes : \A n \in DOMAIN memory[p] :
       memory[p][n].name = n /\ n \notin Blank
  /\ synced \subseteq Processes /\ ops \in 0..MaxOps
  /\ mishaps \subseteq {"overlap", "cut"}

NoneHashed == \A q \in saved : q.name \notin Hashed

\* A process that has opened the store, or whose last call succeeded, and
\* nobody wrote since: opening the file again gives what it has in memory, also
\* what was left behind by an earlier call that failed.
SyncedIsOnDisk ==
  \A p \in synced : pc[p] = "open" /\ NoneHashed =>
    ~ParseFails(file.lines) /\ Parse(file.lines) = memory[p]

\* As long as no two processes had the store open at once and no write broke
\* off, the file is readable and holds what the calls so far add up to.
NothingLostWithoutMishap ==
  mishaps = {} /\ NoneHashed /\ (\A p \in Processes : pc[p] # "write") =>
    ~ParseFails(file.lines) /\ Parse(file.lines) = expected

\* Whatever broke off: what the file holds was given to save, but for the end
\* of a credential reference.
NothingInvented ==
  \A line \in Read(file.lines) : line.kind = "whole" =>
    \E q \in saved : line.of = [q EXCEPT !.cred = line.of.cred] /\ line.of.cred <= q.cred

\* What a successful call has saved is there after the file is opened again.
PersistsAcrossReopen ==
  \A p \in synced : pc[p] = "open" => DOMAIN Parse(file.lines) = DOMAIN memory[p]
=============================================================================
