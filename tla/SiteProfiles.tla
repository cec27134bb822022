---------------------------- MODULE SiteProfiles ----------------------------
(***************************************************************************)
(* The saved sites of the GUI (AppBackend::listSites,                      *)
(* saveSiteConfiguration, saveSite and deleteSite): a file of full         *)
(* profiles, one line of JSON each, which the GUI rewrites in place, and   *)
(* the older session store, which it reaches by the session-... commands.  *)
(* The disk may fill up, a file may fail to open, and the program may      *)
(* crash between any two steps. Module SessionStore has the older store.   *)
(***************************************************************************)
EXTENDS Naturals, Sequences, SequencesExt, Selection

CONSTANTS
  Names, Data, \* of sites
  MaxCalls     \* bound: calls

VARIABLES
  full, legacy,        \* the lines of the file, and the sessions: [name -> data]
  step, call, buffer,  \* the call under way, and the lines it is going to write
  dropped, result,     \* a line of this name was dropped; what the last call returned
  calls, mishap,       \* bound; something has failed or crashed
  before,              \* the lines when the last call began
  saved, ever          \* the sites as saved and deleted, and whatever was ever saved

disk == <<full, legacy>>
work == <<step, call, buffer, dropped, result>>
history == <<calls, mishap, before, saved, ever>>
vars == <<disk, work, history>>

Junk == [name |-> "junk", data |-> "junk"]   \* the beginning of a line
NoCall == [op |-> "none", name |-> "none", data |-> "none"]
Line(n, d) == [name |-> n, data |-> d]
Others(lines, n) == Select(lines, {l \in ToSet(lines) : l.name # n})
Known(lines) == {lines[i].name : i \in DOMAIN lines}
Put(f, n, d) == [x \in DOMAIN f \cup {n} |-> IF x = n THEN d ELSE f[x]]
Without(f, n) == [x \in DOMAIN f \ {n} |-> f[x]]

SessionList == {Line(n, legacy[n]) : n \in DOMAIN legacy}
ListSites ==
  full \o SetToSeq({l \in SessionList : l.name \notin Known(full)})

Init ==
  /\ full = <<>> /\ \E ns \in SUBSET Names : legacy \in [ns -> Data]
  /\ step = "idle" /\ call = NoCall /\ buffer = <<>> /\ dropped = FALSE /\ result = "none"
  /\ calls = 0 /\ mishap = FALSE /\ before = <<>>
  /\ saved = legacy /\ ever = {Line(n, legacy[n]) : n \in DOMAIN legacy}

Begin(c) ==
  /\ step = "idle" /\ calls < MaxCalls
  /\ calls' = calls + 1 /\ call' = c /\ step' = "read" /\ dropped' = FALSE /\ result' = "none"
  /\ ever' = IF c.op = "save" THEN ever \cup {Line(c.name, c.data)} ELSE ever
  /\ before' = full
  /\ UNCHANGED <<disk, buffer, mishap, saved>>

Return(value) == result' = value /\ step' = "idle" /\ buffer' = <<>>

\* saveSiteConfiguration and deleteSite read the whole file. If it does not
\* open, save goes on with no lines, and delete leaves it alone.
\* Faulty variant of Read: the line of the same name stays.
ReadAll ==
  /\ step = "read"
  /\ buffer' = (IF call.op = "save" THEN Append(full, Line(call.name, call.data)) ELSE full)
  /\ dropped' = (call.name \in Known(full)) /\ step' = "truncate"
  /\ UNCHANGED <<disk, call, result, history>>
Read ==
  /\ step = "read"
  /\ LET rest == Others(full, call.name)
     IN buffer' = IF call.op = "save" THEN Append(rest, Line(call.name, call.data)) ELSE rest
  /\ dropped' = (call.name \in Known(full)) /\ step' = "truncate"
  /\ UNCHANGED <<disk, call, result, history>>
ReadFails ==
  /\ step = "read" /\ mishap' = TRUE
  /\ IF call.op = "save" THEN buffer' = <<Line(call.name, call.data)>> /\ step' = "truncate"
                         ELSE buffer' = buffer /\ step' = "older"
  /\ UNCHANGED <<disk, call, dropped, result, calls, before, saved, ever>>

\* If it does not open for writing, save fails, and delete goes on.
Truncate ==
  /\ step = "truncate"
  /\ \/ full' = <<>> /\ step' = "write" /\ UNCHANGED <<result, buffer, mishap>>
     \/ mishap' = TRUE /\ full' = full /\ call.op = "save" /\ Return("false")
     \/ /\ mishap' = TRUE /\ full' = full /\ call.op = "delete" /\ step' = "older"
        /\ UNCHANGED <<result, buffer>>
  /\ UNCHANGED <<legacy, call, dropped, calls, before, saved, ever>>

\* What a full disk leaves: whole lines and the beginning of one.
Cut(lines) ==
  {SubSeq(lines, 1, n) : n \in 0..Len(lines)}
    \cup {Append(SubSeq(lines, 1, n), Junk) : n \in 0..(Len(lines) - 1)}
\* The result of writing is not looked at.
Write ==
  /\ step = "write"
  /\ full' \in Cut(buffer)
  /\ mishap' = (mishap \/ full' # buffer)
  /\ IF call.op = "save"
       THEN Return("true") /\ saved' = Put(saved, call.name, call.data)
       ELSE step' = "older" /\ UNCHANGED <<result, buffer, saved>>
  /\ UNCHANGED <<legacy, call, dropped, calls, before, ever>>

\* deleteSite: session-delete. That there was no such session is no failure.
SessionDelete ==
  /\ step = "older"
  /\ legacy' = Without(legacy, call.name) /\ saved' = Without(saved, call.name)
  /\ Return("true")
  /\ UNCHANGED <<full, call, dropped, calls, mishap, before, ever>>
SessionDeleteFails ==
  /\ step = "older" /\ mishap' = TRUE
  /\ Return(IF dropped THEN "true" ELSE "false")
  /\ UNCHANGED <<disk, call, dropped, calls, before, saved, ever>>

\* session-save, by saveSite or from a shell, of a site without a full profile.
SessionSave(n, d) ==
  /\ step = "idle" /\ calls < MaxCalls /\ n \notin Known(full)
  /\ calls' = calls + 1 /\ legacy' = Put(legacy, n, d) /\ saved' = Put(saved, n, d)
  /\ ever' = ever \cup {Line(n, d)} /\ result' = "true" /\ call' = NoCall
  /\ UNCHANGED <<full, step, buffer, dropped, mishap, before>>

Crash ==
  /\ step # "idle" /\ mishap' = TRUE
  /\ full' \in (IF step = "write" THEN Cut(buffer) ELSE {full})
  /\ step' = "idle" /\ call' = NoCall /\ buffer' = <<>> /\ dropped' = FALSE /\ result' = "crashed"
  /\ UNCHANGED <<legacy, calls, before, saved, ever>>

Calls ==
  {[op |-> "save", name |-> n, data |-> d] : n \in Names, d \in Data}
    \cup {[op |-> "delete", name |-> n, data |-> "none"] : n \in Names}
Next ==
  \/ \E c \in Calls : Begin(c)
  \/ Read \/ ReadFails \/ Truncate \/ Write \/ SessionDelete \/ SessionDeleteFails
  \/ \E n \in Names, d \in Data : SessionSave(n, d)
  \/ Crash

Spec == Init /\ [][Next]_vars

-----------------------------------------------------------------------------
(* Properties                                                              *)

Shown == ToSet(ListSites)

\* Every variable has its type.
TypeOK ==
  /\ ToSet(full) \cup ToSet(buffer) \subseteq ever \cup {Junk}
  /\ DOMAIN legacy \subseteq Names /\ DOMAIN saved \subseteq Names
  /\ step \in {"idle", "read", "truncate", "write", "older"}
  /\ result \in {"none", "true", "false", "crashed"} /\ dropped \in BOOLEAN

\* As long as nothing fails, the list shows every site that was saved and not
\* deleted since, as it was saved last, and nothing else: the two stores act as one.
ListIsWhatWasSaved ==
  ~mishap /\ step = "idle" => Shown = {Line(n, saved[n]) : n \in DOMAIN saved}

\* Whatever fails, no site is shown twice.
ShownOnce ==
  \A i, j \in DOMAIN ListSites :
    ListSites[i].name = ListSites[j].name /\ ListSites[i] # Junk => i = j

\* A delete that reports failure has spared the full profile, also when the
\* file did not open, and a full profile it took away makes it no failure.
FailedDeleteKeepsIt ==
  call.op = "delete" /\ step = "idle" /\ result = "false" =>
    \A l \in ToSet(before) : l.name = call.name => l \in ToSet(full)

\* A save that reports failure has left every full profile as it was: the file
\* is only emptied by a save that will report success.
FailedSaveChangesNothing ==
  call.op = "save" /\ step = "idle" /\ result = "false" => full = before

\* The status of a delete that reports success, "Deleted full profile '%1'" or
\* "Deleted site '%1' ...". It does not hold: the file may not have opened.
DeletedIsGone ==
  call.op = "delete" /\ step = "idle" /\ result = "true" =>
    \A l \in Shown : l.name # call.name
=============================================================================
