----------------------------- MODULE ScpUpload ------------------------------
(***************************************************************************)
(* ScpAdapter::upload_file_with_progress: one file, whose size is told to  *)
(* the server before it is opened and read, while another program changes  *)
(* it. The server empties the file when the size is told, stores no more   *)
(* than that, and may fail to store: no status of it is read.              *)
(***************************************************************************)
EXTENDS Naturals, Sequences

CONSTANTS
  Contents, \* of the local file, sequences of bytes
  Before,   \* of the remote file: contents, or NoFile
  NoFile, Directory

VARIABLES
  path, handle,  \* what the name leads to, and the file that is open
  remote, step, total, done, result,
  changed, full  \* the local file was changed; the server has failed to store

vars == <<path, handle, remote, step, total, done, result, changed, full>>

IsFile(x) == x \notin {NoFile, Directory}

Init ==
  /\ path \in Contents \cup {NoFile, Directory} /\ remote \in Before \cup {NoFile}
  /\ handle = NoFile /\ step = "stat" /\ total = 0 /\ done = 0 /\ result = "none"
  /\ changed = FALSE /\ full = FALSE

Fail == step' = "end" /\ result' = "error"

Stat ==
  /\ step = "stat"
  /\ IF IsFile(path) THEN step' = "send" /\ total' = Len(path) /\ result' = result
                     ELSE Fail /\ total' = total
  /\ UNCHANGED <<path, handle, remote, done, changed, full>>
ScpSend ==
  /\ step = "send" /\ remote' = <<>> /\ step' = "open"
  /\ UNCHANGED <<path, handle, total, done, result, changed, full>>
OpenLocal ==
  /\ step = "open"
  /\ IF IsFile(path) THEN handle' = path /\ step' = "copy" /\ result' = result
                     ELSE Fail /\ handle' = handle
  /\ UNCHANGED <<path, remote, total, done, changed, full>>

Stored(r, byte) == IF full \/ Len(r) >= total THEN r ELSE Append(r, byte)
CopyWithProgress ==
  /\ step = "copy"
  /\ IF done < Len(handle)
       THEN done' = done + 1 /\ remote' = Stored(remote, handle[done + 1]) /\ step' = step
       ELSE step' = "close" /\ UNCHANGED <<done, remote>>
  /\ UNCHANGED <<path, handle, total, result, changed, full>>
CloseChannel ==
  /\ step = "close" /\ step' = "end" /\ result' = "ok"
  /\ UNCHANGED <<path, handle, remote, total, done, changed, full>>
CallFails ==
  /\ step \notin {"stat", "end"} /\ Fail
  /\ UNCHANGED <<path, handle, remote, total, done, changed, full>>

\* Another program: writes to the file in place, or puts another one there.
Other ==
  /\ step # "end" /\ ~changed /\ changed' = TRUE
  /\ \E c \in Contents \cup {NoFile} :
       /\ path' = c
       /\ handle' \in {handle} \cup (IF IsFile(handle) /\ IsFile(c) THEN {c} ELSE {})
  /\ UNCHANGED <<remote, step, total, done, result, full>>
ServerFails ==
  /\ step \in {"open", "copy"} /\ ~full /\ full' = TRUE
  /\ UNCHANGED <<path, handle, remote, step, total, done, result, changed>>
Stopped == step = "end" /\ UNCHANGED vars

Next ==
  Stat \/ ScpSend \/ OpenLocal \/ CopyWithProgress \/ CloseChannel \/ CallFails \/ Other
    \/ ServerFails \/ Stopped

Spec == Init /\ [][Next]_vars

\* Every variable has its type; the server has no more than it was told of.
TypeOK ==
  /\ step \in {"stat", "send", "open", "copy", "close", "end"}
  /\ total \in Nat /\ done \in Nat /\ changed \in BOOLEAN /\ full \in BOOLEAN
  /\ step \in {"copy", "close"} => IsFile(remote) /\ Len(remote) <= total

\* A completed upload has left the local file on the server, byte by byte,
\* unless that was changed meanwhile, or the server could not store it.
CompletedIsWhole == result = "ok" /\ ~changed /\ ~full => remote = path

\* What cannot be uploaded (a directory, nothing) never reaches the server: an
\* upload touches a file there only once it has seen a local one.
OnlyFilesAreSent == step = "end" /\ path = Directory => remote \in Before \cup {NoFile}

\* Whatever happens, the server's file holds no mixture of old and new: as far
\* as the local file stayed as it was, what is there is its beginning.
NoMixture == step \notin {"stat", "send"} /\ ~changed /\ IsFile(path) /\ done > 0 =>
  \E n \in 0..Len(path) : remote = SubSeq(path, 1, n)
=============================================================================
