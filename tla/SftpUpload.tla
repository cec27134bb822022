----------------------------- MODULE SftpUpload -----------------------------
(***************************************************************************)
(* crates/crossscp-protocol-sftp/src/ssh2_backend.rs: an upload of a file  *)
(* or of a directory under a conflict policy, one remote call per step,    *)
(* while another client of the server creates and removes entries.         *)
(***************************************************************************)
EXTENDS Trees

CONSTANTS
  Policies,     \* FileConflictPolicy: "keep_existing", "replace", "keep_both"
  Sources,      \* local trees: Root is the path that is uploaded
  Name,         \* its last name
  Remotes,      \* remote trees to start from
  Givens,       \* remote paths given to the upload
  Contested,    \* paths the other client creates
  MaxOthers     \* bound: what the other client does during the upload

VARIABLES
  policy, source, given, exact,  \* the call
  remote, others,                \* the server, and what others did to it
  step, item, stack,             \* the next remote call, what it is for, and
                                 \* the directories that are being walked
  placed,                        \* where each source path went
  processed, reported,           \* DirectoryUploadProgress
  result, destination            \* what the call returns

call == <<policy, source, given, exact>>
progress == <<processed, reported>>
vars == <<call, remote, others, step, item, stack, placed, progress, result, destination>>

Skipped == Theirs
NoItem == [local |-> Root, path |-> Root, n |-> 0, top |-> FALSE]
Total == SizeBelow(source, Root)
Ours(entry) == entry.of # Theirs
MarkOf(local) == Append(local, Name)

\* Sources and remotes are trees, paths are sequences, and what the upload
\* writes can be told from what was there.
ASSUME TreesAssumption ==
  /\ \A tree \in Sources : \A s \in DOMAIN tree \cup {Root} :
       /\ Exists(tree, s) /\ s \in Seq(ToSet(s)) /\ MarkOf(s) # Theirs
       /\ \A k \in 0..Len(s) - 1 : IsDir(tree, SubSeq(s, 1, k))
  /\ \A tree \in Remotes : IsTree(tree)
  /\ \A path \in Givens : path \in Seq(ToSet(path))
  /\ Policies \subseteq {"keep_existing", "replace", "keep_both"}

Init ==
  /\ policy \in Policies /\ source \in Sources
  /\ given \in Givens /\ exact \in BOOLEAN
  /\ remote \in Remotes /\ others = 0
  /\ step = "start" /\ item = NoItem /\ stack = <<>>
  /\ placed = <<>>
  /\ processed = 0 /\ reported = 0
  /\ result = "none" /\ destination = Root

-----------------------------------------------------------------------------

ThereIs == Exists(remote, item.path)
GoOn(next) == step' = next /\ UNCHANGED <<call, others, stack, progress, result, destination>>
Look(next) == GoOn(next) /\ UNCHANGED <<remote, placed>>

Fails ==
  /\ result' = "error" /\ step' = "done"
  /\ UNCHANGED <<call, remote, others, item, stack, placed, progress, destination>>

\* A remote call, or a local one in between, is answered with an error.
CallFails == step \notin {"done", "open", "unlink_old"} /\ Fails

\* The type of the remote path decides whether the upload goes inside it.
Start ==
  /\ step = "start"
  /\ LET same == IsDir(source, Root) /\ Last(given) = Name
         inside == ~exact /\ IsDir(remote, given) /\ ~same
         path == IF inside THEN Append(given, Name) ELSE given
     IN /\ item' = [NoItem EXCEPT !.path = path, !.top = TRUE]
        /\ destination' = path
  /\ step' = IF IsDir(source, Root) THEN "resolve" ELSE "file"
  /\ UNCHANGED <<call, remote, others, stack, placed, progress, result>>

\* What is skipped counts as processed.
SkipItem(next) ==
  /\ step' = next
  /\ placed' = [s \in DOMAIN placed \cup Below(source, item.local) |->
                  IF s \in DOMAIN placed THEN placed[s] ELSE Skipped]
  /\ processed' = processed + SizeBelow(source, item.local)
  /\ reported' = processed'
  /\ UNCHANGED <<call, remote, others, item, stack, result, destination>>

-----------------------------------------------------------------------------
(* A directory: resolve_upload_conflict_destination, twice for the top one, *)
(* then ensure_remote_directory(_for_replace).                              *)

Destined(path) ==
  /\ item' = [item EXCEPT !.path = path, !.n = 0, !.top = FALSE]
  /\ destination' = IF item.top THEN path ELSE destination
  /\ step' = IF item.top THEN "resolve" ELSE IF policy = "replace" THEN "clear" ELSE "ensure"
  /\ UNCHANGED <<call, remote, others, stack, placed, progress, result>>

Merges == policy = "replace" \/ (policy = "keep_existing" /\ IsDir(remote, item.path))

Resolve ==
  /\ step = "resolve"
  /\ CASE ~ThereIs \/ Merges -> Destined(item.path)
       [] ThereIs /\ ~Merges /\ policy = "keep_existing" -> SkipItem("next")
       [] ThereIs /\ policy = "keep_both" -> item' = [item EXCEPT !.n = 1] /\ Look("number")

\* next_available_remote_path
NumberDirectory ==
  /\ step = "number"
  /\ IF Exists(remote, Numbered(item.path, item.n))
       THEN item' = [item EXCEPT !.n = @ + 1] /\ Look("number")
       ELSE Destined(Numbered(item.path, item.n))

\* A file where the directory goes is unlinked.
LookForFile ==
  /\ step = "clear"
  /\ Look(IF IsDir(remote, item.path) THEN "read" ELSE IF ThereIs THEN "unlink" ELSE "ensure")
  /\ UNCHANGED item

Unlink ==
  /\ step = "unlink" /\ IsFile(remote, item.path)
  /\ remote' = Without(remote, item.path)
  /\ GoOn("ensure") /\ UNCHANGED <<item, placed>>

Ensure ==
  /\ step = "ensure"
  /\ Look(IF IsDir(remote, item.path) THEN "read" ELSE "probe")
  /\ item' = [item EXCEPT !.n = 1]

\* The directories on the way, from the top, are made where nothing is.
Prefix == SubSeq(item.path, 1, item.n)
AfterPrefix ==
  IF item.n < Len(item.path)
    THEN item' = [item EXCEPT !.n = @ + 1] /\ GoOn("probe")
    ELSE UNCHANGED item /\ GoOn("read")

Probe ==
  /\ step = "probe"
  /\ IF Exists(remote, Prefix) THEN AfterPrefix ELSE UNCHANGED item /\ GoOn("mkdir")
  /\ UNCHANGED <<remote, placed>>

Mkdir ==
  /\ step = "mkdir" /\ CanAdd(remote, Prefix)
  /\ remote' = With(remote, Prefix, Dir(MarkOf(item.local)))
  /\ AfterPrefix /\ UNCHANGED placed

ReadDirectory ==
  /\ step = "read"
  /\ stack' = Append(stack, [path |-> item.path, todo |-> Children(source, item.local)])
  /\ placed' = With(placed, item.local, item.path)
  /\ step' = "next"
  /\ UNCHANGED <<call, remote, others, item, progress, result, destination>>

-----------------------------------------------------------------------------
(* read_dir yields the entries in any order.                               *)

\* Faulty variant of Into: everything goes to the top directory.
IntoTop(local) == Append(destination, Last(local))

Into(local) == Append(Last(stack).path, Last(local))

Enter(local) ==
  /\ step = "next" /\ stack # <<>>
  /\ local \in Last(stack).todo
  /\ item' = [NoItem EXCEPT !.local = local, !.path = Into(local)]
  /\ stack' = Append(Front(stack), [Last(stack) EXCEPT !.todo = @ \ {local}])
  /\ step' = IF IsDir(source, local) THEN "resolve" ELSE "file"
  /\ UNCHANGED <<call, remote, others, placed, progress, result, destination>>

Leave ==
  /\ step = "next"
  /\ \/ stack # <<>> /\ Last(stack).todo = {} /\ stack' = Front(stack) /\ UNCHANGED <<step, result>>
     \/ stack = <<>> /\ step' = "done" /\ result' = "ok" /\ UNCHANGED stack
  /\ UNCHANGED <<call, remote, others, item, placed, progress, destination>>

-----------------------------------------------------------------------------
(* A file: create_remote_file_for_policy, then copy_with_progress.         *)

Target == Numbered(item.path, item.n)
Refused == Fails
NewFile == With(remote, Target, File(MarkOf(item.local), 0))
Opened(tree) ==
  /\ remote' = tree
  /\ GoOn("copy") /\ UNCHANGED <<item, placed>>

\* Faulty variant of NextNumber: the first two names are tried in turn.
NumberWraps == item' = [item EXCEPT !.n = (@ + 1) % 2] /\ Look("file")

NextNumber == item' = [item EXCEPT !.n = @ + 1] /\ Look("file")

LookAtFile ==
  /\ step = "file"
  /\ CASE policy = "replace" ->
            IF IsDir(remote, Target) THEN Refused ELSE Look("open") /\ UNCHANGED item
       [] policy = "keep_existing" ->
            IF Exists(remote, Target) THEN SkipItem("next") ELSE Look("exclusive") /\ UNCHANGED item
       [] policy = "keep_both" ->
            IF Exists(remote, Target) THEN NextNumber ELSE Look("exclusive") /\ UNCHANGED item

\* Faulty variant of CanCreate: the EXCLUSIVE flag is forgotten.
CanOpen == CanAdd(remote, Target) \/ IsFile(remote, Target)

CanCreate == CanAdd(remote, Target)

CreateExclusive ==
  /\ step = "exclusive" /\ CanCreate
  /\ Opened(NewFile)

\* SFTP error 11, which not every server sends: others fail the upload.
SomeoneWasFaster ==
  /\ step = "exclusive" /\ Exists(remote, Target) /\ ~CanCreate
  /\ IF policy = "keep_existing" THEN SkipItem("next") ELSE NextNumber

OpenTruncated ==
  /\ step = "open" /\ (CanAdd(remote, Target) \/ IsFile(remote, Target))
  /\ Opened(NewFile)

\* Faulty variant of OpenFails: the file is passed over.
OpenFailsUnnoticed == step = "open" /\ Look("next") /\ UNCHANGED item

\* If that fails although something is there, unlink and create.
OpenFails ==
  /\ step = "open"
  /\ IF Exists(remote, Target) THEN Look("unlink_old") /\ UNCHANGED item ELSE Fails

UnlinkOld ==
  /\ step = "unlink_old"
  /\ \/ remote' = IF IsFile(remote, Target) THEN Without(remote, Target) ELSE remote
     \/ UNCHANGED remote
  /\ GoOn("create") /\ UNCHANGED <<item, placed>>

CreateAgain ==
  /\ step = "create" /\ (CanAdd(remote, Target) \/ IsFile(remote, Target))
  /\ Opened(NewFile)

\* The open file may have been removed or replaced by another client.
IsOpen == IsFile(remote, Target) /\ remote[Target].of = MarkOf(item.local)

Shown == processed'

Copy ==
  /\ step = "copy"
  /\ remote' = IF IsOpen
                 THEN With(remote, Target, File(MarkOf(item.local), source[item.local].size))
                 ELSE remote
  /\ placed' = With(placed, item.local, Target)
  /\ processed' = processed + source[item.local].size
  /\ reported' = Shown
  /\ destination' = IF stack = <<>> THEN Target ELSE destination
  /\ step' = "next"
  /\ UNCHANGED <<call, others, item, stack, result>>

-----------------------------------------------------------------------------

OtherCreates(p) ==
  /\ CanAdd(remote, p)
  /\ \E entry \in {File(Theirs, 0), Dir(Theirs)} : remote' = With(remote, p, entry)

OtherRemoves(p) ==
  /\ IsFile(remote, p) \/ IsEmptyDir(remote, p)
  /\ remote' = Without(remote, p)

Other ==
  /\ others < MaxOthers /\ step # "done"
  /\ others' = others + 1
  /\ (\E p \in Contested : OtherCreates(p)) \/ (\E p \in Contested : OtherRemoves(p))
  /\ UNCHANGED <<call, step, item, stack, placed, progress, result, destination>>

Walk ==
  \/ Start \/ Resolve \/ NumberDirectory \/ LookForFile \/ Unlink \/ Ensure
  \/ Probe \/ Mkdir \/ ReadDirectory \/ (\E s \in DOMAIN source : Enter(s)) \/ Leave
  \/ LookAtFile \/ CreateExclusive \/ SomeoneWasFaster \/ OpenTruncated
  \/ OpenFails \/ UnlinkOld \/ CreateAgain \/ Copy

Us == Walk \/ CallFails
Next == Us \/ Other

Spec == Init /\ [][Next]_vars
-----------------------------------------------------------------------------

Steps == {"start", "resolve", "number", "clear", "unlink", "ensure", "probe", "mkdir", "read", "next",
          "file", "exclusive", "open", "unlink_old", "create", "copy", "done"}

\* The variables have their types and the remote tree stays a tree.
TypeOK ==
  /\ step \in Steps /\ result \in {"none", "ok", "error"}
  /\ IsTree(remote)
  /\ item.local \in DOMAIN source /\ item.n \in Nat /\ item.top \in BOOLEAN
  /\ DOMAIN placed \subseteq DOMAIN source
  /\ \A i \in DOMAIN stack : stack[i].todo \subseteq DOMAIN source
  /\ processed \in 0..Total /\ reported \in 0..Total

\* What was there, or was put there by others meanwhile, is as it was after
\* every step of the upload, unless the policy is Replace: a file that appears
\* between the look and the creation is not written to.
\* (create_remote_file_for_policy)
OthersEntriesKept ==
  [][others' = others /\ policy # "replace" =>
       \A p \in DOMAIN remote : ~Ours(remote[p]) => Exists(remote', p) /\ remote'[p] = remote[p]]_vars

\* The upload is one of a destination under its policy: it adds, rewrites only
\* what it may, merges directories, and succeeds only if all has arrived.
Promised == INSTANCE Destination WITH
  tree <- remote, root <- destination, arrived <- DOMAIN placed
ImplementsDestination == Promised!Spec

\* Without interference a success means that all is there, whole, where the
\* upload says it went, and that nothing was skipped but under Keep existing.
DeliveredIfUndisturbed ==
  result = "ok" /\ others = 0 =>
    DOMAIN placed = DOMAIN source /\ \A s \in DOMAIN source :
      IF placed[s] = Skipped
        THEN policy = "keep_existing"
        ELSE /\ placed[Root] = destination
             /\ Exists(remote, placed[s])
             /\ remote[placed[s]].kind = source[s].kind
             /\ remote[placed[s]].size = source[s].size

\* What is in a directory arrives in the directory it was put in, numbered or
\* not, whatever others do: also when the destination is numbered twice.
ArrivesTogether ==
  \A s \in DOMAIN placed \ {Root} :
    placed[s] = Skipped \/
      LET asked == Append(placed[Parent(s)], Last(s))
      IN /\ placed[Parent(s)] # Skipped
         /\ \/ placed[s] = asked
            \/ /\ policy = "keep_both" /\ Len(Last(placed[s])) = Len(Last(s)) + 1
               /\ placed[s] = Numbered(asked, Last(Last(placed[s])))

\* The progress that is shown never runs backwards, and ends at the total: the
\* bytes of what was skipped are counted exactly once, nested or not.
ProgressEndsAtTotal == result = "ok" => processed = Total /\ reported = Total
ProgressForward == [][reported' >= reported]_vars

\* "Existing destination folders are merged so only conflicting files follow
\* the selected policy": no folder is made beside one that was there.
FoldersMerged ==
  result = "ok" /\ others = 0 /\ IsDir(source, Root) =>
    \A p \in DOMAIN remote \ {Root} :
      IsDir(remote, p) /\ ~Ours(remote[p]) => placed[Root] # Numbered(p, 1)

=============================================================================
