----------------------------- MODULE FtpUpload ------------------------------
(***************************************************************************)
(* crates/crossscp-protocol-ftp/src/lib.rs: an upload of a file or of a    *)
(* directory under a conflict policy, one command to the server per step,  *)
(* while another client of the server creates and removes entries.  What   *)
(* exists is learnt from the listing of the parent directory, and STOR     *)
(* overwrites.                                                             *)
(***************************************************************************)
EXTENDS Trees

CONSTANTS
  Policies,   \* "keep_existing", "replace", "keep_both"
  Sources,    \* local trees: Root is the path that is uploaded
  Remotes,    \* remote trees to start from
  Given,      \* the remote path of the call
  Contested,  \* paths the other client creates
  MaxOthers   \* bound: what the other client does during the upload

VARIABLES
  policy, source,   \* the call
  remote, others,   \* the server, and what others did to it
  step, item,       \* the next command, and what it is for
  stack,            \* the directories that are being walked
  placed, bytes,    \* where each source path went; bytes_done of the summary
  result

call == <<policy, source>>
vars == <<call, remote, others, step, item, stack, placed, bytes, result>>

Skipped == Theirs
Mark(src) == Append(src, <<"new">>)
IsDirItem == IsDir(source, item.src)

\* "again": upload_directory and upload_file resolve what their caller has
\* resolved.
Init ==
  /\ policy \in Policies /\ source \in Sources
  /\ remote \in Remotes /\ others = 0
  /\ step = "resolve"
  /\ item = [src |-> Root, dst |-> Given, n |-> 0, again |-> TRUE]
  /\ stack = <<>> /\ placed = <<>> /\ bytes = 0 /\ result = "none"

-----------------------------------------------------------------------------

GoOn(next) == step' = next /\ UNCHANGED <<call, others, stack, bytes, result>>
Look(next) == GoOn(next) /\ UNCHANGED <<remote, placed>>

\* A command is answered with an error, and the upload fails.
CallFails ==
  /\ step # "done"
  /\ result' = "error" /\ step' = "done"
  /\ UNCHANGED <<call, remote, others, item, stack, placed, bytes>>

\* remote_entry: the parent has to be there to be listed.
Listed(p) == IsDir(remote, Parent(p))

Destined(path) ==
  /\ item' = [item EXCEPT !.dst = path, !.n = 0, !.again = FALSE]
  /\ Look(IF item.again THEN "resolve" ELSE IF IsDirItem THEN "check" ELSE "clear")

Skip ==
  /\ placed' = [s \in DOMAIN placed \cup Below(source, item.src) |->
                  IF s \in DOMAIN placed THEN placed[s] ELSE Skipped]
  /\ GoOn("next") /\ UNCHANGED <<remote, item>>

Merges ==
  \/ policy = "replace"
  \/ policy = "keep_existing" /\ IsDirItem /\ IsDir(remote, item.dst)

\* resolve_upload_conflict_destination
Resolve ==
  /\ step = "resolve" /\ Listed(item.dst)
  /\ CASE ~Exists(remote, item.dst) \/ Merges -> Destined(item.dst)
       [] Exists(remote, item.dst) /\ ~Merges /\ policy = "keep_existing" -> Skip
       [] Exists(remote, item.dst) /\ policy = "keep_both" ->
            item' = [item EXCEPT !.n = 1] /\ Look("number")

NextFree == Numbered(item.dst, item.n)

\* next_available_remote_path
NumberRemote ==
  /\ step = "number" /\ Listed(item.dst)
  /\ IF Exists(remote, NextFree)
       THEN item' = [item EXCEPT !.n = @ + 1] /\ Look("number")
       ELSE Destined(NextFree)

-----------------------------------------------------------------------------
(* upload_directory                                                        *)

Walk == [path |-> item.dst, todo |-> Children(source, item.src)]

EnterDirectory ==
  /\ stack' = Append(stack, Walk)
  /\ placed' = With(placed, item.src, item.dst)
  /\ step' = "next"
  /\ UNCHANGED <<call, others, item, bytes, result>>

CheckDirectory ==
  /\ step = "check" /\ Listed(item.dst)
  /\ CASE IsDir(remote, item.dst) -> EnterDirectory /\ UNCHANGED remote
       [] ~Exists(remote, item.dst) -> Look("mkdir") /\ UNCHANGED item
       [] Exists(remote, item.dst) /\ ~IsDir(remote, item.dst) ->
            IF policy = "replace" THEN Look("delete") /\ UNCHANGED item ELSE Skip

\* delete_path: rm, or else rmdir.
DeleteForDirectory ==
  /\ step = "delete" /\ (IsFile(remote, item.dst) \/ IsEmptyDir(remote, item.dst))
  /\ remote' = Without(remote, item.dst)
  /\ GoOn("mkdir") /\ UNCHANGED <<item, placed>>

MakeDirectory ==
  /\ step = "mkdir" /\ CanAdd(remote, item.dst)
  /\ remote' = With(remote, item.dst, Dir(Mark(item.src)))
  /\ EnterDirectory

Enter(src) ==
  /\ step = "next" /\ stack # <<>> /\ src \in Last(stack).todo
  /\ item' = [src |-> src, dst |-> Append(Last(stack).path, Last(src)), n |-> 0, again |-> FALSE]
  /\ stack' = Append(Front(stack), [Last(stack) EXCEPT !.todo = @ \ {src}])
  /\ step' = "resolve"
  /\ UNCHANGED <<call, remote, others, placed, bytes, result>>

Leave ==
  /\ step = "next"
  /\ \/ stack # <<>> /\ Last(stack).todo = {} /\ stack' = Front(stack) /\ UNCHANGED <<step, result>>
     \/ stack = <<>> /\ step' = "done" /\ result' = "ok" /\ UNCHANGED stack
  /\ UNCHANGED <<call, remote, others, item, placed, bytes>>

-----------------------------------------------------------------------------
(* upload_file                                                             *)

\* Replace clears a directory away first,
ClearDirectory ==
  /\ step = "clear"
  /\ policy = "replace" => Listed(item.dst)
  /\ Look(IF policy = "replace" /\ IsDir(remote, item.dst) THEN "empty" ELSE "put")
  /\ UNCHANGED item

\* file by file and directory by directory, each after what is in it
\* (delete_path_recursive; its order, and links, are in RemoteDelete).
EmptyDirectory ==
  /\ step = "empty"
  /\ \E p \in Below(remote, item.dst) :
       /\ IsFile(remote, p) \/ IsEmptyDir(remote, p)
       /\ remote' = Without(remote, p)
       /\ GoOn(IF p = item.dst THEN "put" ELSE "empty")
  /\ UNCHANGED <<item, placed>>

\* Faulty variant of BytesAfter: the summary of the last child.
BytesOfFile == source[item.src].size

BytesAfter == bytes + source[item.src].size

\* Faulty variant of Store: the file is read to its end before it is sent.
StoreNothing(size) ==
  /\ CanAdd(remote, item.dst) \/ IsFile(remote, item.dst)
  /\ remote' = With(remote, item.dst, File(Mark(item.src), 0))
  /\ UNCHANGED <<call, others, item, stack>>

\* STOR creates or overwrites; an error in the middle leaves a part.
Store(size) ==
  /\ CanAdd(remote, item.dst) \/ IsFile(remote, item.dst)
  /\ remote' = With(remote, item.dst, File(Mark(item.src), size))
  /\ UNCHANGED <<call, others, item, stack>>

Put ==
  /\ step = "put"
  /\ Store(source[item.src].size)
  /\ placed' = With(placed, item.src, item.dst)
  /\ bytes' = BytesAfter /\ step' = "next" /\ UNCHANGED result

PutBreaks ==
  /\ step = "put"
  /\ Store(0)
  /\ step' = "broken" /\ UNCHANGED <<placed, bytes, result>>

-----------------------------------------------------------------------------

OtherWrites(p) ==
  /\ CanAdd(remote, p)
  /\ \E entry \in {File(Theirs, 0), Dir(Theirs)} : remote' = With(remote, p, entry)
OtherRemoves(p) ==
  /\ IsFile(remote, p) \/ IsEmptyDir(remote, p)
  /\ remote' = Without(remote, p)

Other ==
  /\ others < MaxOthers /\ step # "done"
  /\ others' = others + 1
  /\ \E p \in Contested : OtherWrites(p) \/ OtherRemoves(p)
  /\ UNCHANGED <<call, step, item, stack, placed, bytes, result>>

Us ==
  \/ CallFails \/ Resolve \/ NumberRemote \/ CheckDirectory \/ DeleteForDirectory
  \/ MakeDirectory \/ (\E s \in DOMAIN source : Enter(s)) \/ Leave
  \/ ClearDirectory \/ EmptyDirectory \/ Put \/ PutBreaks

Next == Us \/ Other

Spec == Init /\ [][Next]_vars

-----------------------------------------------------------------------------

Steps == {"resolve", "number", "check", "delete", "mkdir", "next", "clear", "empty", "put", "broken", "done"}

\* The variables have their types and the remote tree stays a tree.
TypeOK ==
  /\ step \in Steps /\ result \in {"none", "ok", "error"}
  /\ IsTree(remote) /\ item.src \in DOMAIN source /\ item.n \in Nat
  /\ DOMAIN placed \subseteq DOMAIN source /\ bytes \in Nat

\* As long as no other client interferes, every step is one that the promise
\* of the policy allows: nothing that was there is touched by Keep existing
\* and Keep both, and by Replace only what is in the place of a source path.
Promised == INSTANCE Destination WITH
  root <- Given, tree <- remote, arrived <- DOMAIN placed
StepPromised == others' = 0 => [Promised!Next]_(Promised!vars)

\* Without interference a success means that all that was not skipped is
\* there, whole.
DeliveredIfUndisturbed ==
  result = "ok" /\ others = 0 =>
    /\ DOMAIN placed = DOMAIN source
    /\ \A s \in DOMAIN source :
         IF placed[s] = Skipped
           THEN policy = "keep_existing"
           ELSE /\ Exists(remote, placed[s])
                /\ remote[placed[s]].kind = source[s].kind
                /\ remote[placed[s]].size = source[s].size

\* What is in a directory arrives in the directory it was put in.
ArrivesTogether ==
  \A s \in DOMAIN placed \ {Root} :
    placed[s] = Skipped \/ (placed[Parent(s)] # Skipped /\ Parent(placed[s]) = placed[Parent(s)])

\* bytes_done is the size of what was stored, however often directories were
\* skipped or merged between.
BytesOfDelivered ==
  LET delivered == {s \in DOMAIN placed : placed[s] # Skipped}
  IN bytes = SizeBelow([s \in delivered |-> source[s]], Root)

\* "Keep the destination item and skip the conflicting source file", also an
\* item that another client creates during the upload.
OthersEntriesKept ==
  [][others' = others /\ policy # "replace" =>
       \A p \in DOMAIN remote :
         remote[p].of = Theirs => Exists(remote', p) /\ remote'[p] = remote[p]]_vars
=============================================================================
