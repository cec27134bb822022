------------------------------ MODULE Download ------------------------------
(***************************************************************************)
(* A download by SFTP (ssh2_backend.rs), FTP or SCP (the lib.rs of their   *)
(* crates) under a conflict policy.  The three resolve the local           *)
(* destination in the same way, and differ in how they find out what the   *)
(* remote path is.  One call to the server or the file system per step,    *)
(* while other programs write to the local directory.                      *)
(***************************************************************************)
EXTENDS Trees

CONSTANTS
  Protocols,   \* "sftp", "ftp", "scp"
  Policies,    \* "keep_existing", "replace", "keep_both"
  Sources,     \* remote trees: Root is the path that is downloaded
  Locals,      \* local trees to start from
  Given,       \* the local path of the call
  Contested,   \* paths other programs create
  MaxOthers,   \* bound: what other programs do meanwhile
  MayMistake   \* whether a directory may be taken for a file: SFTP and FTP
               \* do if they get no answer, SCP does not ask

VARIABLES
  protocol, policy, source,  \* the call
  local, others,             \* the local files, and what others did to them
  step, item, stack,         \* the next call, what it is for, and the
                             \* directories that are being walked
  placed, bytes,             \* where each source path went; bytes_done
  result

call == <<protocol, policy, source>>
vars == <<call, local, others, step, item, stack, placed, bytes, result>>

Skipped == Theirs
Mark(src) == Append(src, <<"new">>)

Init ==
  /\ protocol \in Protocols /\ policy \in Policies /\ source \in Sources
  /\ protocol = "scp" /\ ~MayMistake => IsFile(source, Root)
  /\ local \in Locals /\ others = 0
  /\ step = "probe"
  /\ item = [src |-> Root, dst |-> Given, n |-> 0, isDir |-> FALSE]
  /\ stack = <<>> /\ placed = <<>> /\ bytes = 0 /\ result = "none"

-----------------------------------------------------------------------------

GoOn(next) == step' = next /\ UNCHANGED <<call, others, stack, bytes, result>>
Look(next) == GoOn(next) /\ UNCHANGED <<local, placed>>

\* A remote or local call fails, and with it the download.
CallFails ==
  /\ step # "done"
  /\ result' = "error" /\ step' = "done"
  /\ UNCHANGED <<call, local, others, item, stack, placed, bytes>>

\* What the answer to stat or to a listing says, or the lack of one.
Answers == {IsDir(source, item.src)} \cup (IF MayMistake THEN {FALSE} ELSE {})

\* SFTP: stat(..).ok(): no answer is as good as "not a directory".
StatSource ==
  /\ step = "probe" /\ protocol = "sftp"
  /\ \E isDir \in Answers : item' = [item EXCEPT !.isDir = isDir]
  /\ Look("resolve")

\* FTP: what can be listed is a directory, all else a file.
ListSource ==
  /\ step = "probe" /\ protocol = "ftp"
  /\ \E isDir \in Answers : item' = [item EXCEPT !.isDir = isDir]
  /\ Look("resolve")

\* SCP: a file.
TakeForFile ==
  /\ step = "probe" /\ protocol = "scp"
  /\ Look("resolve") /\ UNCHANGED item

-----------------------------------------------------------------------------
(* resolve_local_download_destination                                      *)

Destined(path) ==
  /\ item' = [item EXCEPT !.dst = path, !.n = 0]
  /\ GoOn(IF ~item.isDir THEN "parents" ELSE IF protocol = "sftp" /\ stack = <<>> THEN "size" ELSE "mkdir")

Skip ==
  /\ placed' = [s \in DOMAIN placed \cup Below(source, item.src) |->
                  IF s \in DOMAIN placed THEN placed[s] ELSE Skipped]
  /\ GoOn("next") /\ UNCHANGED <<local, item>>

\* Faulty variant of Matching: directories are replaced like files.
MatchingNever == FALSE

\* Directories are merged with directories.
Matching == item.isDir /\ IsDir(local, item.dst)

Resolve ==
  /\ step = "resolve"
  /\ CASE ~Exists(local, item.dst) -> Destined(item.dst) /\ UNCHANGED <<local, placed>>
       [] Exists(local, item.dst) /\ policy = "keep_both" ->
            item' = [item EXCEPT !.n = 1] /\ Look("number")
       [] Exists(local, item.dst) /\ policy # "keep_both" /\ Matching ->
            Destined(item.dst) /\ UNCHANGED <<local, placed>>
       [] Exists(local, item.dst) /\ policy = "keep_existing" /\ ~Matching -> Skip
       [] Exists(local, item.dst) /\ policy = "replace" /\ ~Matching ->
            Look("remove") /\ UNCHANGED item

\* remove_local_path: a file, or a directory with all that is in it, one after
\* the other and each directory after what is in it.
RemoveLocal ==
  /\ step = "remove"
  /\ \E p \in Below(local, item.dst) :
       /\ IsFile(local, p) \/ IsEmptyDir(local, p)
       /\ local' = Without(local, p)
       /\ IF p = item.dst THEN Destined(item.dst) ELSE GoOn("remove") /\ UNCHANGED item
  /\ UNCHANGED placed

NextFree == Numbered(item.dst, item.n)

\* Faulty variant of NextNumber: the first two numbers in turn.
NumberWraps == (item.n + 1) % 2

NextNumber == item.n + 1

NumberLocal ==
  /\ step = "number"
  /\ IF Exists(local, NextFree)
       THEN item' = [item EXCEPT !.n = NextNumber] /\ Look("number")
       ELSE Destined(NextFree) /\ UNCHANGED <<local, placed>>

-----------------------------------------------------------------------------
(* Directories                                                             *)

\* The total of the progress, computed when the destination is prepared.
Measure == step = "size" /\ Look("mkdir") /\ UNCHANGED item

\* create_dir_all: one missing directory after the other, from the top.
MissingAbove(path) == {i \in 1..Len(path) : ~Exists(local, SubSeq(path, 1, i))}
MakeMissing(path) ==
  LET first == SubSeq(path, 1, CHOOSE i \in MissingAbove(path) :
                                 \A j \in MissingAbove(path) : i <= j)
  IN /\ MissingAbove(path) # {} /\ CanAdd(local, first)
     /\ local' = With(local, first, Dir(Mark(item.src)))
     /\ UNCHANGED <<item, placed>> /\ GoOn(step)

MakeDirectory == step = "mkdir" /\ MakeMissing(item.dst)

ReadDirectory ==
  /\ step = "mkdir" /\ IsDir(local, item.dst) /\ IsDir(source, item.src)
  /\ stack' = Append(stack, [path |-> item.dst, todo |-> Children(source, item.src)])
  /\ placed' = With(placed, item.src, item.dst)
  /\ step' = "next"
  /\ UNCHANGED <<call, local, others, item, bytes, result>>

ToDo(src) == Last(stack).todo \ {src}

\* SFTP knows the types from readdir; FTP lists every subdirectory again.
Enter(src) ==
  /\ step = "next" /\ stack # <<>> /\ src \in Last(stack).todo
  /\ item' = [src |-> src, dst |-> Append(Last(stack).path, Last(src)), n |-> 0,
              isDir |-> IsDir(source, src)]
  /\ stack' = Append(Front(stack), [Last(stack) EXCEPT !.todo = ToDo(src)])
  /\ step' = IF protocol = "ftp" /\ IsDir(source, src) THEN "probe" ELSE "resolve"
  /\ UNCHANGED <<call, local, others, placed, bytes, result>>

Leave ==
  /\ step = "next"
  /\ \/ stack # <<>> /\ Last(stack).todo = {} /\ stack' = Front(stack) /\ UNCHANGED <<step, result>>
     \/ stack = <<>> /\ step' = "done" /\ result' = "ok" /\ UNCHANGED stack
  /\ UNCHANGED <<call, local, others, item, placed, bytes>>

-----------------------------------------------------------------------------
(* Files: the remote one is opened, or fetched, before the local one.      *)

MakeParents == step = "parents" /\ MakeMissing(Parent(item.dst))

OpenRemote ==
  /\ step = "parents" /\ MissingAbove(Parent(item.dst)) = {}
  /\ IsFile(source, item.src)
  /\ Look("create") /\ UNCHANGED item

MayCreate == CanAdd(local, item.dst) \/ IsFile(local, item.dst)

\* File::create truncates what is there.
CreateLocal ==
  /\ step = "create" /\ MayCreate
  /\ local' = With(local, item.dst, File(Mark(item.src), 0))
  /\ GoOn("copy") /\ UNCHANGED <<item, placed>>

\* Faulty variant of BytesAfter: the last file only.
BytesOfFile == source[item.src].size

BytesAfter == bytes + source[item.src].size

Copy ==
  /\ step = "copy"
  /\ local' = IF IsFile(local, item.dst) /\ local[item.dst].of = Mark(item.src)
                THEN With(local, item.dst, File(Mark(item.src), source[item.src].size))
                ELSE local
  /\ placed' = With(placed, item.src, item.dst)
  /\ bytes' = BytesAfter
  /\ step' = "next"
  /\ UNCHANGED <<call, others, item, stack, result>>

-----------------------------------------------------------------------------

OtherWrites(p) ==
  /\ CanAdd(local, p) /\ local' = With(local, p, File(Theirs, 0))
OtherRemoves(p) ==
  /\ IsFile(local, p) /\ local' = Without(local, p)

Other ==
  /\ others < MaxOthers /\ step # "done"
  /\ others' = others + 1
  /\ \E p \in Contested : OtherWrites(p) \/ OtherRemoves(p)
  /\ UNCHANGED <<call, step, item, stack, placed, bytes, result>>

Us ==
  \/ CallFails \/ StatSource \/ ListSource \/ TakeForFile \/ Resolve \/ RemoveLocal
  \/ NumberLocal \/ Measure \/ MakeDirectory \/ ReadDirectory
  \/ (\E s \in DOMAIN source : Enter(s)) \/ Leave
  \/ MakeParents \/ OpenRemote \/ CreateLocal \/ Copy

Next == Us \/ Other

Spec == Init /\ [][Next]_vars

-----------------------------------------------------------------------------

Steps == {"probe", "resolve", "remove", "number", "size", "mkdir", "next", "parents", "create", "copy", "done"}

\* The variables have their types and the local tree stays a tree.
TypeOK ==
  /\ step \in Steps /\ result \in {"none", "ok", "error"}
  /\ IsTree(local) /\ item.src \in DOMAIN source /\ item.n \in Nat
  /\ DOMAIN placed \subseteq DOMAIN source /\ bytes \in Nat
  /\ \A i \in DOMAIN stack : stack[i].todo \subseteq DOMAIN source

\* As long as no other program interferes, a download adds, takes away only
\* what its policy gives it, and succeeds only if all has arrived or was skipped.
Promised == INSTANCE Destination WITH
  root <- Given, tree <- local, arrived <- DOMAIN placed
StepPromised == others' = 0 => [Promised!Next]_(Promised!vars)

\* Without interference a success means that all that was not skipped is
\* there, whole, directories as directories.
DeliveredIfUndisturbed ==
  result = "ok" /\ others = 0 =>
    /\ DOMAIN placed = DOMAIN source
    /\ \A s \in DOMAIN source :
         IF placed[s] = Skipped
           THEN policy = "keep_existing"
           ELSE /\ Exists(local, placed[s])
                /\ local[placed[s]].kind = source[s].kind
                /\ local[placed[s]].size = source[s].size

\* Keep both loses nothing and numbers each name at most once: the first free
\* number, and only where the name was taken.  (what is not taken when it is
\* resolved keeps its name)
NumberedOnce ==
  others = 0 /\ policy = "keep_both" =>
    \A s \in DOMAIN placed :
      LET asked == IF s = Root THEN Given ELSE Append(placed[Parent(s)], Last(s))
      IN \E n \in 0..Cardinality(DOMAIN local) :
           /\ placed[s] = Numbered(asked, n)
           /\ \A m \in 0..n : Exists(local, Numbered(asked, m))

\* bytes_done is the size of what was delivered: no file is counted twice or
\* left out, whatever is skipped between.
BytesOfDelivered ==
  LET delivered == {s \in DOMAIN placed : placed[s] # Skipped}
  IN bytes = SizeBelow([s \in delivered |-> source[s]], Root)

\* "Keep the destination item and skip the conflicting source file", also an
\* item that appears while the download goes on.
OthersEntriesKept ==
  [][others' = others /\ policy # "replace" =>
       \A p \in DOMAIN local :
         local[p].of = Theirs => Exists(local', p) /\ local'[p] = local[p]]_vars

\* "Replace conflicting files and merge matching directories": a directory in
\* the place of a directory of the source is never taken away.
MatchingDirectoryKept ==
  others' = others =>
    \A s \in DOMAIN source :
      IsDir(source, s) /\ IsDir(local, Given \o s) => IsDir(local', Given \o s)

=============================================================================
