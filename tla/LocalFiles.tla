----------------------------- MODULE LocalFiles -----------------------------
(***************************************************************************)
(* crates/crossscp-protocol-local/src/lib.rs: what the local adapter does  *)
(* to a tree of files (create_directory, remove, rename, and its sorted    *)
(* listing), one call of the standard library per step, while another      *)
(* program changes the tree.                                               *)
(***************************************************************************)
EXTENDS Trees

CONSTANTS
  Trees0,     \* trees to start from
  Paths,      \* the paths of the calls
  Contested,  \* where the other program writes
  MaxOthers   \* bound: what the other program does

VARIABLES
  tree,
  call,     \* [op, path, to, flag]
  step,     \* the next call of the file system
  others,   \* what others did during the call
  before,   \* the tree when the call was made
  result    \* "none", "ok", "error"

vars == <<tree, call, step, others, before, result>>

\* exists and is_dir follow a link to what it leads to, which is no other link;
\* no path of a call goes through one.
Link(target) == [kind |-> "link", of |-> target, size |-> 0]
Follows(p) == Exists(tree, p) /\ (tree[p].kind = "link" => Exists(tree, tree[p].of))
IsRealDir(p) == IsDir(tree, p)
LeadsToDir(p) ==
  IsRealDir(p) \/ (Exists(tree, p) /\ tree[p].kind = "link" /\ IsDir(tree, tree[p].of))

\* Where q, below from, is when from is renamed.
Renamed(from, to, q) == to \o SubSeq(q, Len(from) + 1, Len(q))
Move(from, to) ==
  LET rest == Without(tree, to)
      moved == {q \in DOMAIN rest : IsPrefix(from, q)}
      new == {Renamed(from, to, q) : q \in moved}
  IN [q \in (DOMAIN rest \ moved) \cup new |->
        IF q \in new THEN rest[Renamed(to, from, q)] ELSE rest[q]]

Calls ==
  {c \in [op : {"mkdir", "remove", "rename"}, path : Paths, to : Paths, flag : BOOLEAN] :
     c.op # "rename" => c.to = c.path}

Init ==
  /\ tree \in Trees0 /\ before = tree
  /\ call \in Calls
  /\ step = IF call.op = "rename" THEN "look" ELSE call.op
  /\ others = 0 /\ result = "none"

-----------------------------------------------------------------------------

Ends(r) == result' = r /\ step' = "done" /\ UNCHANGED <<call, others, before>>
GoOn(next) == step' = next /\ UNCHANGED <<call, others, before, result>>

\* Any of the calls fails.
CallFails == step # "done" /\ Ends("error") /\ UNCHANGED tree

Missing(p) == {q \in {SubSeq(p, 1, n) : n \in 1..Len(p)} : ~Exists(tree, q)}

WithDirectories(p) ==
  [q \in DOMAIN tree \cup Missing(p) |-> IF Exists(tree, q) THEN tree[q] ELSE Dir(Theirs)]
DirectoriesAbove(p) ==
  \A n \in 0..Len(p) - 1 : LET q == SubSeq(p, 1, n) IN Exists(tree, q) => IsRealDir(q)

\* create_dir_all is content with a directory that is there, also behind a
\* link, create_dir is not.
CreateDirectory ==
  /\ step = "mkdir"
  /\ IF call.flag
       THEN DirectoriesAbove(call.path) /\ (Exists(tree, call.path) => LeadsToDir(call.path))
       ELSE CanAdd(tree, call.path)
  /\ tree' = WithDirectories(call.path)
  /\ Ends("ok")

\* create_dir_all makes some of the directories above, and fails.
CreateBreaks ==
  /\ step = "mkdir" /\ call.flag /\ DirectoriesAbove(call.path)
  /\ \E n \in 1..Len(call.path) - 1 : tree' = WithDirectories(SubSeq(call.path, 1, n))
  /\ Ends("error")

\* symlink_metadata, and then one of the three calls.
RemovePath ==
  /\ step = "remove" /\ Exists(tree, call.path) /\ call.path # Root
  /\ IsRealDir(call.path) /\ ~call.flag => IsEmptyDir(tree, call.path)
  /\ tree' = Without(tree, call.path)
  /\ Ends("ok")

\* remove_dir_all takes a part away, and fails.
RemoveBreaks ==
  /\ step \in {"remove", "clear"}
  /\ LET p == IF step = "remove" THEN call.path ELSE call.to IN
       /\ IsRealDir(p) /\ (step = "remove" => call.flag)
       /\ \E q \in Below(tree, p) \ {p} : tree' = Without(tree, q)
  /\ Ends("error")

\* Faulty variant of LookAtDestination: it is not looked at.
LookAway ==
  /\ step = "look"
  /\ GoOn(IF call.flag /\ Follows(call.to) THEN "clear" ELSE "rename")
  /\ UNCHANGED tree

LookAtDestination ==
  /\ step = "look"
  /\ IF Follows(call.to)
       THEN IF call.flag THEN GoOn("clear") ELSE Ends("error")
       ELSE GoOn("rename")
  /\ UNCHANGED tree

\* Faulty variant of ClearDestination: it clears what it is to rename.
ClearSource ==
  /\ step = "clear" /\ Exists(tree, call.path) /\ call.path # Root
  /\ tree' = Without(tree, call.path)
  /\ GoOn("rename")

\* Rename with overwrite: what is in the way is removed first.
ClearDestination ==
  /\ step = "clear" /\ Exists(tree, call.to) /\ call.to # Root
  /\ tree' = Without(tree, call.to)
  /\ GoOn("rename")

\* fs::rename takes the place of a file, and of an empty directory if it moves
\* a directory; a directory does not go into itself.
Rename ==
  /\ step = "rename" /\ Exists(tree, call.path) /\ call.path # Root
  /\ call.to # Root /\ IsDir(tree, Parent(call.to))
  /\ IF call.path = call.to THEN UNCHANGED tree
     ELSE /\ ~IsPrefix(call.path, call.to)
          /\ Exists(tree, call.to) =>
               IF IsRealDir(call.path) THEN IsEmptyDir(tree, call.to) ELSE ~IsRealDir(call.to)
          /\ tree' = Move(call.path, call.to)
  /\ Ends("ok")

Other ==
  /\ step # "done" /\ others < MaxOthers /\ others' = others + 1
  /\ \E p \in Contested :
       \/ CanAdd(tree, p) /\ tree' = With(tree, p, File(Theirs, 1))
       \/ p # Root /\ Exists(tree, p) /\ tree' = Without(tree, p)
  /\ UNCHANGED <<call, step, before, result>>

Next ==
  \/ CallFails \/ CreateDirectory \/ CreateBreaks \/ RemovePath \/ RemoveBreaks
  \/ LookAtDestination \/ ClearDestination \/ Rename
  \/ Other

Spec == Init /\ [][Next]_vars

-----------------------------------------------------------------------------

\* The variables have their types, and the tree stays a tree.
TypeOK ==
  /\ IsTree(tree)
  /\ step \in {"mkdir", "remove", "look", "clear", "rename", "done"}
  /\ result \in {"none", "ok", "error"}

\* What is renamed is never lost: without interference, and unless one of the
\* two paths is within the other, all of it is at the old path, also after the
\* destination was removed for it, wherever the call has failed; and when the
\* call succeeds all of it is at the new path, and only there.
RenamedStaysWhole ==
  others = 0 /\ call.op = "rename" /\ ~IsPrefix(call.path, call.to) /\ ~IsPrefix(call.to, call.path) =>
    LET WholeAt(p) ==
          \A q \in Below(before, call.path) :
            LET r == Renamed(call.path, p, q) IN Exists(tree, r) /\ tree[r] = before[q]
    IN IF result = "ok" THEN WholeAt(call.to) /\ ~Exists(tree, call.path) ELSE WholeAt(call.path)

\* Without interference, what is outside of the paths of the call is as it was,
\* also behind links, and a call that does not overwrite, or is not recursive,
\* loses nothing but the one entry it is told to remove.
OthersKept ==
  others = 0 =>
    LET lost == {q \in DOMAIN before : ~Exists(tree, q) \/ tree[q] # before[q]} IN
    /\ \A q \in lost : IsPrefix(call.path, q) \/ (call.op = "rename" /\ IsPrefix(call.to, q))
    /\ call.op = "mkdir" => lost = {}
    /\ call.op = "remove" /\ ~call.flag => lost \subseteq {call.path}
    /\ call.op = "rename" /\ ~call.flag => Cardinality(DOMAIN tree) >= Cardinality(DOMAIN before) - 1
    /\ call.op = "rename" /\ ~call.flag /\ Exists(before, call.to) /\ before[call.to].kind # "link" =>
         call.to \notin lost

\* Only create_directory with parents makes more than one directory.
OneDirectory ==
  others = 0 /\ call.op = "mkdir" /\ ~call.flag =>
    Cardinality(DOMAIN tree) <= Cardinality(DOMAIN before) + 1

\* "renames without overwriting by default", also what others have written.
RenamesWithoutOverwriting ==
  [][call.op = "rename" /\ ~call.flag /\ others' = others /\ call.path # call.to =>
       \A q \in DOMAIN tree : q = call.to => q \in DOMAIN tree' /\ tree'[q] = tree[q]]_vars

\* "renames with overwrite when requested": what is renamed is at one of the
\* two places afterwards.
RenamedIsSomewhere ==
  others = 0 /\ call.op = "rename" /\ Exists(before, call.path) =>
    \E q \in {call.path, call.to} : Exists(tree, q) /\ tree[q] = before[call.path]
=============================================================================
