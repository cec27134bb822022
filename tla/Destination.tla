---------------------------- MODULE Destination ----------------------------
(***************************************************************************)
(* What an upload or download promises about the tree it writes to, by     *)
(* FileConflictPolicy (crates/crossscp-core/src/protocol.rs): "Keep the    *)
(* destination item", "Replace conflicting files and merge matching        *)
(* directories", "Preserve both".  The protocol adapters implement it.     *)
(***************************************************************************)
EXTENDS Trees

VARIABLES
  policy, source,  \* the call: the policy, and the tree that is transferred
  root,            \* where its root goes, before any numbering
  tree, others,    \* the destination, and how often others changed it
  arrived,         \* the source paths that are delivered or skipped
  result           \* "none", "ok" or "error"

vars == <<policy, source, root, tree, others, arrived, result>>

Init == IsTree(tree) /\ arrived = {} /\ result = "none"

\* An entry this transfer made itself.
Ours(p) == Exists(tree, p) /\ tree[p].of # Theirs

\* Replace may take away what is in the place of a source path, except a
\* directory that matches a directory.
MayTake(p) ==
  /\ policy = "replace"
  /\ \E s \in DOMAIN source : p = root \o s /\ ~(IsDir(source, s) /\ IsDir(tree, p))

\* What it may take away may go piece by piece.
MayClear(p) == \E s \in DOMAIN source : MayTake(root \o s) /\ IsPrefix(root \o s, p)

Add(p) == CanAdd(tree, p) /\ tree' = With(tree, p, tree'[p])
Rewrite(p) == IsFile(tree, p) /\ (Ours(p) \/ MayTake(p)) /\ tree' = With(tree, p, tree'[p])
Take(p) == MayClear(p) /\ tree' = Without(tree, p)

Write ==
  /\ result = "none" /\ result' = "none"
  /\ \/ UNCHANGED tree
     \/ \E p \in DOMAIN tree' : (Add(p) \/ Rewrite(p)) /\ tree'[p].of # Theirs
     \/ \E p \in DOMAIN tree : Take(p)
  /\ arrived \subseteq arrived' /\ arrived' \subseteq DOMAIN source
  /\ UNCHANGED <<policy, source, others>>

\* Success means that every source path was delivered or skipped.
Finish ==
  /\ result = "none" /\ result' \in {"ok", "error"}
  /\ result' = "ok" => arrived = DOMAIN source
  /\ UNCHANGED <<policy, source, tree, others, arrived>>

Others ==
  /\ others' = others + 1
  /\ UNCHANGED <<policy, source, root, arrived, result>>

Next == Write \/ Finish \/ Others

Spec == Init /\ [][Next]_vars
=============================================================================
