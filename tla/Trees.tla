------------------------------- MODULE Trees -------------------------------
(***************************************************************************)
(* File trees as functions from paths to entries, the calls that file      *)
(* servers and file systems offer on them, and the numbered names of       *)
(* numbered_conflict_path (see RemotePaths for how those are spelled).     *)
(* A path is a sequence of names, a name a sequence: <<"f">>, <<"f", 1>>.  *)
(***************************************************************************)
EXTENDS Naturals, Sequences, FiniteSets

\* What paths need of SequencesExt, without the rest of it: every instance of
\* a module on trees is in the context of each of its proofs.
ToSet(p) == {p[i] : i \in DOMAIN p}
Front(p) == SubSeq(p, 1, Len(p) - 1)
Last(p) == p[Len(p)]
IsPrefix(p, q) == Len(p) <= Len(q) /\ p = SubSeq(q, 1, Len(p))
IsSequence(p) == p \in Seq(ToSet(p))

Root == <<>>

\* The content of an entry nobody of the model wrote.
Theirs == <<<<"-">>>>

File(of, size) == [kind |-> "file", of |-> of, size |-> size]
Dir(of) == [kind |-> "dir", of |-> of, size |-> 0]

Exists(tree, p) == p \in DOMAIN tree
IsDir(tree, p) == Exists(tree, p) /\ tree[p].kind = "dir"
IsFile(tree, p) == Exists(tree, p) /\ tree[p].kind = "file"
Parent(p) == Front(p)
CanAdd(tree, p) == p # Root /\ ~Exists(tree, p) /\ IsDir(tree, Parent(p))

With(tree, p, entry) ==
  [q \in DOMAIN tree \cup {p} |-> IF q = p THEN entry ELSE tree[q]]
Below(tree, p) == {q \in DOMAIN tree : IsPrefix(p, q)}
Without(tree, p) == [q \in DOMAIN tree \ Below(tree, p) |-> tree[q]]
Children(tree, p) == {q \in Below(tree, p) : Len(q) = Len(p) + 1}
IsEmptyDir(tree, p) == IsDir(tree, p) /\ Children(tree, p) = {}

\* Every path of a tree is in a directory of it.
IsTree(tree) ==
  /\ IsDir(tree, Root)
  /\ \A p \in DOMAIN tree \ {Root} : IsDir(tree, Parent(p))

SizeBelow(tree, p) ==
  LET size[paths \in SUBSET Below(tree, p)] ==
        IF paths = {} THEN 0
        ELSE LET q == CHOOSE q \in paths : TRUE IN tree[q].size + size[paths \ {q}]
  IN size[Below(tree, p)]

\* "name (n).ext" beside the path; n = 0 is the path itself.
Numbered(p, n) ==
  IF n = 0 THEN p ELSE Append(Front(p), Append(Last(p), n))
=============================================================================
