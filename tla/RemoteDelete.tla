---------------------------- MODULE RemoteDelete ----------------------------
(***************************************************************************)
(* The recursive delete of ssh2_backend.rs (SFTP) and of                   *)
(* crossscp-protocol-ftp/src/lib.rs, one remote call per step, on trees    *)
(* with symbolic links, while another client of the server creates and     *)
(* removes entries.                                                        *)
(***************************************************************************)
EXTENDS Trees

CONSTANTS
  Protocols,  \* "sftp", "ftp"
  Remotes,    \* remote trees to start from; a link's "of" is where it leads
  Target,     \* the path that is deleted
  Contested,  \* paths the other client creates or removes
  MaxOthers   \* bound: what the other client does meanwhile

HasLink(tree, p) == Exists(tree, p) /\ tree[p].kind = "link"

\* The path that is deleted is no detour over a link, and nobody removes the root.
ASSUME TargetAssumption ==
  /\ IsSequence(Target) /\ Target # Root
  /\ \A tree \in Remotes : /\ IsTree(tree) /\ IsFiniteSet(DOMAIN tree)
                           /\ \A p \in DOMAIN tree : IsSequence(p)
  /\ \A p \in Contested : IsSequence(p) /\ p # Root
  /\ \A tree \in Remotes, i \in 1..Len(Target) - 1 : ~HasLink(tree, SubSeq(Target, 1, i))
  /\ Protocols \subseteq {"sftp", "ftp"}
  /\ MaxOthers \in Nat

VARIABLES
  protocol,        \* the call
  remote, others,  \* the server, and what others did to it
  found, removed,  \* history: the remote tree at first, what this call removed,
  seen,            \* and what was in each directory when it was first read
  step, stack,     \* the next call; the directories that are being emptied, each
                   \* with the entries that were read and are left, and with
                   \* those of them that were listed as directories
  result

vars == <<protocol, remote, others, found, removed, seen, step, stack, result>>

IsLink(p) == HasLink(remote, p)

\* The server follows links on the way to a path,
OnTheWay(p) ==
  LET links == {i \in 1..Len(p) - 1 : IsLink(SubSeq(p, 1, i))}
  IN IF links = {} THEN p
     ELSE LET i == CHOOSE i \in links : TRUE
          IN remote[SubSeq(p, 1, i)].of \o SubSeq(p, i + 1, Len(p))
\* and, for stat and listings, a link at its end.
Followed(p) == IF IsLink(OnTheWay(p)) THEN remote[OnTheWay(p)].of ELSE OnTheWay(p)

Init ==
  /\ protocol \in Protocols /\ remote \in Remotes
  /\ others = 0 /\ found = remote /\ removed = {} /\ seen = <<>> /\ result = "none"
  /\ step = [call |-> "look", path |-> Target] /\ stack = <<>>

-----------------------------------------------------------------------------

Call(name, path) == step' = [call |-> name, path |-> path]
Return == step' = [call |-> "next", path |-> Target]
Doing(name) == result = "none" /\ step.call = name
Look == UNCHANGED <<protocol, remote, others, found, removed, seen, result>>

\* A call fails, and with it the deletion.
CallFails ==
  /\ result = "none" /\ step.call # "next"
  /\ result' = "error"
  /\ UNCHANGED <<protocol, remote, others, found, removed, seen, step, stack>>

\* stat and listings follow a link.
LooksLikeDirectory(p) == IsDir(remote, Followed(p))

Entries(p) == {Append(p, Last(q)) : q \in Children(remote, Followed(p))}

\* Faulty variant of Listed: a link is what it leads to.
ListedFollowing(p) == IsDir(remote, Followed(p))

Listed(p) == IsDir(remote, OnTheWay(p))

EnterDirectory ==
  /\ Doing("look") /\ LooksLikeDirectory(step.path)
  /\ LET p == step.path
         entries == Entries(p)
     IN /\ stack' = Append(stack, [path |-> p, todo |-> entries,
                                    dirs |-> {q \in entries : Listed(q)}])
        /\ seen' = IF p \in DOMAIN seen THEN seen ELSE With(seen, p, entries)
  /\ Return /\ UNCHANGED <<protocol, remote, others, found, removed, result>>

\* What SFTP has seen and is no directory is unlinked, what is not there is an
\* error; FTP tries to remove whatever it cannot list, for whatever reason.
LeaveDirectoryAlone ==
  /\ Doing("look")
  /\ protocol = "sftp" => Exists(remote, Followed(step.path)) /\ ~LooksLikeDirectory(step.path)
  /\ Call(IF protocol = "sftp" THEN "unlink" ELSE "remove", step.path)
  /\ UNCHANGED stack /\ Look

\* SFTP looks at every entry; FTP goes by the listing, in which a link is none.
Child(p) ==
  /\ Doing("next") /\ stack # <<>> /\ p \in Last(stack).todo
  /\ stack' = Append(Front(stack), [Last(stack) EXCEPT !.todo = @ \ {p}])
  /\ Call(IF protocol = "ftp" /\ p \notin Last(stack).dirs THEN "unlink" ELSE "look", p)
  /\ Look

\* Unlinking does not follow a link at the end of the path.
Unlink ==
  /\ Doing("unlink") \/ Doing("remove")
  /\ LET p == OnTheWay(step.path)
     IN /\ Exists(remote, p) /\ ~IsDir(remote, p)
        /\ remote' = Without(remote, p) /\ removed' = removed \cup {p}
  /\ Return /\ UNCHANGED <<protocol, others, found, seen, stack, result>>

\* delete_path of FTP: what is no file may be an empty directory.
UnlinkFails ==
  /\ Doing("remove")
  /\ Call("rmdir", step.path) /\ UNCHANGED stack /\ Look

\* Faulty variant of Emptied: the directory itself is left.
EmptiedOnly ==
  /\ Doing("next") /\ stack # <<>> /\ Last(stack).todo = {}
  /\ Return /\ stack' = Front(stack) /\ Look

\* Faulty variant of Emptied: what is not empty is read and emptied once more.
EmptiedAgain ==
  /\ Doing("next") /\ stack # <<>> /\ Last(stack).todo = {}
  /\ Call(IF Entries(Last(stack).path) = {} THEN "rmdir" ELSE "look", Last(stack).path)
  /\ stack' = Front(stack) /\ Look

Emptied ==
  /\ Doing("next") /\ stack # <<>> /\ Last(stack).todo = {}
  /\ Call("rmdir", Last(stack).path) /\ stack' = Front(stack) /\ Look

\* The server removes no directory that has something in it.
Rmdir ==
  /\ Doing("rmdir")
  /\ LET p == OnTheWay(step.path)
     IN /\ IsEmptyDir(remote, p)
        /\ remote' = Without(remote, p) /\ removed' = removed \cup {p}
  /\ Return /\ UNCHANGED <<protocol, others, found, seen, stack, result>>

Done ==
  /\ Doing("next") /\ stack = <<>>
  /\ result' = "ok"
  /\ UNCHANGED <<protocol, remote, others, found, removed, seen, step, stack>>

Other ==
  /\ others < MaxOthers /\ result = "none"
  /\ others' = others + 1
  /\ \E p \in Contested :
       \/ CanAdd(remote, p) /\ \E e \in {File(Theirs, 0), Dir(Theirs)} : remote' = With(remote, p, e)
       \/ (IsFile(remote, p) \/ IsEmptyDir(remote, p)) /\ remote' = Without(remote, p)
  /\ UNCHANGED <<protocol, found, removed, seen, step, stack, result>>

Us ==
  \/ CallFails \/ EnterDirectory \/ LeaveDirectoryAlone \/ Unlink \/ UnlinkFails
  \/ (\E i \in DOMAIN stack : \E p \in stack[i].todo : Child(p)) \/ Emptied \/ Rmdir \/ Done

Next == Us \/ Other

Spec == Init /\ [][Next]_vars

-----------------------------------------------------------------------------

\* The variables have their types and the remote tree stays a tree.
TypeOK ==
  /\ result \in {"none", "ok", "error"} /\ IsTree(remote)
  /\ step.call \in {"look", "unlink", "remove", "rmdir", "next"}
  /\ \A i \in DOMAIN stack : \A p \in stack[i].todo : IsPrefix(stack[i].path, p)

\* "Delete this file or folder?": nothing outside of it is removed.
DeletesOnlyThis == \A p \in removed : IsPrefix(Target, p)

\* No link leads out of what is deleted.
Direct ==
  \/ \A p \in DOMAIN found : ~HasLink(found, p)
  \/ protocol = "ftp" /\ ~HasLink(found, Target)

\* That holds whatever others do if there were no links, and for FTP also with
\* links in the directory, as long as it was not a link itself.
StaysInside == Direct => DeletesOnlyThis

\* Success means that it is gone: what others create in it meanwhile makes the
\* last rmdir fail, unless they make it anew afterwards.
GoneIfOk == result = "ok" => Target \in removed

\* What another client puts into a directory after it was read is neither
\* unlinked nor removed with it, at any depth: a step of the deletion takes
\* away the path itself or what was in its directory at the first reading.
Seen(p) == p = Target \/ (Parent(p) \in DOMAIN seen /\ p \in seen[Parent(p)])
LateEntriesKept ==
  [][others' = others /\ Direct => \A p \in DOMAIN remote \ DOMAIN remote' : Seen(p)]_vars
=============================================================================
