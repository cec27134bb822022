--------------------------- MODULE MCRemoteDelete ---------------------------
(***************************************************************************)
(* RemoteDelete for TLC: a directory with a file, a subdirectory and a     *)
(* link to a directory outside, in every combination.                      *)
(***************************************************************************)
EXTENDS RemoteDelete

Outside == << <<"o">> >>
MCTarget == << <<"s">> >>
F == Append(MCTarget, <<"f">>)
D == Append(MCTarget, <<"d">>)
Linked == Append(MCTarget, <<"k">>)
Places == {MCTarget, F, D, Append(D, <<"f">>), Linked}
Entry(p, files, links) ==
  IF p \in files THEN File(Theirs, 0)
  ELSE IF p \in links THEN [kind |-> "link", of |-> Outside, size |-> 0]
  ELSE Dir(Theirs)
MCRemotes ==
  {t \in {[p \in {Root, Outside, Append(Outside, <<"f">>)} \cup there |->
             Entry(p, files \cup {Append(Outside, <<"f">>)}, links)] :
            there \in SUBSET Places, files \in SUBSET (Places \ {MCTarget}),
            links \in SUBSET {MCTarget, Linked}} : IsTree(t)}
MCContested == {F, Append(D, <<"f">>), Append(D, <<"g">>)}
=============================================================================
