---------------------------- MODULE MCTransfers -----------------------------
(***************************************************************************)
(* One transfer of any kind, for TLC (see Transfers).  A file, an empty    *)
(* directory, or a directory with a file and a subdirectory goes onto      *)
(* every mix of files, directories and nothing in their places, with the   *)
(* first numbered name taken or free; for SCP, a file of up to three bytes.*)
(***************************************************************************)
EXTENDS Transfers

R == <<"r">>
F == <<"f">>
D == <<"d">>
MCName == <<"s">>
Source(paths, files) ==
  [p \in paths |-> IF p \in files THEN File(Theirs, Len(p) + 1) ELSE Dir(Theirs)]
AFile == Source({Root}, {Root})
MCSources ==
  { AFile,
    Source({Root}, {}),
    Source({Root, <<F>>, <<D>>, <<D, F>>}, {<<F>>, <<D, F>>}) }

S == <<R, MCName>>
TreesOver(places) ==
  {t \in {[p \in {Root, <<R>>} \cup files \cup dirs |->
             IF p \in files THEN File(Theirs, 0) ELSE Dir(Theirs)] :
            files \in SUBSET places, dirs \in SUBSET places} : IsTree(t)} \cup {Bare}
Places == {S, S \o <<F>>, S \o <<D>>, Numbered(S, 1)}
MCRemotes == TreesOver(Places)
MCLocals == TreesOver(Places \cup {S \o <<D, F>>})
MCGivens == {<<R>>, S}
MCContested == {S, S \o <<F>>, Numbered(S, 1), Numbered(S, 1) \o <<F>>}
MCContestedHere == {S, S \o <<F>>, Numbered(S, 1), S \o <<D, F>>}
MCContents == {<<"new">>, <<"new", "old">>, <<"new", "new", "new">>, <<>>}
MCBefore == {<<"old", "old", "old">>}
=============================================================================
