---------------------------- MODULE MCGuiSession ----------------------------
(***************************************************************************)
(* GuiSession for TLC.                                                     *)
(***************************************************************************)
EXTENDS GuiSession, TLC

CONSTANTS a, b, m, n

\* One destination, one file at a time.
OneName == {<<m>>}

\* Two destinations, one at a time or both.
TwoNames == {<<m>>, <<m, n>>}

\* No property tells one server from another.
HostSymmetry == Permutations(Hosts)

AllAnswers == {"keep-existing", "replace", "keep-both"}
OneAnswer == {"replace"}

Unhurried == {"cancel", "tunnel", "others"}
Direct == {"scp"}
Overlapping == {"overlap"}
=============================================================================
