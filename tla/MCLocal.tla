------------------------------ MODULE MCLocal -------------------------------
(***************************************************************************)
(* Local for TLC.                                                          *)
(***************************************************************************)
EXTENDS Local, TLC

\* A source of two bytes, onto nothing, an older file, a newer one, its own
\* beginning, another short file, and a longer file, beside a destination
\* whose directory is missing.
S == [dir |-> "top", name |-> "s"]
D == [dir |-> "top", name |-> "d"]
M == [dir |-> "new", name |-> "d"]
Bytes(bytes, modified) == [there |-> TRUE, bytes |-> bytes, modified |-> modified]
Pair(d) == [x \in {S, D} |-> IF x = S THEN Bytes(<<1, 2>>, 2) ELSE d]
Alone == [x \in {S} |-> Bytes(<<1, 2>>, 2)]
MCCopyPaths == {S, D, M}
MCFiles ==
  { Alone, Pair(Bytes(<<1>>, 1)), Pair(Bytes(<<3>>, 2)), Pair(Bytes(<<3, 3>>, 0)),
    Pair(Bytes(<<3, 3, 3>>, 1)) }
MCWrites == {Bytes(<<4>>, 3)}
Ask(mode, s, d, create) ==
  [direction |-> "local_copy", mode |-> mode, source |-> s, destination |-> d, create |-> create]
MCRequests ==
  {[Ask("always", S, D, FALSE) EXCEPT !.direction = "upload"]} \cup
  {Ask(mode, S, D, FALSE) : mode \in {"ask", "always", "never", "if_newer", "resume"}}
    \cup {Ask("never", S, M, TRUE), Ask("always", S, M, FALSE), Ask("always", S, S, TRUE)}

\* Files, a directory with a file and a subdirectory, an empty directory, a
\* link to a directory and one to nothing.
A == <<"a">>
B == <<"b">>
C == <<"c">>
Entry(kindOf, of, size) == [kind |-> kindOf, of |-> of, size |-> size]
Full ==
  [x \in {<<>>, <<A>>, <<B>>, <<B, A>>, <<B, B>>, <<C>>} |->
     IF x \in {<<A>>, <<B, A>>} THEN Entry("file", x, 1)
     ELSE IF x = <<C>> THEN Entry("link", <<B>>, 0) ELSE Entry("dir", x, 0)]
Sparse ==
  [x \in {<<>>, <<A>>, <<B>>, <<C>>} |->
     IF x = <<A>> THEN Entry("file", x, 1)
     ELSE IF x = <<C>> THEN Entry("link", <<B, C>>, 0) ELSE Entry("dir", x, 0)]
MCTrees == {Full, Sparse}
MCPaths == {<<A>>, <<B>>, <<C>>, <<B, A>>, <<B, B>>, <<B, B, A>>}
MCContested == {<<A>>, <<B, A>>, <<B, B>>}

\* Paths of four characters have two slashes and a name, or a name with an
\* extension, or a leading and a trailing blank.
MCLocalNames == {<<"a">>, <<"a", ".", "a">>, <<"download">>}
MCCopyNumbers == {1, 2}
MCNumerals == [n \in MCCopyNumbers |-> " (" \o ToString(n) \o ")"]
MCHome == <<"/", "h">>
=============================================================================
