----------------------------- MODULE Selection ------------------------------
(***************************************************************************)
(* The members of a sequence that lie in a set, in their order: SelectSeq  *)
(* for a set instead of a predicate, written as a function over the        *)
(* positions, so that what it returns can be proved by induction.          *)
(***************************************************************************)
EXTENDS Naturals, Sequences

Select(s, S) ==
  LET picked[i \in 0..Len(s)] ==
        IF i = 0 THEN <<>>
        ELSE IF s[i] \in S THEN Append(picked[i - 1], s[i]) ELSE picked[i - 1]
  IN picked[Len(s)]
=============================================================================
