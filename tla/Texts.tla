------------------------------- MODULE Texts --------------------------------
(***************************************************************************)
(* Texts as sequences of characters.  Split is str::split, the parts of a  *)
(* text between the separators, one more than there are separators; it is  *)
(* written as a function over the positions of the text, so that what it   *)
(* returns can be proved by induction.                                     *)
(***************************************************************************)
EXTENDS Naturals, Sequences

\* One more character: a separator starts a part, another one is added to the
\* last part.
SplitMore(parts, char, separator) ==
  IF char = separator THEN Append(parts, <<>>)
  ELSE [parts EXCEPT ![Len(parts)] = Append(@, char)]

Split(text, separator) ==
  LET parts[i \in 0..Len(text)] ==
        IF i = 0 THEN <<<<>>>> ELSE SplitMore(parts[i - 1], text[i], separator)
  IN parts[Len(text)]
=============================================================================
