------------------------------ MODULE FileMask ------------------------------
(***************************************************************************)
(* crates/crossscp-core/src/masks.rs: a path is decided by a set of        *)
(* exclude masks, then by a set of include masks, each mask tried by the   *)
(* two loops of wildcard_match.  One step is one turn of a loop.           *)
(* The loops compare bytes: a character here is a byte of the UTF-8 text,  *)
(* so that "?" stands for one byte and not for one letter of a path that   *)
(* is not ASCII.                                                           *)
(***************************************************************************)
EXTENDS Naturals, Sequences, SequencesExt

CONSTANTS
  MaskChars,   \* characters (bytes) of masks, among them "*" and "?"
  PathChars,   \* characters of paths
  MaxMask,     \* bound: the longest mask
  MaxPath,     \* bound: the longest path
  MaxMasks     \* bound: masks of each kind

VARIABLES
  masks,           \* [excludes, includes]: the set
  path,            \* the text
  kind, k,         \* the list that is tried, and the mask in it
  p, t,            \* how much of the mask and of the path is consumed
  star, starText,  \* where to try again: just after the last star, if any
  decision         \* "none" until decide returns

vars == <<masks, path, kind, k, p, t, star, starText, decision>>

NoStar == 0

MaskLists == UNION {[1..n -> SeqOf(MaskChars, MaxMask)] : n \in 0..MaxMasks}
MaskSets == [excludes : MaskLists, includes : MaskLists]

Init ==
  /\ masks \in MaskSets
  /\ path \in SeqOf(PathChars, MaxPath)
  /\ kind = "excludes" /\ k = 1
  /\ p = 0 /\ t = 0 /\ star = NoStar /\ starText = 0
  /\ decision = "none"

-----------------------------------------------------------------------------

Trying == decision = "none" /\ k <= Len(masks[kind])
Mask == masks[kind][k]
MaskLeft == p < Len(Mask)
PathLeft == t < Len(path)
AtStar == MaskLeft /\ Mask[p + 1] = "*"

Fits == MaskLeft /\ Mask[p + 1] \in {"?", path[t + 1]}

Consume ==
  /\ Trying /\ PathLeft /\ Fits
  /\ p' = p + 1
  /\ t' = t + 1
  /\ UNCHANGED <<masks, path, kind, k, star, starText, decision>>

MeetStar ==
  /\ Trying /\ PathLeft /\ ~Fits /\ AtStar
  /\ star' = p + 1
  /\ p' = p + 1
  /\ starText' = t
  /\ UNCHANGED <<masks, path, kind, k, t, decision>>

\* One more character goes to the star.
NextStart == starText + 1

\* Faulty variant of TryAgain: the text is not taken back to where the star is
\* tried next.
TryAgainOnwards ==
  /\ Trying /\ PathLeft /\ ~Fits /\ ~AtStar /\ star # NoStar
  /\ p' = star
  /\ starText' = NextStart
  /\ UNCHANGED <<masks, path, kind, k, t, star, decision>>

TryAgain ==
  /\ Trying /\ PathLeft /\ ~Fits /\ ~AtStar /\ star # NoStar
  /\ p' = star
  /\ starText' = NextStart
  /\ t' = NextStart
  /\ UNCHANGED <<masks, path, kind, k, star, decision>>

\* The path is used up: stars that are left stand for nothing.
SkipStar ==
  /\ Trying /\ ~PathLeft /\ AtStar
  /\ p' = p + 1
  /\ UNCHANGED <<masks, path, kind, k, t, star, starText, decision>>

GivesUp == PathLeft /\ ~Fits /\ ~AtStar /\ star = NoStar
Matches == ~PathLeft /\ p = Len(Mask)
Returns == GivesUp \/ (~PathLeft /\ ~AtStar)

\* any() stops at the first mask that matches.
Return ==
  /\ Trying /\ Returns
  /\ IF Matches
       THEN /\ decision' = IF kind = "excludes" THEN "excluded" ELSE "included"
            /\ UNCHANGED k
       ELSE /\ k' = k + 1
            /\ UNCHANGED decision
  /\ p' = 0 /\ t' = 0 /\ star' = NoStar /\ starText' = 0
  /\ UNCHANGED <<masks, path, kind>>

\* No mask matched: without include masks everything is included.
Otherwise == IF masks.includes = <<>> THEN "included" ELSE "excluded"

\* The list is used up.
NextList ==
  /\ decision = "none" /\ ~Trying
  /\ IF kind = "excludes"
       THEN kind' = "includes" /\ k' = 1 /\ UNCHANGED decision
       ELSE decision' = Otherwise /\ UNCHANGED <<kind, k>>
  /\ UNCHANGED <<masks, path, p, t, star, starText>>

Next == Consume \/ MeetStar \/ TryAgain \/ SkipStar \/ Return \/ NextList

Spec == Init /\ [][Next]_vars

-----------------------------------------------------------------------------

(***************************************************************************)
(* What a mask means: its first i characters stand for the first j of the  *)
(* text, if the text can be cut so that each of them stands for a piece of *)
(* it.  cut[n] is the end of the piece of the n-th.                        *)
(***************************************************************************)
Cuts(cut, mask, text, i, j) ==
  /\ cut[0] = 0 /\ cut[i] = j
  /\ \A n \in 1..i :
       IF mask[n] = "*" THEN cut[n - 1] <= cut[n]
       ELSE cut[n] = cut[n - 1] + 1 /\ mask[n] \in {"?", text[cut[n]]}

StandsFor(mask, text, i, j) == \E cut \in [0..i -> 0..j] : Cuts(cut, mask, text, i, j)

Glob(mask, text) == StandsFor(mask, text, Len(mask), Len(text))

SomeMatches(list) == \E i \in DOMAIN masks[list] : Glob(masks[list][i], path)

\* Backtracking is sound: at every turn what is consumed of the mask stands
\* for what is consumed of the path, although starText has moved on since the
\* star was met.  (masks.rs wildcard_match)
ConsumedMatches ==
  Trying => /\ p \in 0..Len(Mask) /\ t \in 0..Len(path)
            /\ StandsFor(Mask, path, p, t)

\* wildcard_match takes a star of the path for a character that the star of a
\* mask is, first of all.
Plain == \A i \in DOMAIN path : path[i] # "*"

\* Only the last star is ever tried again, and no match is lost by that: a
\* mask is left for the next one only if it does not match.  For paths without
\* a star.
LeftOnlyIfNoMatch ==
  [][Plain /\ Trying /\ k' # k => ~Glob(Mask, path)]_vars

\* What the masks of the set mean: an exclusion wins, without include masks all
\* is included.
DecidedAsMeant ==
  decision = "included" <=>
    ~SomeMatches("excludes") /\ (masks.includes = <<>> \/ SomeMatches("includes"))

\* MaskSet::decide decides what its masks mean, for paths without a star.
DecidedByMasks == Plain /\ decision # "none" => DecidedAsMeant

\* "Build a mask from a pattern supporting `*` and `?` wildcards": also for a
\* path that has a star in it.
MaskedByWildcards == decision # "none" => DecidedAsMeant

=============================================================================
