------------------------------- MODULE Local --------------------------------
(***************************************************************************)
(* What needs no server: one of the queue of local copies, the local       *)
(* adapter, the file masks and the functions on paths is used, and the     *)
(* variables of the others stay as they are.                               *)
(***************************************************************************)
EXTENDS Trees

CONSTANTS
  Requests, CopyPaths, TopDir, Files, Writes, MaxJobs,  \* of LocalCopy
  LocalTrees, LocalPaths, ContestedHere,                \* of LocalFiles
  MaxInterference,                                      \* of both
  MaskChars, PathChars, MaxMask, MaxMasks,              \* of FileMask
  Chars, LocalNames, CopyNumbers, Numerals, Home,       \* of RemotePaths
  MaxPath                                               \* of both

VARIABLES
  part,
  queue, nextId, files, dirs, copyStep, run, copyOthers, filesBefore,  \* of LocalCopy
  localTree, fileCall, fileStep, fileOthers, treeBefore, fileResult,   \* of LocalFiles
  masks, text, list, tried, inMask, inText, star, starText, decision,  \* of FileMask
  pathCall, pathResult                                                 \* of RemotePaths

Copies == INSTANCE LocalCopy WITH
  Paths <- CopyPaths, MaxOthers <- MaxInterference,
  step <- copyStep, others <- copyOthers, before <- filesBefore

Adapter == INSTANCE LocalFiles WITH
  Trees0 <- LocalTrees, Paths <- LocalPaths, Contested <- ContestedHere,
  MaxOthers <- MaxInterference,
  tree <- localTree, call <- fileCall, step <- fileStep, others <- fileOthers,
  before <- treeBefore, result <- fileResult

Masks == INSTANCE FileMask WITH
  path <- text, kind <- list, k <- tried, p <- inMask, t <- inText

Paths == INSTANCE RemotePaths WITH call <- pathCall, result <- pathResult

copyVars == <<queue, nextId, files, dirs, copyStep, run, copyOthers, filesBefore>>
fileVars == <<localTree, fileCall, fileStep, fileOthers, treeBefore, fileResult>>
maskVars == <<masks, text, list, tried, inMask, inText, star, starText, decision>>
pathVars == <<pathCall, pathResult>>
localVars == <<part, copyVars, fileVars, maskVars, pathVars>>

\* What is taken for granted of the constants: files hold bytes, and the jobs
\* copy to one of the paths.
FileAssumption(f) == f.there = TRUE /\ IsSequence(f.bytes)
ASSUME CopyAssumption ==
  /\ \A fs \in Files : DOMAIN fs \subseteq CopyPaths /\ \A x \in DOMAIN fs : FileAssumption(fs[x])
  /\ \A w \in Writes : FileAssumption(w)
  /\ \A request \in Requests :
       /\ request.destination \in CopyPaths
       /\ request.mode \in {"ask", "always", "never", "if_newer", "resume"}

\* The trees are trees, and all paths are sequences of names.  No call is made
\* through a link, and no link leads to another.
ASSUME TreeAssumption ==
  /\ \A tree \in LocalTrees :
       /\ IsTree(tree) /\ IsFiniteSet(DOMAIN tree) /\ \A p \in DOMAIN tree : IsSequence(p)
       /\ \A link \in {p \in DOMAIN tree : tree[p].kind = "link"} :
            /\ tree[link].of \in DOMAIN tree => tree[tree[link].of].kind # "link"
            /\ \A p \in LocalPaths : IsPrefix(link, p) => p = link
  /\ \A p \in LocalPaths \cup ContestedHere : IsSequence(p)

\* Numbers are written in different ways, a name has no slash in it and is
\* not ".", and a login starts in a directory whose path is absolute and, as
\* all paths that are trimmed, does not end in a blank.
ASSUME PathsAssumption ==
  /\ Chars \subseteq STRING /\ MaxPath \in Nat
  /\ Numerals \in [CopyNumbers -> STRING]
  /\ \A n \in CopyNumbers :
       Numerals[n] # "/" /\ \A m \in CopyNumbers \ {n} : Numerals[m] # Numerals[n]
  /\ \A name \in LocalNames :
       name \in Seq(STRING) /\ name \notin {<<>>, <<".">>} /\ \A i \in DOMAIN name : name[i] # "/"
  /\ Home \in Seq(STRING) /\ Home # <<>> /\ Home[1] = "/" /\ Home[Len(Home)] # " "

OneOf(S) == CHOOSE x \in S : TRUE

NoCopy == files = OneOf(Files) /\ Copies!Init
NoFileCall == localTree = OneOf(LocalTrees) /\ fileCall = OneOf(Adapter!Calls) /\ Adapter!Init
NoMask == masks = [excludes |-> <<>>, includes |-> <<>>] /\ text = <<>> /\ Masks!Init
NoPath == pathCall = [op |-> "delete", path |-> <<>>] /\ Paths!Init

LocalInit ==
  \/ part = "copies" /\ Copies!Init /\ NoFileCall /\ NoMask /\ NoPath
  \/ part = "files" /\ NoCopy /\ Adapter!Init /\ NoMask /\ NoPath
  \/ part = "masks" /\ NoCopy /\ NoFileCall /\ Masks!Init /\ NoPath
  \/ part = "paths" /\ NoCopy /\ NoFileCall /\ NoMask /\ Paths!Init

Copying == part = "copies" /\ Copies!Next /\ UNCHANGED <<part, fileVars, maskVars, pathVars>>
Calling == part = "files" /\ Adapter!Next /\ UNCHANGED <<part, copyVars, maskVars, pathVars>>
Masking == part = "masks" /\ Masks!Next /\ UNCHANGED <<part, copyVars, fileVars, pathVars>>
OnPaths == part = "paths" /\ Paths!Return /\ UNCHANGED <<part, copyVars, fileVars, maskVars>>

LocalSpec == LocalInit /\ [][Copying \/ Calling \/ Masking \/ OnPaths]_localVars

-----------------------------------------------------------------------------

\* Masks decide as they mean: the backtracking of wildcard_match keeps only
\* beginnings that match and loses no match, an exclusion wins, and
\* without include masks all is included.  For paths without a star.
MasksDecide ==
  [](Masks!ConsumedMatches /\ Masks!DecidedByMasks) /\ Masks!LeftOnlyIfNoMatch

\* Paths mean what is done to them: a numbered name is a new sibling, which
\* uploads and downloads number alike unless the path ends in "..", an upload
\* lands at its path or just inside it and never a file onto a directory, an
\* absolute FTP path is looked up where it is stored.
PathsLandRight ==
  part = "paths" =>
    /\ Paths!NumberedSibling /\ Paths!NumberedAlike
    /\ Paths!UploadLandsAtOrInside
    /\ Paths!AbsoluteLookedUpWhereStored

\* Jobs start in the order they were queued in, one that was started is
\* completed or failed when the executor returns, and a completed job leaves
\* what its mode says, if no other program interferes: a skipped destination as
\* it was, a copied one like the source, one that was resumed, too.
CopiesKeepPromise ==
  [](Copies!TypeOK /\ Copies!RunningIsExecuted) /\ Copies!StartsFirstQueued /\ Copies!CompletedKeepsPromise

\* Without interference, a call of the local adapter leaves what is outside of
\* its paths as it was, also behind links, and loses no more than it is told to.
OthersKept == Adapter!TypeOK /\ Adapter!OthersKept /\ Adapter!OneDirectory

\* Without interference, a rename of the local adapter loses nothing of what it
\* renames, wherever it fails, though it removes the destination first.
RenamedStaysWhole == Adapter!RenamedStaysWhole
=============================================================================
