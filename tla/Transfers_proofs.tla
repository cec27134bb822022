------------------------- MODULE Transfers_proofs --------------------------
(***************************************************************************)
(* Theorems about every kind of transfer, for all sources and trees, and   *)
(* whatever other clients and programs do meanwhile.                       *)
(*                                                                         *)
(* 1. An SFTP upload on its own.  Inv says where its walk is: what of the  *)
(*    source is delivered and what is still below an entry on the stack    *)
(*    (Covered), and, under Replace, that every path is the destination    *)
(*    followed by the path in the source (InPlace).  From it: nothing of   *)
(*    others is touched unasked, and the upload implements Destination.    *)
(* 2. Paths, trees and walks: Walks says of any walk of a source tree that *)
(*    what waits is apart from what is delivered, and covers the rest.     *)
(* 3. FTP uploads (FtpInv) and downloads (DownInv): what is delivered is   *)
(*    whole and in its place (Walk2, Undisturbed2), and what the next step *)
(*    relies on still holds if nobody interferes (FtpRelies, DownRelies).  *)
(* 4. The same for SFTP uploads (UploadInv).                               *)
(* 5. Sizes: what is counted is the size of what is delivered (Counted).   *)
(* 6. SCP uploads (ScpInv).                                                *)
(* 7. All of them together (TransferInv), and the theorems.                *)
(***************************************************************************)
EXTENDS Transfers, DataLemmas

-----------------------------------------------------------------------------
(***************************************************************************)
(* 1. An SFTP upload on its own.                                           *)
(***************************************************************************)

ReplaceSteps == {"clear", "unlink", "open", "unlink_old", "create"}
FileSteps == {"file", "exclusive", "open", "unlink_old", "create", "copy"}
DirSteps == {"clear", "unlink", "ensure", "probe", "mkdir", "read"}
Busy == step \notin {"next", "done"}

CallOK ==
  /\ source \in Sources /\ policy \in Policies /\ given \in Givens
  /\ step \in Steps /\ others \in Nat
  /\ result = "none" <=> step # "done"
  /\ step \in ReplaceSteps => policy = "replace"
  /\ step \in {"number", "exclusive"} => policy # "replace"

ItemOK ==
  /\ DOMAIN item = {"local", "path", "n", "top"}
  /\ item.local \in DOMAIN source
  /\ item.top \in BOOLEAN
  /\ item.top => stack = <<>> /\ step \notin DirSteps
  /\ step \in FileSteps => ~IsDir(source, item.local)

IsFrame(frame) == DOMAIN frame = {"path", "todo"} /\ frame.todo \subseteq DOMAIN source

StackOK ==
  /\ \E Frames : stack \in Seq(Frames)
  /\ \A i \in DOMAIN stack : IsFrame(stack[i])

PlacedOK == DOMAIN placed \subseteq DOMAIN source

\* Outside of directories the item is the source itself.
TopIsFirst ==
  /\ step = "start" => stack = <<>>
  /\ Busy /\ stack = <<>> => item.local = Root

Reached(s) ==
  \/ s \in DOMAIN placed
  \/ Busy /\ IsPrefix(item.local, s)
  \/ \E i \in DOMAIN stack : \E d \in stack[i].todo : IsPrefix(d, s)

Covered == result # "error" => \A s \in DOMAIN source : Reached(s)

FrameInPlace(frame) ==
  \E d \in DOMAIN source : /\ frame.path = destination \o d
                           /\ frame.todo \subseteq Children(source, d)

InPlace ==
  policy = "replace" =>
    /\ \E Parts : destination \in Seq(Parts)
    /\ Busy /\ step # "start" => item.path = destination \o item.local
    /\ step \in FileSteps => item.n = 0
    /\ \A i \in DOMAIN stack : FrameInPlace(stack[i])

Inv == CallOK /\ ItemOK /\ StackOK /\ PlacedOK /\ TopIsFirst /\ Covered /\ InPlace

-----------------------------------------------------------------------------
(***************************************************************************)
(* Paths.                                                                  *)
(***************************************************************************)

\* The names in the paths of a source.
NamesOf(tree) == UNION {ToSet(s) : s \in DOMAIN tree}

LEMMA SourcePaths ==
  ASSUME NEW tree \in Sources
  PROVE  /\ Root \in DOMAIN tree
         /\ \A s \in DOMAIN tree :
              /\ s \in Seq(NamesOf(tree)) /\ MarkOf(s) # Theirs
              /\ \A k \in 0..Len(s) - 1 : IsDir(tree, SubSeq(s, 1, k))
<1>1. \A s \in DOMAIN tree : s \in Seq(ToSet(s)) /\ ToSet(s) \subseteq NamesOf(tree)
  BY TreesAssumption DEF NamesOf
<1>2. \A s \in DOMAIN tree : s \in Seq(NamesOf(tree))
  BY <1>1
<1> QED
  BY <1>2, TreesAssumption DEF Exists

\* Whatever is below a path is the path itself or below a child of it.
LEMMA BelowChildren ==
  ASSUME NEW tree \in Sources, NEW p \in DOMAIN tree, NEW s \in DOMAIN tree,
         IsPrefix(p, s), s # p
  PROVE  /\ IsDir(tree, p)
         /\ \E d \in Children(tree, p) : IsPrefix(d, s)
<1> DEFINE d == SubSeq(s, 1, Len(p) + 1)
           S == NamesOf(tree)
<1>1. /\ p \in Seq(S) /\ s \in Seq(S)
      /\ \A k \in 0..Len(s) - 1 : IsDir(tree, SubSeq(s, 1, k))
  BY SourcePaths
<1>2. Len(p) \in Nat /\ Len(s) \in Nat /\ Len(p) <= Len(s) /\ p = SubSeq(s, 1, Len(p))
  BY <1>1 DEF IsPrefix
<1>3. Len(p) < Len(s)
  <2>1. Len(p) = Len(s) => s = p
    BY <1>1, <1>2
  <2> QED
    BY <1>2, <2>1
<1>4. IsDir(tree, p)
  <2>1. Len(p) \in 0..Len(s) - 1
    BY <1>2, <1>3
  <2> QED
    BY <1>1, <1>2, <2>1
<1>5. d \in Seq(S) /\ Len(d) = Len(p) + 1 /\ \A i \in 1..Len(p) + 1 : d[i] = s[i]
  BY <1>1, <1>2, <1>3
<1>6. d \in DOMAIN tree
  <2>1. CASE Len(s) = Len(p) + 1
    <3>1. d = s
      BY <1>1, <1>2, <1>5, <2>1
    <3> QED
      BY <3>1
  <2>2. CASE Len(s) # Len(p) + 1
    <3>1. Len(p) + 1 \in 0..Len(s) - 1
      BY <1>2, <1>3, <2>2
    <3> QED
      BY <1>1, <3>1 DEF IsDir, Exists
  <2> QED
    BY <2>1, <2>2
<1>7. IsPrefix(p, d)
  <2>1. \A i \in 1..Len(p) : p[i] = d[i]
    BY <1>1, <1>2, <1>5
  <2> HIDE DEF d
  <2> QED
    BY <1>1, <1>2, <1>5, <2>1 DEF IsPrefix
<1>8. IsPrefix(d, s)
  <2> HIDE DEF d
  <2> QED
    BY <1>1, <1>2, <1>3, <1>5 DEF IsPrefix
<1>9. d \in Children(tree, p)
  BY <1>5, <1>6, <1>7 DEF Children, Below
<1> QED
  BY <1>4, <1>8, <1>9

\* A child of a directory goes to its name in the place of the directory.
LEMMA ChildInPlace ==
  ASSUME NEW tree \in Sources, NEW d \in DOMAIN tree, NEW s \in Children(tree, d),
         NEW Parts, NEW place \in Seq(Parts)
  PROVE  Append(place \o d, Last(s)) = place \o s
<1> DEFINE S == NamesOf(tree) \cup Parts
<1>1. d \in Seq(S) /\ s \in Seq(S) /\ place \in Seq(S)
  BY SourcePaths DEF Children, Below
<1>2. Len(s) = Len(d) + 1 /\ Len(d) \in Nat /\ \A i \in 1..Len(d) : d[i] = s[i]
  BY <1>1 DEF Children, Below, IsPrefix
<1> HIDE DEF S
<1> DEFINE a == Append(place \o d, Last(s))
           b == place \o s
<1>3. a \in Seq(S) /\ b \in Seq(S)
  BY <1>1, <1>2 DEF Last
<1>4. Len(a) = Len(place) + Len(d) + 1 /\ Len(b) = Len(a)
  BY <1>1, <1>2 DEF Last
<1>5. ASSUME NEW i \in 1..Len(a)
      PROVE  a[i] = b[i]
  <2>1. /\ place \o d \in Seq(S) /\ Len(place \o d) = Len(place) + Len(d)
        /\ Len(place) \in Nat /\ Last(s) = s[Len(s)] /\ Last(s) \in S
    BY <1>1, <1>2 DEF Last
  <2>2. CASE i <= Len(place)
    BY <1>1, <1>2, <1>4, <2>1, <2>2
  <2>3. CASE Len(place) < i /\ i <= Len(place) + Len(d)
    <3>1. i - Len(place) \in 1..Len(d)
      BY <1>2, <2>1, <2>3
    <3>2. a[i] = d[i - Len(place)] /\ b[i] = s[i - Len(place)]
      BY <1>1, <1>2, <1>4, <2>1, <2>3, <3>1
    <3> QED
      BY <1>2, <3>1, <3>2
  <2>4. CASE i = Len(place) + Len(d) + 1
    <3>1. a[i] = Last(s)
      BY <2>1, <2>4
    <3>2. b[i] = s[Len(d) + 1]
      BY <1>1, <1>2, <2>1, <2>4
    <3> QED
      BY <1>2, <2>1, <3>1, <3>2
  <2> QED
    BY <1>2, <1>4, <2>1, <2>2, <2>3, <2>4
<1> HIDE DEF a, b
<1>6. a = b
  BY <1>3, <1>4, <1>5, SeqEqual
<1> QED
  BY <1>6 DEF a, b

-----------------------------------------------------------------------------
(***************************************************************************)
(* The kinds of steps, and that each of them keeps the invariant.          *)
(***************************************************************************)

LEMMA InitInv == Init => Inv
<1> SUFFICES ASSUME Init
             PROVE  Inv
  OBVIOUS
<1>1. Root \in DOMAIN source /\ \A s \in DOMAIN source : s \in Seq(NamesOf(source))
  BY SourcePaths DEF Init
<1>2. CallOK
  BY DEF Init, CallOK, Steps, ReplaceSteps
<1>3. ItemOK
  BY <1>1 DEF Init, ItemOK, NoItem, DirSteps, FileSteps
<1>4. StackOK
  <2>1. stack \in Seq({})
    BY EmptySeq DEF Init
  <2> QED
    BY <2>1 DEF Init, StackOK
<1>5. PlacedOK
  BY DEF Init, PlacedOK
<1>6. TopIsFirst
  BY DEF Init, TopIsFirst, NoItem
<1>7. Covered
  BY <1>1, PrefixRefl DEF Init, Covered, Reached, Busy, NoItem
<1>8. InPlace
  <2>1. destination \in Seq({})
    BY EmptySeq DEF Init, Root
  <2> QED
    BY <2>1 DEF Init, InPlace, FileSteps
<1> QED
  BY <1>2, <1>3, <1>4, <1>5, <1>6, <1>7, <1>8 DEF Inv

LEMMA FailsInv ==
  ASSUME Inv, step # "done", Fails
  PROVE  Inv'
<1> USE DEF Inv, Fails
<1>1. /\ step' = "done" /\ result' = "error"
      /\ UNCHANGED <<policy, source, given, exact, others, item, stack, placed, destination>>
  BY DEF call
<1>2. CallOK'
  BY <1>1 DEF CallOK, Steps, ReplaceSteps
<1>3. ItemOK'
  BY <1>1 DEF ItemOK, DirSteps, FileSteps
<1>4. StackOK' /\ PlacedOK' /\ TopIsFirst' /\ Covered'
  BY <1>1 DEF StackOK, IsFrame, PlacedOK, TopIsFirst, Covered, Busy
<1>5. InPlace'
  BY <1>1 DEF InPlace, Busy, FileSteps, FrameInPlace
<1> QED
  BY <1>2, <1>3, <1>4, <1>5

\* A step that goes on with the same item.
Stays ==
  /\ Busy /\ step # "start"
  /\ UNCHANGED <<call, others, stack, placed, result, destination>>
  /\ step' \in Steps \ {"start", "next", "done"}
  /\ DOMAIN item' = DOMAIN item
  /\ item'.local = item.local /\ item'.path = item.path /\ item'.top = item.top
  /\ step' \in ReplaceSteps => policy = "replace"
  /\ step' \in {"number", "exclusive"} => policy # "replace"
  /\ step' \in {"resolve", "number"} => step \in {"resolve", "number"}
  /\ step' \in DirSteps => step \in DirSteps
  /\ step' \in FileSteps => step \in FileSteps /\ (policy = "replace" => item'.n = item.n)

LEMMA StaysInv ==
  ASSUME Inv, Stays
  PROVE  Inv'
<1> USE DEF Inv, call, Stays
<1>1. CallOK'
  BY DEF CallOK, Busy
<1>2. ItemOK'
  BY DEF ItemOK, IsDir
<1>3. StackOK' /\ PlacedOK' /\ TopIsFirst'
  BY DEF StackOK, IsFrame, PlacedOK, TopIsFirst, Busy
<1>4. Covered'
  BY DEF Covered, Reached, Busy
<1>5. InPlace'
  BY DEF InPlace, Busy, FrameInPlace
<1> QED
  BY <1>1, <1>2, <1>3, <1>4, <1>5

LEMMA StartInv ==
  ASSUME Inv, Start
  PROVE  Inv'
<1> USE DEF Inv, call
<1>1. /\ step = "start" /\ step' \in {"resolve", "file"}
      /\ step' = "file" => ~IsDir(source, Root)
      /\ UNCHANGED <<policy, source, given, exact, others, stack, placed, result>>
  BY DEF Start
<1>2. PICK path \in {given, Append(given, Name)} :
        item' = [NoItem EXCEPT !.path = path, !.top = TRUE] /\ destination' = path
  BY DEF Start
<1>3. /\ DOMAIN item' = {"local", "path", "n", "top"}
      /\ item'.local = Root /\ item'.path = destination' /\ item'.n = 0 /\ item'.top = TRUE
  BY <1>2 DEF NoItem
<1>4. Root \in DOMAIN source /\ \A s \in DOMAIN source : s \in Seq(NamesOf(source))
  BY SourcePaths DEF CallOK
<1>5. CallOK'
  BY <1>1 DEF CallOK, Steps, ReplaceSteps
<1>6. stack = <<>>
  BY <1>1 DEF TopIsFirst
<1>7. ItemOK'
  BY <1>1, <1>3, <1>4, <1>6 DEF ItemOK, DirSteps, FileSteps, IsDir
<1>8. StackOK' /\ PlacedOK' /\ TopIsFirst'
  BY <1>1, <1>3 DEF StackOK, IsFrame, PlacedOK, TopIsFirst
<1>9. Covered'
  BY <1>1, <1>3, <1>4, PrefixRefl DEF Covered, Reached, Busy
<1>10. InPlace'
  <2>1. given \in Seq(ToSet(given))
    BY TreesAssumption DEF CallOK
  <2>2. destination' \in Seq(ToSet(given) \cup {Name})
    BY <1>2, <2>1
  <2>3. destination' \o Root = destination'
    BY <2>2 DEF Root
  <2> QED
    BY <1>1, <1>3, <1>6, <2>2, <2>3 DEF InPlace
<1> QED
  BY <1>5, <1>7, <1>8, <1>9, <1>10

\* The steps that find the place of a directory.
LEMMA DestinedInv ==
  ASSUME Inv, step \in {"resolve", "number"}, NEW path,
         policy = "replace" => path = item.path, Destined(path)
  PROVE  Inv'
<1> USE DEF Inv, call
<1>1. /\ item' = [item EXCEPT !.path = path, !.n = 0, !.top = FALSE]
      /\ destination' = IF item.top THEN path ELSE destination
      /\ step' = IF item.top THEN "resolve" ELSE IF policy = "replace" THEN "clear" ELSE "ensure"
      /\ UNCHANGED <<policy, source, given, exact, others, stack, placed, result>>
  BY DEF Destined
<1>2. /\ DOMAIN item' = DOMAIN item /\ item'.local = item.local
      /\ item'.path = path /\ item'.top = FALSE
  BY <1>1 DEF ItemOK
<1>3. CallOK'
  BY <1>1 DEF CallOK, Steps, ReplaceSteps
<1>4. ItemOK'
  BY <1>1, <1>2 DEF ItemOK, FileSteps
<1>5. StackOK' /\ PlacedOK' /\ TopIsFirst'
  BY <1>1, <1>2 DEF StackOK, IsFrame, PlacedOK, TopIsFirst, Busy
<1>6. Covered'
  BY <1>1, <1>2 DEF Covered, Reached, Busy
<1>7. InPlace'
  <2>1. SUFFICES ASSUME policy = "replace"
                 PROVE  InPlace'
    BY <1>1 DEF InPlace
  <2>2. PICK Parts : destination \in Seq(Parts)
    BY <2>1 DEF InPlace
  <2>3. item.path = destination \o item.local /\ path = item.path
    BY <2>1 DEF InPlace, Busy
  <2>4. CASE item.top
    <3>1. item.local = Root /\ stack = <<>>
      BY <2>4 DEF TopIsFirst, ItemOK, Busy
    <3>2. path = destination
      BY <2>2, <2>3, <3>1 DEF Root
    <3>3. destination' = destination
      BY <1>1, <2>4, <3>2
    <3> QED
      BY <1>1, <1>2, <2>1, <2>2, <2>3, <3>3 DEF InPlace, FileSteps, FrameInPlace
  <2>5. CASE ~item.top
    BY <1>1, <1>2, <2>1, <2>2, <2>3, <2>5 DEF InPlace, FileSteps, FrameInPlace
  <2> QED
    BY <2>4, <2>5 DEF ItemOK
<1> QED
  BY <1>3, <1>4, <1>5, <1>6, <1>7

\* What is skipped is done with, together with what is below it.
LEMMA SkipInv ==
  ASSUME Inv, Busy, SkipItem("next")
  PROVE  Inv'
<1> USE DEF Inv, call
<1>1. /\ step' = "next"
      /\ DOMAIN placed' = DOMAIN placed \cup Below(source, item.local)
      /\ UNCHANGED <<policy, source, given, exact, others, item, stack, result, destination>>
  BY DEF SkipItem
<1>2. CallOK'
  BY <1>1 DEF CallOK, Steps, ReplaceSteps, Busy
<1>3. ItemOK'
  BY <1>1 DEF ItemOK, DirSteps, FileSteps
<1>4. StackOK' /\ PlacedOK' /\ TopIsFirst'
  BY <1>1 DEF StackOK, IsFrame, PlacedOK, TopIsFirst, Busy, Below
<1>5. Covered'
  BY <1>1 DEF Covered, Reached, Below
<1>6. InPlace'
  BY <1>1 DEF InPlace, Busy, FileSteps, FrameInPlace
<1> QED
  BY <1>2, <1>3, <1>4, <1>5, <1>6

\* The entries of a directory are still to be walked, the directory is placed.
LEMMA ReadDirectoryInv ==
  ASSUME Inv, ReadDirectory
  PROVE  Inv'
<1> USE DEF Inv, call
<1> DEFINE frame == [path |-> item.path, todo |-> Children(source, item.local)]
<1>1. /\ step = "read" /\ step' = "next"
      /\ stack' = Append(stack, frame)
      /\ DOMAIN placed' = DOMAIN placed \cup {item.local}
      /\ UNCHANGED <<policy, source, given, exact, others, item, result, destination>>
  BY DEF ReadDirectory, With
<1>2. PICK Frames : stack \in Seq(Frames)
  BY DEF StackOK
<1>3. item.local \in DOMAIN source /\ ~item.top
  BY <1>1 DEF ItemOK, DirSteps
<1>4. /\ stack' \in Seq(Frames \cup {frame}) /\ Len(stack) \in Nat
      /\ Len(stack') = Len(stack) + 1
      /\ \A i \in DOMAIN stack : i \in DOMAIN stack' /\ stack'[i] = stack[i]
      /\ stack'[Len(stack) + 1] = frame
      /\ \A i \in DOMAIN stack' : i \in DOMAIN stack \/ i = Len(stack) + 1
      /\ Len(stack) + 1 \in DOMAIN stack'
  <2> HIDE DEF frame
  <2> QED
    BY <1>1, <1>2
<1>5. CallOK'
  BY <1>1 DEF CallOK, Steps, ReplaceSteps
<1>6. ItemOK'
  BY <1>1, <1>3 DEF ItemOK, DirSteps, FileSteps
<1>7. StackOK'
  <2>1. DOMAIN frame = {"path", "todo"} /\ frame.todo \subseteq DOMAIN source
    BY DEF Children, Below
  <2>2. \A i \in DOMAIN stack' : DOMAIN stack'[i] = {"path", "todo"} /\ stack'[i].todo \subseteq DOMAIN source
    <3> HIDE DEF frame
    <3> QED
      BY <1>4, <2>1 DEF StackOK, IsFrame
  <2> HIDE DEF frame
  <2> QED
    BY <1>1, <1>4, <2>2 DEF StackOK, IsFrame
<1>8. PlacedOK' /\ TopIsFirst'
  BY <1>1, <1>3 DEF PlacedOK, TopIsFirst, Busy
<1>9. Covered'
  <2>1. SUFFICES ASSUME result # "error", NEW s \in DOMAIN source
                 PROVE  Reached(s)'
    BY <1>1 DEF Covered
  <2>2. CASE s \in DOMAIN placed
    BY <1>1, <2>2 DEF Reached
  <2>3. CASE IsPrefix(item.local, s)
    <3>1. CASE s = item.local
      BY <1>1, <3>1 DEF Reached
    <3>2. CASE s # item.local
      <4>1. PICK d \in Children(source, item.local) : IsPrefix(d, s)
        BY <1>3, <2>3, <3>2, BelowChildren DEF CallOK
      <4>2. d \in stack'[Len(stack) + 1].todo
        BY <1>4, <4>1
      <4> HIDE DEF frame
      <4> QED
        BY <1>4, <4>1, <4>2 DEF Reached
    <3> QED
      BY <3>1, <3>2
  <2>4. CASE \E i \in DOMAIN stack : \E d \in stack[i].todo : IsPrefix(d, s)
    <3> HIDE DEF frame
    <3> QED
      BY <1>4, <2>4 DEF Reached
  <2> QED
    BY <2>1, <2>2, <2>3, <2>4 DEF Covered, Reached
<1>10. InPlace'
  <2>1. SUFFICES ASSUME policy = "replace"
                 PROVE  InPlace'
    BY <1>1 DEF InPlace
  <2>2. item.path = destination \o item.local
    BY <1>1, <2>1 DEF InPlace, Busy
  <2>3. /\ frame.path = destination \o item.local
        /\ frame.todo \subseteq Children(source, item.local)
    BY <2>2
  <2>4. \A i \in DOMAIN stack' : FrameInPlace(stack'[i])
    <3> HIDE DEF frame
    <3> QED
      BY <1>3, <1>4, <2>1, <2>3 DEF InPlace, FrameInPlace
  <2> HIDE DEF frame
  <2> QED
    BY <1>1, <2>1, <2>4 DEF InPlace, FileSteps, Busy, FrameInPlace
<1> QED
  BY <1>5, <1>6, <1>7, <1>8, <1>9, <1>10

\* An entry of the directory on top is walked next.
LEMMA EnterInv ==
  ASSUME Inv, NEW local \in DOMAIN source, Enter(local)
  PROVE  Inv'
<1> USE DEF Inv, call
<1> DEFINE n == Len(stack)
           top == [stack[n] EXCEPT !.todo = @ \ {local}]
<1>1. /\ step = "next" /\ stack # <<>> /\ local \in stack[n].todo
      /\ item' = [NoItem EXCEPT !.local = local, !.path = Into(local)]
      /\ stack' = Append(Front(stack), top)
      /\ step' = IF IsDir(source, local) THEN "resolve" ELSE "file"
      /\ UNCHANGED <<policy, source, given, exact, others, placed, result, destination>>
  BY DEF Enter, Last
<1>2. PICK Frames : stack \in Seq(Frames)
  BY DEF StackOK
<1>3. n \in Nat \ {0} /\ n \in DOMAIN stack /\ IsFrame(stack[n])
  BY <1>1, <1>2 DEF StackOK
<1>4. /\ DOMAIN item' = {"local", "path", "n", "top"}
      /\ item'.local = local /\ item'.path = Into(local) /\ item'.n = 0 /\ item'.top = FALSE
  BY <1>1 DEF NoItem
<1>5. /\ top.path = stack[n].path /\ top.todo = stack[n].todo \ {local} /\ IsFrame(top)
  BY <1>3 DEF IsFrame
<1>6. /\ stack' \in Seq(Frames \cup {top}) /\ Len(stack') = n /\ stack' # <<>>
      /\ DOMAIN stack' = DOMAIN stack
      /\ \A i \in DOMAIN stack : i # n => stack'[i] = stack[i]
      /\ stack'[n] = top
  <2> HIDE DEF top
  <2>1. /\ Front(stack) \in Seq(Frames) /\ Len(Front(stack)) = n - 1
        /\ \A i \in 1..n - 1 : Front(stack)[i] = stack[i]
    BY <1>1, <1>2, FrontFacts
  <2> QED
    BY <1>1, <1>2, <1>3, <2>1
<1> HIDE DEF top
<1>7. CallOK'
  BY <1>1 DEF CallOK, Steps, ReplaceSteps
<1>8. ItemOK'
  BY <1>1, <1>4 DEF ItemOK, DirSteps, FileSteps
<1>9. StackOK'
  <2>1. \A i \in DOMAIN stack' : IsFrame(stack'[i])
    BY <1>3, <1>5, <1>6 DEF StackOK
  <2> QED
    BY <1>1, <1>6, <2>1 DEF StackOK, IsFrame
<1>10. PlacedOK' /\ TopIsFirst'
  BY <1>1, <1>6 DEF PlacedOK, TopIsFirst
<1>11. Covered'
  <2>1. SUFFICES ASSUME result # "error", NEW s \in DOMAIN source
                 PROVE  Reached(s)'
    BY <1>1 DEF Covered
  <2>2. CASE s \in DOMAIN placed
    BY <1>1, <2>2 DEF Reached
  <2>3. CASE \E i \in DOMAIN stack : \E d \in stack[i].todo : IsPrefix(d, s)
    <3>1. PICK i \in DOMAIN stack, d \in UNION {stack[j].todo : j \in DOMAIN stack} :
            d \in stack[i].todo /\ IsPrefix(d, s)
      BY <2>3
    <3>2. CASE i # n \/ d # local
      <4>1. d \in stack'[i].todo
        BY <1>5, <1>6, <3>1, <3>2
      <4> QED
        BY <1>6, <3>1, <4>1 DEF Reached
    <3>3. CASE d = local
      BY <1>1, <1>4, <3>1, <3>3 DEF Reached, Busy
    <3> QED
      BY <3>2, <3>3
  <2> QED
    BY <1>1, <2>1, <2>2, <2>3 DEF Covered, Reached, Busy
<1>12. InPlace'
  <2>1. SUFFICES ASSUME policy = "replace"
                 PROVE  InPlace'
    BY <1>1 DEF InPlace
  <2>2. PICK Parts : destination \in Seq(Parts)
    BY <2>1 DEF InPlace
  <2>3. PICK d \in DOMAIN source : /\ stack[n].path = destination \o d
                                   /\ stack[n].todo \subseteq Children(source, d)
    BY <1>3, <2>1 DEF InPlace, FrameInPlace
  <2>4. item'.path = destination \o local
    <3>1. local \in Children(source, d)
      BY <1>1, <2>3
    <3>2. Into(local) = Append(destination \o d, Last(local))
      BY <2>3 DEF Into, Last
    <3> QED
      BY <1>4, <2>2, <3>1, <3>2, ChildInPlace DEF CallOK
  <2>5. \A i \in DOMAIN stack' : FrameInPlace(stack'[i])
    <3>1. FrameInPlace(top)
      BY <1>5, <2>3 DEF FrameInPlace
    <3> QED
      BY <1>6, <2>1, <3>1 DEF InPlace
  <2> QED
    BY <1>1, <1>4, <2>1, <2>2, <2>4, <2>5 DEF InPlace, FrameInPlace
<1> QED
  BY <1>7, <1>8, <1>9, <1>10, <1>11, <1>12

\* A directory without entries left is left, at the end the upload succeeds.
LEMMA LeaveInv ==
  ASSUME Inv, Leave
  PROVE  Inv'
<1> USE DEF Inv, call
<1>1. /\ step = "next"
      /\ UNCHANGED <<policy, source, given, exact, others, item, placed, destination>>
  BY DEF Leave
<1>2. CASE stack = <<>> /\ step' = "done" /\ result' = "ok" /\ UNCHANGED stack
  <2>1. CallOK'
    BY <1>1, <1>2 DEF CallOK, Steps, ReplaceSteps
  <2>2. ItemOK' /\ StackOK' /\ PlacedOK' /\ TopIsFirst'
    BY <1>1, <1>2 DEF ItemOK, DirSteps, FileSteps, StackOK, IsFrame, PlacedOK, TopIsFirst, Busy
  <2>3. Covered'
    BY <1>1, <1>2 DEF Covered, Reached, Busy, CallOK
  <2>4. InPlace'
    BY <1>1, <1>2 DEF InPlace, FileSteps, Busy, FrameInPlace
  <2> QED
    BY <2>1, <2>2, <2>3, <2>4
<1>3. CASE stack # <<>> /\ Last(stack).todo = {} /\ stack' = Front(stack) /\ UNCHANGED <<step, result>>
  <2> DEFINE n == Len(stack)
  <2>1. PICK Frames : stack \in Seq(Frames)
    BY DEF StackOK
  <2>2. /\ n \in Nat \ {0} /\ DOMAIN stack = 1..n
        /\ stack' \in Seq(Frames) /\ DOMAIN stack' = 1..n - 1
        /\ \A i \in 1..n - 1 : stack'[i] = stack[i]
        /\ stack[n].todo = {}
    BY <1>3, <2>1 DEF Front, Last
  <2>3. CallOK'
    BY <1>1, <1>3 DEF CallOK
  <2>4. ~item.top
    BY <1>3 DEF ItemOK
  <2>5. ItemOK' /\ PlacedOK' /\ TopIsFirst'
    BY <1>1, <1>3, <2>4 DEF ItemOK, DirSteps, FileSteps, PlacedOK, TopIsFirst, Busy
  <2>6. StackOK'
    BY <1>1, <2>2 DEF StackOK, IsFrame
  <2>7. Covered'
    <3>1. \A s \in DOMAIN source : Reached(s) => Reached(s)'
      BY <1>1, <1>3, <2>2 DEF Reached, Busy
    <3> QED
      BY <1>1, <1>3, <3>1 DEF Covered
  <2>8. InPlace'
    <3>1. SUFFICES ASSUME policy = "replace"
                   PROVE  InPlace'
      BY <1>1 DEF InPlace
    <3>2. \A i \in DOMAIN stack' : i \in DOMAIN stack /\ stack'[i] = stack[i]
      BY <2>2
    <3>3. \A i \in DOMAIN stack' : FrameInPlace(stack'[i])
      BY <3>1, <3>2 DEF InPlace
    <3> QED
      BY <1>1, <1>3, <3>1, <3>3 DEF InPlace, FileSteps, Busy, FrameInPlace
  <2> QED
    BY <2>3, <2>5, <2>6, <2>7, <2>8
<1> QED
  BY <1>2, <1>3 DEF Leave

\* A file is placed, and nothing of the source is below it.
LEMMA CopyInv ==
  ASSUME Inv, Copy
  PROVE  Inv'
<1> USE DEF Inv, call
<1>1. /\ step = "copy" /\ step' = "next"
      /\ DOMAIN placed' = DOMAIN placed \cup {item.local}
      /\ destination' = IF stack = <<>> THEN Target ELSE destination
      /\ UNCHANGED <<policy, source, given, exact, others, item, stack, result>>
  BY DEF Copy, With
<1>2. CallOK'
  BY <1>1 DEF CallOK, Steps, ReplaceSteps
<1>3. ItemOK' /\ StackOK' /\ PlacedOK' /\ TopIsFirst'
  BY <1>1 DEF ItemOK, DirSteps, FileSteps, StackOK, IsFrame, PlacedOK, TopIsFirst, Busy
<1>4. Covered'
  <2>1. \A s \in DOMAIN source : IsPrefix(item.local, s) => s = item.local
    BY <1>1, BelowChildren DEF CallOK, ItemOK, FileSteps
  <2> QED
    BY <1>1, <2>1 DEF Covered, Reached
<1>5. InPlace'
  <2>1. SUFFICES ASSUME policy = "replace"
                 PROVE  InPlace'
    BY <1>1 DEF InPlace
  <2>2. PICK Parts : destination \in Seq(Parts)
    BY <2>1 DEF InPlace
  <2>3. Target = destination \o item.local
    BY <1>1, <2>1 DEF InPlace, FileSteps, Busy, Target, Numbered
  <2>4. stack = <<>> => Target = destination
    BY <1>1, <2>2, <2>3 DEF TopIsFirst, Busy, Root
  <2>5. destination' = destination
    BY <1>1, <2>4
  <2> QED
    BY <1>1, <2>1, <2>5 DEF InPlace, FileSteps, Busy, FrameInPlace
<1> QED
  BY <1>2, <1>3, <1>4, <1>5

\* What others do disturbs the server only.
LEMMA OtherInv ==
  ASSUME Inv, Other
  PROVE  Inv'
<1>1. /\ UNCHANGED <<policy, source, given, exact, step, item, stack, placed>>
      /\ UNCHANGED <<result, destination>>
      /\ others' = others + 1
  BY DEF Other, call
<1>2. CallOK' /\ ItemOK'
  BY <1>1 DEF Inv, CallOK, ItemOK
<1>3. StackOK' /\ PlacedOK' /\ TopIsFirst'
  BY <1>1 DEF Inv, StackOK, IsFrame, PlacedOK, TopIsFirst, Busy
<1>4. Covered'
  BY <1>1 DEF Inv, Covered, Reached, Busy
<1>5. InPlace'
  BY <1>1 DEF Inv, InPlace, Busy, FrameInPlace
<1> QED
  BY <1>2, <1>3, <1>4, <1>5 DEF Inv

-----------------------------------------------------------------------------
(***************************************************************************)
(* Every step is of one of these kinds.                                    *)
(***************************************************************************)

DirectoryStep ==
  Resolve \/ NumberDirectory \/ LookForFile \/ Unlink \/ Ensure \/ Probe \/ Mkdir

LEMMA DirectoryStepKinds ==
  ASSUME Inv, DirectoryStep
  PROVE  \/ Stays
         \/ Busy /\ policy = "keep_existing" /\ SkipItem("next")
         \/ \E path : /\ step \in {"resolve", "number"}
                      /\ policy = "replace" => path = item.path
                      /\ Destined(path)
<1> USE DEF GoOn, Look, Steps, Busy
<1>1. /\ DOMAIN item = {"local", "path", "n", "top"}
      /\ policy \in {"keep_existing", "replace", "keep_both"}
      /\ step \in {"clear", "unlink"} => policy = "replace"
      /\ step = "number" => policy # "replace"
  BY TreesAssumption DEF Inv, ItemOK, CallOK, ReplaceSteps
<1>2. ASSUME NEW m
      PROVE  LET other == [item EXCEPT !.n = m]
             IN /\ DOMAIN other = DOMAIN item
                /\ other.local = item.local /\ other.path = item.path /\ other.top = item.top
  BY <1>1
<1>3. CASE Resolve
  <2>1. \/ Destined(item.path)
        \/ policy = "keep_existing" /\ SkipItem("next")
        \/ policy = "keep_both" /\ item' = [item EXCEPT !.n = 1] /\ Look("number")
    BY <1>1, <1>3 DEF Resolve, Merges
  <2>2. step = "resolve"
    BY <1>3 DEF Resolve
  <2>3. CASE policy = "keep_both" /\ item' = [item EXCEPT !.n = 1] /\ Look("number")
    BY <1>2, <2>2, <2>3 DEF Stays, ReplaceSteps, DirSteps, FileSteps
  <2>4. CASE Destined(item.path)
    BY <2>2, <2>4
  <2> QED
    BY <2>1, <2>2, <2>3, <2>4
<1>4. CASE NumberDirectory
  <2>1. \/ Destined(Numbered(item.path, item.n))
        \/ item' = [item EXCEPT !.n = item.n + 1] /\ Look("number")
    BY <1>4 DEF NumberDirectory
  <2>2. step = "number" /\ policy # "replace"
    BY <1>1, <1>4 DEF NumberDirectory
  <2>3. CASE item' = [item EXCEPT !.n = item.n + 1] /\ Look("number")
    BY <1>2, <2>2, <2>3 DEF Stays, ReplaceSteps, DirSteps, FileSteps
  <2>4. CASE Destined(Numbered(item.path, item.n))
    BY <2>2, <2>4
  <2> QED
    BY <2>1, <2>3, <2>4
<1>5. CASE LookForFile
  BY <1>1, <1>5 DEF LookForFile, Stays, ReplaceSteps, DirSteps, FileSteps
<1>6. CASE Unlink
  BY <1>6 DEF Unlink, Stays, ReplaceSteps, DirSteps, FileSteps
<1>7. CASE Ensure
  <2>1. /\ step = "ensure" /\ item' = [item EXCEPT !.n = 1]
        /\ Look("read") \/ Look("probe")
    BY <1>7 DEF Ensure
  <2> QED
    BY <1>2, <2>1 DEF Stays, ReplaceSteps, DirSteps, FileSteps
<1>8. CASE Probe \/ Mkdir
  <2>1. /\ step \in {"probe", "mkdir"} /\ placed' = placed
        /\ item' = item \/ item' = [item EXCEPT !.n = item.n + 1]
        /\ GoOn("probe") \/ GoOn("read") \/ GoOn("mkdir")
    BY <1>8 DEF Probe, Mkdir, AfterPrefix
  <2> QED
    BY <1>2, <2>1 DEF Stays, ReplaceSteps, DirSteps, FileSteps
<1> QED
  BY <1>3, <1>4, <1>5, <1>6, <1>7, <1>8 DEF DirectoryStep

FileStep ==
  \/ LookAtFile \/ CreateExclusive \/ SomeoneWasFaster \/ OpenTruncated
  \/ OpenFails \/ UnlinkOld \/ CreateAgain

LEMMA FileStepKinds ==
  ASSUME Inv, FileStep
  PROVE  \/ Stays
         \/ Busy /\ policy = "keep_existing" /\ SkipItem("next")
         \/ Busy /\ Fails
<1> USE DEF GoOn, Look, Steps, Busy
<1>1. /\ DOMAIN item = {"local", "path", "n", "top"}
      /\ policy \in {"keep_existing", "replace", "keep_both"}
      /\ step \in {"open", "unlink_old", "create"} => policy = "replace"
      /\ step = "exclusive" => policy # "replace"
  BY TreesAssumption DEF Inv, ItemOK, CallOK, ReplaceSteps
<1>2. LET other == [item EXCEPT !.n = item.n + 1]
      IN /\ DOMAIN other = DOMAIN item
         /\ other.local = item.local /\ other.path = item.path /\ other.top = item.top
  BY <1>1
<1>3. CASE LookAtFile
  <2>1. /\ step = "file"
        /\ \/ Fails
           \/ policy = "keep_existing" /\ SkipItem("next")
           \/ policy = "replace" /\ Look("open") /\ UNCHANGED item
           \/ policy # "replace" /\ Look("exclusive") /\ UNCHANGED item
           \/ policy # "replace" /\ NextNumber
    BY <1>1, <1>3 DEF LookAtFile, Refused
  <2> QED
    BY <1>2, <2>1 DEF NextNumber, Stays, ReplaceSteps, DirSteps, FileSteps
<1>4. CASE CreateExclusive \/ OpenTruncated \/ CreateAgain
  BY <1>4 DEF CreateExclusive, OpenTruncated, CreateAgain, Opened, Stays, ReplaceSteps,
              DirSteps, FileSteps
<1>5. CASE SomeoneWasFaster
  <2>1. /\ step = "exclusive" /\ policy # "replace"
        /\ (policy = "keep_existing" /\ SkipItem("next")) \/ NextNumber
    BY <1>1, <1>5 DEF SomeoneWasFaster
  <2> QED
    BY <1>2, <2>1 DEF NextNumber, Stays, ReplaceSteps, DirSteps, FileSteps
<1>6. CASE OpenFails \/ UnlinkOld
  BY <1>1, <1>6 DEF OpenFails, UnlinkOld, Stays, ReplaceSteps, DirSteps, FileSteps
<1> QED
  BY <1>3, <1>4, <1>5, <1>6 DEF FileStep

LEMMA UnchangedInv ==
  ASSUME Inv, UNCHANGED vars
  PROVE  Inv'
<1>1. CallOK' /\ ItemOK'
  BY DEF vars, call, Inv, CallOK, ItemOK
<1>2. StackOK' /\ PlacedOK' /\ TopIsFirst' /\ Covered'
  BY DEF vars, call, Inv, StackOK, IsFrame, PlacedOK, TopIsFirst, Covered, Reached, Busy
<1>3. InPlace'
  BY DEF vars, call, Inv, InPlace, Busy, FrameInPlace
<1> QED
  BY <1>1, <1>2, <1>3 DEF Inv

LEMMA NextInv == Inv /\ [Next]_vars => Inv'
<1> SUFFICES ASSUME Inv, [Next]_vars
             PROVE  Inv'
  OBVIOUS
<1>1. CASE CallFails
  BY <1>1, FailsInv DEF CallFails
<1>2. CASE DirectoryStep
  BY <1>2, DirectoryStepKinds, StaysInv, SkipInv, DestinedInv
<1>3. CASE FileStep
  BY <1>3, FileStepKinds, StaysInv, SkipInv, FailsInv DEF Busy
<1>4. CASE Start
  BY <1>4, StartInv
<1>5. CASE ReadDirectory
  BY <1>5, ReadDirectoryInv
<1>6. CASE \E s \in DOMAIN source : Enter(s)
  BY <1>6, EnterInv
<1>7. CASE Leave
  BY <1>7, LeaveInv
<1>8. CASE Copy
  BY <1>8, CopyInv
<1>9. CASE Other
  BY <1>9, OtherInv
<1>10. CASE UNCHANGED vars
  BY <1>10, UnchangedInv
<1> QED
  BY <1>1, <1>2, <1>3, <1>4, <1>5, <1>6, <1>7, <1>8, <1>9, <1>10
  DEF Next, Us, Walk, DirectoryStep, FileStep

\* Every state of an upload is one of a walk through its source.
THEOREM InvHolds == Spec => []Inv
BY InitInv, NextInv, PTL DEF Spec

-----------------------------------------------------------------------------
(***************************************************************************)
(* What a step of the upload does to the server.                           *)
(***************************************************************************)

MakesAt(p) ==
  \E entry : remote' = With(remote, p, entry) /\ entry.of # Theirs

\* The place of the item, where Replace may take away a file.
TakesPlace(p) ==
  /\ policy = "replace" /\ IsFile(remote, p)
  /\ p = destination \o item.local

ServerStep ==
  \/ UNCHANGED remote
  \/ \E p : /\ \/ CanAdd(remote, p)
               \/ IsFile(remote, p) /\ Ours(remote[p])
               \/ TakesPlace(p)
            /\ MakesAt(p)
  \/ \E p : TakesPlace(p) /\ remote' = Without(remote, p)

LEMMA ServerStepKinds ==
  ASSUME Inv, Us
  PROVE  ServerStep
<1>1. MarkOf(item.local) # Theirs
  BY SourcePaths DEF Inv, CallOK, ItemOK
<1>2. step \in ReplaceSteps => policy = "replace"
  BY DEF Inv, CallOK
<1>3. /\ policy = "replace" /\ step \in ReplaceSteps => item.path = destination \o item.local
      /\ policy = "replace" /\ step \in FileSteps => Target = item.path
  BY DEF Inv, InPlace, Busy, ReplaceSteps, FileSteps, Target, Numbered
<1>4. \A size : File(MarkOf(item.local), size).of # Theirs /\ Dir(MarkOf(item.local)).of # Theirs
  BY <1>1 DEF File, Dir
<1>5. CASE UNCHANGED remote
  BY <1>5 DEF ServerStep
<1>6. CASE Mkdir
  BY <1>4, <1>6 DEF Mkdir, ServerStep, MakesAt
<1>7. CASE CreateExclusive
  BY <1>4, <1>7 DEF CreateExclusive, CanCreate, Opened, NewFile, ServerStep, MakesAt
<1>8. CASE OpenTruncated \/ CreateAgain
  <2>1. /\ step \in {"open", "create"}
        /\ CanAdd(remote, Target) \/ IsFile(remote, Target)
        /\ remote' = With(remote, Target, File(MarkOf(item.local), 0))
    BY <1>8 DEF OpenTruncated, CreateAgain, Opened, NewFile
  <2>2. policy = "replace" /\ Target = destination \o item.local
    BY <1>2, <1>3, <2>1 DEF ReplaceSteps, FileSteps
  <2>3. MakesAt(Target)
    BY <1>4, <2>1 DEF MakesAt
  <2> QED
    BY <2>1, <2>2, <2>3 DEF ServerStep, TakesPlace
<1>9. CASE Unlink
  <2>1. step = "unlink" /\ IsFile(remote, item.path) /\ remote' = Without(remote, item.path)
    BY <1>9 DEF Unlink
  <2>2. policy = "replace" /\ item.path = destination \o item.local
    BY <1>2, <1>3, <2>1 DEF ReplaceSteps
  <2> QED
    BY <2>1, <2>2 DEF ServerStep, TakesPlace
<1>10. CASE UnlinkOld
  <2>1. /\ step = "unlink_old"
        /\ \/ remote' = remote
           \/ IsFile(remote, Target) /\ remote' = Without(remote, Target)
    BY <1>10 DEF UnlinkOld
  <2>2. policy = "replace" /\ Target = destination \o item.local
    BY <1>2, <1>3, <2>1 DEF ReplaceSteps, FileSteps
  <2> QED
    BY <2>1, <2>2 DEF ServerStep, TakesPlace
<1>11. CASE Copy
  <2>1. \/ UNCHANGED remote
        \/ /\ IsFile(remote, Target) /\ remote[Target].of = MarkOf(item.local)
           /\ \E size : remote' = With(remote, Target, File(MarkOf(item.local), size))
    BY <1>11 DEF Copy, IsOpen
  <2>2. \/ UNCHANGED remote
        \/ IsFile(remote, Target) /\ Ours(remote[Target]) /\ MakesAt(Target)
    BY <1>1, <1>4, <2>1 DEF MakesAt, Ours
  <2> QED
    BY <2>2 DEF ServerStep
<1>12. CASE \/ CallFails \/ Start \/ ReadDirectory \/ Leave
            \/ \E s \in DOMAIN source : Enter(s)
  BY <1>5, <1>12 DEF CallFails, Fails, Start, ReadDirectory, Leave, Enter
<1>13. CASE Resolve \/ NumberDirectory \/ LookForFile \/ Ensure
  <2>1. CASE Resolve
    <3>1. \/ Destined(item.path)
          \/ SkipItem("next")
          \/ Look("number")
      BY <2>1, TreesAssumption DEF Resolve, Merges, Inv, CallOK
    <3> QED
      BY <1>5, <3>1 DEF Destined, SkipItem, Look
  <2>2. CASE NumberDirectory
    BY <1>5, <2>2 DEF NumberDirectory, Destined, Look
  <2>3. CASE LookForFile \/ Ensure
    BY <1>5, <2>3 DEF LookForFile, Ensure, Look
  <2> QED
    BY <1>13, <2>1, <2>2, <2>3
<1>14. CASE Probe \/ LookAtFile \/ SomeoneWasFaster \/ OpenFails
  <2>1. CASE Probe
    BY <1>5, <2>1 DEF Probe
  <2>2. CASE LookAtFile
    <3>1. \/ Fails
          \/ SkipItem("next")
          \/ \E next : Look(next)
      BY <2>2, TreesAssumption DEF LookAtFile, Refused, NextNumber, Inv, CallOK
    <3> QED
      BY <1>5, <3>1 DEF Fails, SkipItem, Look
  <2>3. CASE SomeoneWasFaster
    BY <1>5, <2>3 DEF SomeoneWasFaster, NextNumber, SkipItem, Look
  <2>4. CASE OpenFails
    BY <1>5, <2>4 DEF OpenFails, Fails, Look
  <2> QED
    BY <1>14, <2>1, <2>2, <2>3, <2>4
<1> QED
  BY <1>6, <1>7, <1>8, <1>9, <1>10, <1>11, <1>12, <1>13, <1>14 DEF Us, Walk

LEMMA OnlyOthersCount ==
  ASSUME Inv, Us
  PROVE  others' = others /\ UNCHANGED call /\ result = "none"
<1>1. step # "done"
  BY DEF Us, CallFails, Walk, Start, Resolve, NumberDirectory, LookForFile, Unlink, Ensure,
         Probe, Mkdir, ReadDirectory, Enter, Leave, LookAtFile, CreateExclusive,
         SomeoneWasFaster, OpenTruncated, OpenFails, UnlinkOld, CreateAgain, Copy
<1>2. result = "none"
  BY <1>1 DEF Inv, CallOK
<1>3. CASE CallFails \/ DirectoryStep \/ FileStep
  <2>1. Fails \/ Stays \/ SkipItem("next") \/ \E path : Destined(path)
    BY <1>3, DirectoryStepKinds, FileStepKinds DEF CallFails
  <2> QED
    BY <1>2, <2>1 DEF Fails, Stays, SkipItem, Destined
<1>4. CASE \/ Start \/ ReadDirectory \/ Leave \/ Copy
           \/ \E s \in DOMAIN source : Enter(s)
  BY <1>2, <1>4 DEF Start, ReadDirectory, Leave, Copy, Enter
<1> QED
  BY <1>3, <1>4 DEF Us, Walk, DirectoryStep, FileStep

\* No step of an upload without Replace disturbs an entry of anybody else's.
LEMMA KeepsOthersEntries ==
  ASSUME Inv, [Next]_vars, others' = others, policy # "replace",
         NEW p \in DOMAIN remote, ~Ours(remote[p])
  PROVE  Exists(remote', p) /\ remote'[p] = remote[p]
<1>1. CASE UNCHANGED remote
  BY <1>1 DEF Exists
<1>2. CASE Us
  <2>1. ServerStep
    BY <1>2, ServerStepKinds
  <2>2. CASE \E q : (CanAdd(remote, q) \/ (IsFile(remote, q) /\ Ours(remote[q]))) /\ MakesAt(q)
    <3>1. PICK q : (CanAdd(remote, q) \/ (IsFile(remote, q) /\ Ours(remote[q]))) /\ MakesAt(q)
      BY <2>2
    <3>2. q # p
      BY <3>1 DEF CanAdd, Exists
    <3> QED
      BY <3>1, <3>2 DEF MakesAt, With, Exists
  <2> QED
    BY <1>1, <2>1, <2>2 DEF ServerStep, TakesPlace
<1>3. ~Other
  BY DEF Other, Inv, CallOK
<1> QED
  BY <1>1, <1>2, <1>3 DEF Next, vars

\* Whatever other clients of the server do between two calls, an upload that
\* was not told to replace leaves every entry alone that it did not make.
THEOREM UploadKeepsOthersEntries == Spec => OthersEntriesKept
<1>1. Inv /\ [Next]_vars =>
        [others' = others /\ policy # "replace" =>
           \A p \in DOMAIN remote : ~Ours(remote[p]) => Exists(remote', p) /\ remote'[p] = remote[p]]_vars
  BY KeepsOthersEntries
<1> QED
  BY <1>1, InvHolds, PTL DEF Spec, OthersEntriesKept

-----------------------------------------------------------------------------
(***************************************************************************)
(* The upload is one that Destination allows.                              *)
(***************************************************************************)

\* Destination speaks of the same trees.
LEMMA SameTrees ==
  ASSUME NEW tree, NEW p, NEW entry
  PROVE  /\ Promised!IsTree(tree) = IsTree(tree)
         /\ Promised!IsDir(tree, p) = IsDir(tree, p)
         /\ Promised!IsFile(tree, p) = IsFile(tree, p)
         /\ Promised!CanAdd(tree, p) = CanAdd(tree, p)
         /\ Promised!With(tree, p, entry) = With(tree, p, entry)
         /\ Promised!Without(tree, p) = Without(tree, p)
         /\ Promised!Theirs = Theirs
<1>1. \A q : Promised!IsDir(tree, q) = IsDir(tree, q) /\ Promised!Parent(q) = Parent(q)
  BY DEF Promised!IsDir, IsDir, Promised!Exists, Exists, Promised!Parent, Parent, Promised!Front, Front
<1>2. Promised!Below(tree, p) = Below(tree, p)
  BY DEF Promised!Below, Below, Promised!IsPrefix, IsPrefix
<1>3. Promised!Root = Root
  BY DEF Promised!Root, Root
<1>4. Promised!Exists(tree, p) = Exists(tree, p) /\ Promised!IsFile(tree, p) = IsFile(tree, p)
  BY DEF Promised!IsFile, IsFile, Promised!Exists, Exists
<1>5. Promised!IsTree(tree) = IsTree(tree)
  BY <1>1, <1>3 DEF Promised!IsTree, IsTree
<1>6. Promised!CanAdd(tree, p) = CanAdd(tree, p)
  BY <1>1, <1>3, <1>4 DEF Promised!CanAdd, CanAdd
<1>7. Promised!With(tree, p, entry) = With(tree, p, entry)
  BY DEF Promised!With, With
<1>8. Promised!Without(tree, p) = Without(tree, p)
  BY <1>2 DEF Promised!Without, Without
<1>9. Promised!Theirs = Theirs
  BY DEF Promised!Theirs, Theirs
<1> QED
  BY <1>1, <1>4, <1>5, <1>6, <1>7, <1>8, <1>9

LEMMA PromisedInit == Init => Promised!Init
<1>1. Init => IsTree(remote) /\ DOMAIN placed = {} /\ result = "none"
  BY TreesAssumption DEF Init
<1>2. Promised!IsTree(remote) = IsTree(remote)
  BY SameTrees
<1> QED
  BY <1>1, <1>2 DEF Promised!Init

\* What is delivered stays so.
LEMMA PlacedGrows ==
  ASSUME Inv, Us
  PROVE  DOMAIN placed \subseteq DOMAIN placed'
<1>1. CASE CallFails \/ DirectoryStep \/ FileStep
  <2>1. Fails \/ Stays \/ SkipItem("next") \/ \E path : Destined(path)
    BY <1>1, DirectoryStepKinds, FileStepKinds DEF CallFails
  <2> QED
    BY <2>1 DEF Fails, Stays, SkipItem, Destined
<1>2. CASE \/ Start \/ ReadDirectory \/ Leave \/ Copy
           \/ \E s \in DOMAIN source : Enter(s)
  BY <1>2 DEF Start, ReadDirectory, Leave, Copy, Enter, With
<1> QED
  BY <1>1, <1>2 DEF Us, Walk, DirectoryStep, FileStep

\* The call answers when a call failed, or when nothing is left to walk.
LEMMA OnlyTheEndAnswers ==
  ASSUME Inv, Us, result' # "none"
  PROVE  Fails \/ (Leave /\ stack = <<>> /\ result' = "ok")
<1>1. result = "none"
  BY OnlyOthersCount
<1>2. CASE CallFails \/ DirectoryStep \/ FileStep
  <2>1. Fails \/ Stays \/ SkipItem("next") \/ \E path : Destined(path)
    BY <1>2, DirectoryStepKinds, FileStepKinds DEF CallFails
  <2> QED
    BY <1>1, <2>1 DEF Stays, SkipItem, Destined
<1>3. CASE \/ Start \/ ReadDirectory \/ Leave \/ Copy
           \/ \E s \in DOMAIN source : Enter(s)
  BY <1>1, <1>3 DEF Start, ReadDirectory, Leave, Copy, Enter
<1> QED
  BY <1>2, <1>3 DEF Us, Walk, DirectoryStep, FileStep

LEMMA FinishIsPromised ==
  ASSUME Inv, Us, result' # "none"
  PROVE  Promised!Finish
<1>1. result = "none" /\ others' = others /\ UNCHANGED call
  BY OnlyOthersCount
<1>2. CASE Fails
  BY <1>1, <1>2 DEF Fails, call, Promised!Finish
<1>3. CASE Leave /\ stack = <<>> /\ result' = "ok"
  <2>1. ~Busy /\ UNCHANGED <<remote, placed>>
    BY <1>3 DEF Leave, Busy
  <2>2. DOMAIN source \subseteq DOMAIN placed
    BY <1>1, <1>3, <2>1 DEF Inv, Covered, Reached
  <2>3. DOMAIN placed = DOMAIN source
    BY <2>2 DEF Inv, PlacedOK
  <2> QED
    BY <1>1, <1>3, <2>1, <2>3 DEF call, Promised!Finish
<1> QED
  BY <1>2, <1>3, OnlyTheEndAnswers

LEMMA WriteIsPromised ==
  ASSUME Inv, Us, result' = "none"
  PROVE  Promised!Write
<1> DEFINE Tree ==
      \/ UNCHANGED remote
      \/ \E p \in DOMAIN remote' :
           (Promised!Add(p) \/ Promised!Rewrite(p)) /\ remote'[p].of # Promised!Theirs
      \/ \E p \in DOMAIN remote : Promised!Take(p)
<1>1. ASSUME NEW p, TakesPlace(p)
      PROVE  Promised!MayTake(p) /\ p \in DOMAIN remote
  <2>1. item.local \in DOMAIN source /\ p = destination \o item.local /\ policy = "replace"
    BY <1>1 DEF Inv, ItemOK, TakesPlace
  <2>2. ~Promised!IsDir(remote, p) /\ p \in DOMAIN remote
    BY <1>1, SameTrees DEF TakesPlace, IsFile, IsDir, Exists
  <2> QED
    BY <2>1, <2>2 DEF Promised!MayTake
<1>2. ASSUME NEW p, MakesAt(p)
      PROVE  /\ p \in DOMAIN remote' /\ remote'[p].of # Promised!Theirs
             /\ remote' = Promised!With(remote, p, remote'[p])
  <2>1. PICK entry : remote' = With(remote, p, entry) /\ entry.of # Theirs
    BY <1>2 DEF MakesAt
  <2>2. remote'[p] = entry /\ p \in DOMAIN remote'
    BY <2>1 DEF With
  <2> QED
    BY <2>1, <2>2, SameTrees
<1>4. ASSUME NEW p, CanAdd(remote, p), MakesAt(p)
      PROVE  Tree
  <2>1. Promised!Add(p)
    BY <1>2, <1>4, SameTrees DEF Promised!Add
  <2> QED
    BY <1>2, <1>4, <2>1
<1>5. ASSUME NEW p, MakesAt(p), (IsFile(remote, p) /\ Ours(remote[p])) \/ TakesPlace(p)
      PROVE  Tree
  <2>1. Promised!IsFile(remote, p) /\ p \in DOMAIN remote
    BY <1>5, SameTrees DEF TakesPlace, IsFile, Exists
  <2>2. Promised!Ours(p) \/ Promised!MayTake(p)
    BY <1>1, <1>5, <2>1, SameTrees DEF Promised!Ours, Promised!Exists, Ours
  <2>3. Promised!Rewrite(p)
    BY <1>2, <1>5, <2>1, <2>2 DEF Promised!Rewrite
  <2> QED
    BY <1>2, <1>5, <2>3
<1>6. ASSUME NEW p, TakesPlace(p), remote' = Without(remote, p)
      PROVE  Tree
  <2>1. item.local \in DOMAIN source /\ p = destination \o item.local
    BY <1>6 DEF Inv, ItemOK, TakesPlace
  <2>2. PICK S : p \in Seq(S)
    <3>1. PICK Parts : destination \in Seq(Parts)
      BY <1>6 DEF Inv, InPlace, TakesPlace
    <3>2. item.local \in Seq(NamesOf(source))
      BY <2>1, SourcePaths DEF Inv, CallOK
    <3> DEFINE U == Parts \cup NamesOf(source)
    <3>3. destination \in Seq(U) /\ item.local \in Seq(U)
      BY <3>1, <3>2
    <3> HIDE DEF U
    <3>4. p \in Seq(U)
      BY <2>1, <3>3
    <3> QED BY <3>4
  <2>3. Promised!IsPrefix(p, p)
    BY <2>2, PrefixRefl DEF IsPrefix, Promised!IsPrefix
  <2>4. Promised!MayClear(p)
    <3>1. Promised!MayTake(p)
      BY <1>1, <1>6
    <3>2. Promised!MayTake(destination \o item.local)
          /\ Promised!IsPrefix(destination \o item.local, p)
      BY <2>1, <2>3, <3>1
    <3> QED BY ONLY <2>1, <3>2 DEF Promised!MayClear
  <2>5. Promised!Take(p)
    BY <1>6, <2>4, SameTrees DEF Promised!Take
  <2> QED
    BY <1>1, <1>6, <2>5
<1>7. Tree
  <2> HIDE DEF Tree
  <2>1. ServerStep
    BY ServerStepKinds
  <2>2. CASE UNCHANGED remote
    BY <2>2 DEF Tree
  <2> QED
    BY <1>4, <1>5, <1>6, <2>1, <2>2 DEF ServerStep
<1>8. DOMAIN placed \subseteq DOMAIN placed' /\ DOMAIN placed' \subseteq DOMAIN source
  <2>1. PlacedOK' /\ UNCHANGED call
    BY NextInv, OnlyOthersCount DEF Next, Inv
  <2> QED
    BY <2>1, PlacedGrows DEF PlacedOK, call
<1>9. result = "none" /\ others' = others /\ UNCHANGED call
  BY OnlyOthersCount
<1> QED
  BY <1>7, <1>8, <1>9 DEF Promised!Write, call

LEMMA PromisedStep == Inv /\ [Next]_vars => [Promised!Next]_(Promised!vars)
<1> SUFFICES ASSUME Inv, [Next]_vars
             PROVE  Promised!Next \/ UNCHANGED Promised!vars
  OBVIOUS
<1>1. CASE Us
  BY <1>1, FinishIsPromised, WriteIsPromised DEF Promised!Next
<1>2. CASE Other
  BY <1>2 DEF Other, call, Promised!Next, Promised!Others
<1>3. CASE UNCHANGED vars
  BY <1>3 DEF vars, call, Promised!vars
<1> QED
  BY <1>1, <1>2, <1>3 DEF Next

\* Every upload keeps the promise that all transfers share: it adds, rewrites
\* only what it made or may replace, takes away only files that are in the place
\* of one of its own, and answers with success only when all has arrived.
THEOREM UploadImplementsDestination == Spec => ImplementsDestination
BY InvHolds, PromisedInit, PromisedStep, PTL
   DEF Spec, ImplementsDestination, Promised!Spec

-----------------------------------------------------------------------------
(***************************************************************************)
(* 2. Paths, trees and walks.                                              *)
(***************************************************************************)

LEMMA SourceIsSequence ==
  ASSUME NEW tree \in Sources, NEW s \in DOMAIN tree
  PROVE  IsSequence(s)
BY TransfersAssumption

\* "name (n)" beside a path.
LEMMA NumberedFacts ==
  ASSUME NEW p, IsSequence(p), p # Root, NEW n \in Nat
  PROVE  /\ IsSequence(Numbered(p, n)) /\ Parent(Numbered(p, n)) = Parent(p)
         /\ Numbered(p, n) # Root /\ Len(Numbered(p, n)) = Len(p)
<1>1. p \in Seq(ToSet(p))
  BY DEF IsSequence
<1>2. CASE n = 0
  BY <1>1, <1>2 DEF Numbered
<1>3. CASE n # 0
  <2> DEFINE x == Append(Last(p), n)
             f == Parent(p)
  <2> HIDE DEF x
  <2>1. Numbered(p, n) = Append(f, x)
    BY <1>3 DEF Numbered, x, Parent
  <2> HIDE DEF f
  <2>2. f \in Seq(ToSet(p)) /\ Len(f) = Len(p) - 1 /\ Len(p) \in Nat /\ Len(p) > 0
    <3>1. Len(p) \in Nat
      BY <1>1
    <3> QED BY <1>1, <3>1, ParentAndLast DEF f
  <2>3. /\ Parent(Append(f, x)) = f
        /\ Append(f, x) \in Seq(ToSet(p) \cup {x}) /\ Len(Append(f, x)) = Len(f) + 1
    BY <2>2, LastAdded
  <2>4. Len(Append(f, x)) = Len(p) /\ Append(f, x) # Root
    <3>1. Len(Append(f, x)) > 0
      BY <2>2, <2>3
    <3>2. Len(Root) = 0
      BY DEF Root
    <3>3. Append(f, x) # Root
      <4> DEFINE g == Append(f, x)
      <4>1. Len(g) > 0
        BY <3>1
      <4> HIDE DEF g
      <4>2. g # Root
        BY <3>2, <4>1
      <4> QED BY <4>2 DEF g
    <3> QED BY <2>2, <2>3, <3>3
  <2>5. IsSequence(Append(f, x))
    BY <2>3, InSeqIsSequence
  <2> QED BY <2>1, <2>3, <2>4, <2>5 DEF f
<1> QED BY <1>2, <1>3

-----------------------------------------------------------------------------
(***************************************************************************)
(* Trees, and what adding, rewriting and removing leaves of them.          *)
(***************************************************************************)

TreeOK(tree) ==
  /\ IsTree(tree)
  /\ IsFiniteSet(DOMAIN tree)
  /\ \A p \in DOMAIN tree : IsSequence(p) /\ IsEntry(tree[p])

LEMMA EntriesAre ==
  ASSUME NEW of, NEW size \in Nat
  PROVE  /\ IsEntry(File(of, size)) /\ IsEntry(Dir(of))
         /\ File(of, size).kind = "file" /\ Dir(of).kind = "dir"
         /\ File(of, size).of = of /\ Dir(of).of = of
         /\ File(of, size).size = size /\ Dir(of).size = 0
BY DEF IsEntry, File, Dir

\* Only directories have no content of their own.
LEMMA DirHasNoSize ==
  ASSUME NEW tree, NEW p, IsDir(tree, p), IsEntry(tree[p])
  PROVE  tree[p].size = 0
BY DEF IsDir, IsEntry, File, Dir

LEMMA EntryKinds ==
  ASSUME NEW tree, NEW p, Exists(tree, p), IsEntry(tree[p])
  PROVE  IsDir(tree, p) \/ IsFile(tree, p)
BY DEF IsDir, IsFile, IsEntry, File, Dir

LEMMA WithKeeps ==
  ASSUME NEW tree, NEW p, NEW entry, TreeOK(tree), IsSequence(p), IsEntry(entry),
         CanAdd(tree, p) \/ IsFile(tree, p)
  PROVE  TreeOK(With(tree, p, entry))
<1> DEFINE t == With(tree, p, entry)
<1>1. /\ DOMAIN t = DOMAIN tree \cup {p} /\ t[p] = entry
      /\ \A q \in DOMAIN tree : q # p => t[q] = tree[q]
  BY DEF With
<1> HIDE DEF t
<1>2. ASSUME NEW q, IsDir(tree, q)
      PROVE  IsDir(t, q)
  BY <1>1, <1>2 DEF IsDir, IsFile, CanAdd, Exists
<1>3. IsTree(t)
  <2>1. IsDir(t, Root)
    BY <1>2 DEF TreeOK, IsTree
  <2>2. ASSUME NEW q \in DOMAIN t \ {Root}
        PROVE  IsDir(t, Parent(q))
    <3>1. q \in DOMAIN tree => IsDir(tree, Parent(q))
      BY <2>2 DEF TreeOK, IsTree
    <3>2. q \notin DOMAIN tree => IsDir(tree, Parent(q))
      BY <1>1, <2>2 DEF CanAdd, IsFile, Exists
    <3> QED BY <1>2, <3>1, <3>2
  <2> QED BY <2>1, <2>2 DEF IsTree
<1>4. IsFiniteSet(DOMAIN t)
  BY <1>1, FS_AddElement DEF TreeOK
<1>5. \A q \in DOMAIN t : IsSequence(q) /\ IsEntry(t[q])
  BY <1>1 DEF TreeOK
<1> QED BY <1>3, <1>4, <1>5 DEF TreeOK, t

LEMMA WithoutKeeps ==
  ASSUME NEW tree, NEW p, TreeOK(tree), IsSequence(p), p # Root
  PROVE  TreeOK(Without(tree, p))
<1> DEFINE t == Without(tree, p)
<1>1. /\ DOMAIN t = {q \in DOMAIN tree : ~IsPrefix(p, q)}
      /\ \A q \in DOMAIN t : t[q] = tree[q]
  BY WithoutFacts
<1> HIDE DEF t
<1>2. ~IsPrefix(p, Root)
  <2>1. p \in Seq(ToSet(p)) /\ Len(p) \in Nat /\ Len(p) # 0
    BY DEF IsSequence, Root
  <2>2. Len(Root) = 0
    BY DEF Root
  <2> QED BY <2>1, <2>2 DEF IsPrefix
<1>3. ASSUME NEW q \in DOMAIN t \ {Root}
      PROVE  IsDir(t, Parent(q))
  <2>1. IsDir(tree, Parent(q)) /\ q \in DOMAIN tree /\ ~IsPrefix(p, q) /\ IsSequence(q)
    BY <1>1, <1>3 DEF TreeOK, IsTree
  <2> DEFINE S == ToSet(p) \cup ToSet(q)
  <2>2. p \in Seq(S) /\ q \in Seq(S)
    BY <2>1, SequencesTogether
  <2> HIDE DEF S
  <2>3. Parent(q) \in Seq(S) /\ IsPrefix(Parent(q), q)
    BY <1>3, <2>2, ParentAndLast
  <2>4. ~IsPrefix(p, Parent(q))
    BY <2>1, <2>2, <2>3, PrefixTrans
  <2> QED BY <1>1, <2>1, <2>4 DEF IsDir, Exists
<1>4. IsDir(t, Root)
  BY <1>1, <1>2 DEF TreeOK, IsTree, IsDir, Exists
<1>5. IsFiniteSet(DOMAIN t)
  BY <1>1, FS_Subset DEF TreeOK
<1>6. \A q \in DOMAIN t : IsSequence(q) /\ IsEntry(t[q])
  BY <1>1 DEF TreeOK
<1> QED BY <1>3, <1>4, <1>5, <1>6 DEF TreeOK, IsTree, t

\* Every path is in directories, also those further up.
LEMMA AboveIsDir ==
  ASSUME NEW tree, TreeOK(tree), NEW p, IsSequence(p), NEW q \in DOMAIN tree,
         IsPrefix(p, q), q # p
  PROVE  IsDir(tree, p)
BY AboveIsDirectory DEF TreeOK, NamedTree

LEMMA InitialTreesOK ==
  ASSUME NEW tree \in Remotes \cup Locals
  PROVE  TreeOK(tree)
<1>1. IsTree(tree)
  BY TreesAssumption, TransfersAssumption
<1> QED BY <1>1, TransfersAssumption DEF TreeOK

-----------------------------------------------------------------------------
(***************************************************************************)
(* The walk through a source, which uploads over SFTP and FTP and          *)
(* downloads share: "now" holds the item at hand, if there is one, "todo"  *)
(* of every frame what is still to be walked of its directory.  No pending *)
(* path is below another one, nothing below a pending path has been placed *)
(* yet, and all of the source is placed or below a pending path.           *)
(***************************************************************************)

FramePlaced(frame, tree, went) ==
  /\ DOMAIN frame = {"path", "todo"}
  /\ \E d \in DOMAIN went : /\ frame.path = went[d] /\ went[d] # Theirs
                              /\ frame.todo \subseteq Children(tree, d)

Apart(p, q) == ~IsPrefix(p, q) /\ ~IsPrefix(q, p)

Pending(now, frames, d) == d \in now \/ \E i \in DOMAIN frames : d \in frames[i].todo

Walks(tree, now, frames, went) ==
  /\ tree \in Sources /\ now \subseteq DOMAIN tree
  /\ \E Fs : frames \in Seq(Fs)
  /\ DOMAIN went \subseteq DOMAIN tree
  /\ \A i \in DOMAIN frames : FramePlaced(frames[i], tree, went)
  /\ \A i, j \in DOMAIN frames : i # j =>
       \A d \in frames[i].todo, e \in frames[j].todo : Apart(d, e)
  /\ \A i \in DOMAIN frames : \A d \in frames[i].todo, e \in now : Apart(d, e)
  /\ \A d, s : Pending(now, frames, d) /\ s \in DOMAIN went => ~IsPrefix(d, s)
  /\ \A s \in DOMAIN tree : s \in DOMAIN went \/ \E d : Pending(now, frames, d) /\ IsPrefix(d, s)

LEMMA WalkPaths ==
  ASSUME NEW tree, NEW now, NEW frames, NEW went, Walks(tree, now, frames, went)
  PROVE  /\ \A s \in DOMAIN tree : s \in Seq(NamesOf(tree))
         /\ \A i \in DOMAIN frames : frames[i].todo \subseteq DOMAIN tree
         /\ \A d : Pending(now, frames, d) => d \in DOMAIN tree
         /\ Len(frames) \in Nat /\ DOMAIN frames = 1..Len(frames)
<1>1. \A s \in DOMAIN tree : s \in Seq(NamesOf(tree))
  BY SourcePaths DEF Walks
<1>2. \A i \in DOMAIN frames : frames[i].todo \subseteq DOMAIN tree
  BY DEF Walks, FramePlaced, Children, Below
<1>3. Len(frames) \in Nat /\ DOMAIN frames = 1..Len(frames)
  BY DEF Walks
<1> QED BY <1>1, <1>2, <1>3 DEF Walks, Pending

LEMMA ApartBelow ==
  ASSUME NEW S, NEW p \in Seq(S), NEW q \in Seq(S), NEW s \in Seq(S),
         Apart(p, q), IsPrefix(q, s)
  PROVE  Apart(p, s)
<1>1. ~IsPrefix(p, s)
  BY PrefixesCompare DEF Apart
<1>2. ~IsPrefix(s, p)
  BY PrefixTrans DEF Apart
<1> QED BY <1>1, <1>2 DEF Apart

LEMMA WalkStarts ==
  ASSUME NEW tree \in Sources
  PROVE  Walks(tree, {Root}, <<>>, <<>>)
<1>1. Root \in DOMAIN tree /\ \A s \in DOMAIN tree : s \in Seq(NamesOf(tree))
  BY SourcePaths
<1>2. \A s \in DOMAIN tree : IsPrefix(Root, s)
  BY <1>1, PrefixRefl
<1>3. <<>> \in Seq({})
  BY EmptySeq
<1>4. Pending({Root}, <<>>, Root)
  BY DEF Pending
<1> QED BY <1>1, <1>2, <1>3, <1>4 DEF Walks

\* The item is skipped with all that is below it, or is a file that is placed.
LEMMA WalkSkips ==
  ASSUME NEW tree, NEW src, NEW frames, NEW went, NEW after,
         Walks(tree, {src}, frames, went),
         DOMAIN after = DOMAIN went \cup Below(tree, src),
         \A s \in DOMAIN went : after[s] = went[s]
  PROVE  Walks(tree, {}, frames, after)
<1>1. /\ \A s \in DOMAIN tree : s \in Seq(NamesOf(tree))
      /\ \A i \in DOMAIN frames : frames[i].todo \subseteq DOMAIN tree
      /\ src \in DOMAIN tree /\ tree \in Sources
  <2>1. src \in DOMAIN tree /\ tree \in Sources
    BY DEF Walks
  <2> QED BY <2>1, WalkPaths
<1>2. \A i \in DOMAIN frames : FramePlaced(frames[i], tree, after)
  BY DEF Walks, FramePlaced
<1>3. ASSUME NEW i \in DOMAIN frames, NEW d \in frames[i].todo, NEW s \in DOMAIN after
      PROVE  ~IsPrefix(d, s)
  <2>1. CASE s \in DOMAIN went
    BY <2>1 DEF Walks, Pending
  <2>2. CASE s \in Below(tree, src)
    <3>1. Apart(d, src) /\ IsPrefix(src, s) /\ s \in DOMAIN tree
      BY <2>2 DEF Walks, Below
    <3> QED BY <1>1, <3>1, ApartBelow DEF Apart
  <2> QED BY <2>1, <2>2
<1>4. ASSUME NEW s \in DOMAIN tree
      PROVE  s \in DOMAIN after \/ \E d : Pending({}, frames, d) /\ IsPrefix(d, s)
  <2>1. CASE IsPrefix(src, s)
    BY <2>1 DEF Below
  <2>2. CASE ~IsPrefix(src, s)
    <3>1. s \in DOMAIN went \/ \E d : Pending({src}, frames, d) /\ IsPrefix(d, s)
      BY DEF Walks
    <3>2. \A d : Pending({src}, frames, d) /\ d # src => Pending({}, frames, d)
      BY DEF Pending
    <3> QED BY <2>2, <3>1, <3>2
  <2> QED BY <2>1, <2>2
<1>5. DOMAIN after \subseteq DOMAIN tree
  BY DEF Walks, Below
<1> QED BY <1>1, <1>2, <1>3, <1>4, <1>5 DEF Walks, Pending

\* A file has nothing below it.
LEMMA BelowAFile ==
  ASSUME NEW tree \in Sources, NEW src \in DOMAIN tree, ~IsDir(tree, src)
  PROVE  Below(tree, src) = {src}
<1>1. src \in Seq(NamesOf(tree))
  BY SourcePaths
<1>2. IsPrefix(src, src)
  BY <1>1, PrefixRefl
<1> QED BY <1>2, BelowChildren DEF Below

LEMMA WalkPlacesFile ==
  ASSUME NEW tree, NEW src, NEW frames, NEW went, NEW to,
         Walks(tree, {src}, frames, went), ~IsDir(tree, src)
  PROVE  Walks(tree, {}, frames, With(went, src, to)) /\ src \notin DOMAIN went
<1>1. src \in DOMAIN tree /\ tree \in Sources /\ Pending({src}, frames, src)
  BY DEF Walks, Pending
<1>2. IsPrefix(src, src)
  BY <1>1, SourcePaths, PrefixRefl
<1>3. src \notin DOMAIN went
  BY <1>1, <1>2 DEF Walks
<1>4. DOMAIN With(went, src, to) = DOMAIN went \cup Below(tree, src)
  BY <1>1, BelowAFile DEF With
<1>5. \A s \in DOMAIN went : With(went, src, to)[s] = went[s]
  BY <1>3 DEF With
<1> QED BY <1>3, <1>4, <1>5, WalkSkips

\* A directory is placed, and its entries are to be walked.
LEMMA WalkEnters ==
  ASSUME NEW tree, NEW src, NEW frames, NEW went, NEW to,
         Walks(tree, {src}, frames, went), to # Theirs
  PROVE  /\ Walks(tree, {}, Append(frames, [path |-> to, todo |-> Children(tree, src)]),
                  With(went, src, to))
         /\ src \notin DOMAIN went
<1> DEFINE frame == [path |-> to, todo |-> Children(tree, src)]
           longer == Append(frames, frame)
           after == With(went, src, to)
<1>1. /\ \A s \in DOMAIN tree : s \in Seq(NamesOf(tree))
      /\ \A i \in DOMAIN frames : frames[i].todo \subseteq DOMAIN tree
      /\ src \in DOMAIN tree /\ tree \in Sources /\ Pending({src}, frames, src)
  <2>1. src \in DOMAIN tree /\ tree \in Sources /\ Pending({src}, frames, src)
    BY DEF Walks, Pending
  <2> QED BY <2>1, WalkPaths
<1>2. src \notin DOMAIN went
  BY <1>1, PrefixRefl DEF Walks
<1>3. /\ DOMAIN after = DOMAIN went \cup {src} /\ after[src] = to
      /\ \A s \in DOMAIN went : after[s] = went[s]
  BY <1>2 DEF With
<1> HIDE DEF after
<1>4. DOMAIN frame = {"path", "todo"} /\ frame.path = to /\ frame.todo = Children(tree, src)
  OBVIOUS
<1> HIDE DEF frame
<1>5. PICK Fs : frames \in Seq(Fs)
  BY DEF Walks
<1>6. /\ longer \in Seq(Fs \cup {frame})
      /\ DOMAIN longer = DOMAIN frames \cup {Len(frames) + 1} /\ Len(frames) + 1 \notin DOMAIN frames
      /\ longer[Len(frames) + 1] = frame
      /\ \A i \in DOMAIN frames : longer[i] = frames[i]
  BY <1>5
<1> HIDE DEF longer
<1>7. \A d \in frame.todo : IsPrefix(src, d) /\ d \in DOMAIN tree /\ Len(d) = Len(src) + 1
  BY <1>4 DEF Children, Below
<1>8. FramePlaced(frame, tree, after)
  BY <1>3, <1>4 DEF FramePlaced
<1>9. \A i \in DOMAIN frames : FramePlaced(frames[i], tree, after)
  BY <1>3 DEF Walks, FramePlaced
<1>10. \A i \in DOMAIN frames : \A d \in frames[i].todo, e \in frame.todo : Apart(d, e)
  <2>1. SUFFICES ASSUME NEW i \in DOMAIN frames, NEW d \in frames[i].todo, NEW e \in frame.todo
                 PROVE  Apart(d, e)
    OBVIOUS
  <2>2. Apart(d, src) /\ d \in DOMAIN tree
    BY <1>1 DEF Walks
  <2> QED BY <1>1, <1>7, <2>2, ApartBelow
<1>11. \A i, j \in DOMAIN longer : i # j =>
         \A d \in longer[i].todo, e \in longer[j].todo : Apart(d, e)
  <2>1. \A i, j \in DOMAIN frames : i # j =>
          \A d \in frames[i].todo, e \in frames[j].todo : Apart(d, e)
    BY DEF Walks
  <2>2. \A d, e : Apart(d, e) => Apart(e, d)
    BY DEF Apart
  <2> QED BY <1>6, <1>10, <2>1, <2>2
<1>12. ASSUME NEW i \in DOMAIN longer, NEW d \in longer[i].todo, NEW s \in DOMAIN after
       PROVE  ~IsPrefix(d, s)
  <2>1. CASE longer[i] # frame
    <3>1. i \in DOMAIN frames /\ d \in frames[i].todo
      BY <1>6, <1>12, <2>1
    <3>2. s \in DOMAIN went => ~IsPrefix(d, s)
      BY <3>1 DEF Walks, Pending
    <3>3. ~IsPrefix(d, src)
      BY <3>1 DEF Walks, Apart
    <3> QED BY <1>3, <3>2, <3>3
  <2>2. CASE longer[i] = frame
    <3>1. IsPrefix(src, d) /\ d \in DOMAIN tree /\ Len(d) = Len(src) + 1
      BY <1>7, <1>12, <2>2
    <3>2. s \in DOMAIN went => s \in DOMAIN tree /\ ~IsPrefix(src, s)
      BY <1>1 DEF Walks
    <3>3. s \in DOMAIN went => ~IsPrefix(d, s)
      BY <1>1, <3>1, <3>2, PrefixTrans
    <3>4. ~IsPrefix(d, src)
      <4>1. Len(src) \in Nat
        BY <1>1
      <4> QED BY <3>1, <4>1 DEF IsPrefix
    <3> QED BY <1>3, <3>3, <3>4
  <2> QED BY <2>1, <2>2
<1>13. ASSUME NEW s \in DOMAIN tree
       PROVE  s \in DOMAIN after \/ \E d : Pending({}, longer, d) /\ IsPrefix(d, s)
  <2>1. CASE s \in DOMAIN went \/ s = src
    BY <1>3, <2>1
  <2>2. CASE s # src /\ IsPrefix(src, s)
    <3>1. \E d \in Children(tree, src) : IsPrefix(d, s)
      BY <1>1, <2>2, BelowChildren
    <3> QED BY <1>4, <1>6, <3>1 DEF Pending
  <2>3. CASE s \notin DOMAIN went /\ ~IsPrefix(src, s)
    <3>1. PICK d : Pending({src}, frames, d) /\ IsPrefix(d, s)
      BY <2>3 DEF Walks
    <3>2. Pending({}, longer, d)
      BY <1>6, <2>3, <3>1 DEF Pending
    <3> QED BY <3>1, <3>2
  <2> QED BY <2>1, <2>2, <2>3
<1>14. DOMAIN after \subseteq DOMAIN tree
  BY <1>1, <1>3 DEF Walks
<1>15. \A i \in DOMAIN longer : FramePlaced(longer[i], tree, after)
  BY <1>6, <1>8, <1>9
<1>16. Walks(tree, {}, longer, after)
  BY <1>1, <1>6, <1>11, <1>12, <1>13, <1>14, <1>15 DEF Walks, Pending
<1> QED BY <1>2, <1>16 DEF longer, frame, after

LEMMA LastFrame ==
  ASSUME NEW Fs, NEW frames \in Seq(Fs), frames # <<>>
  PROVE  /\ Len(frames) \in DOMAIN frames /\ Last(frames) = frames[Len(frames)]
         /\ Len(frames) \in Nat /\ DOMAIN frames = 1..Len(frames) /\ Len(frames) > 0
BY DEF Last

\* The walk goes on with an entry of the innermost directory.
LEMMA WalkGoesOn ==
  ASSUME NEW tree, NEW frames, NEW went, NEW s, Walks(tree, {}, frames, went),
         frames # <<>>, s \in Last(frames).todo
  PROVE  /\ Walks(tree, {s},
                  Append(Front(frames), [Last(frames) EXCEPT !.todo = @ \ {s}]), went)
         /\ \E d \in DOMAIN went : /\ Last(frames).path = went[d] /\ went[d] # Theirs
                                   /\ s \in Children(tree, d)
<1> DEFINE n == Len(frames)
           rest == [Last(frames) EXCEPT !.todo = @ \ {s}]
           shorter == Append(Front(frames), rest)
<1>1. PICK Fs : frames \in Seq(Fs)
  BY DEF Walks
<1>2. /\ n \in DOMAIN frames /\ Last(frames) = frames[n] /\ n \in Nat
      /\ DOMAIN frames = 1..n /\ n > 0
  BY <1>1, LastFrame
<1> HIDE DEF n
<1>3. /\ \A p \in DOMAIN tree : p \in Seq(NamesOf(tree))
      /\ \A i \in DOMAIN frames : frames[i].todo \subseteq DOMAIN tree
  BY WalkPaths
<1>4. FramePlaced(frames[n], tree, went)
  BY <1>2 DEF Walks
<1>5. DOMAIN rest = {"path", "todo"} /\ rest.path = frames[n].path /\ rest.todo = frames[n].todo \ {s}
  BY <1>2, <1>4 DEF FramePlaced
<1> HIDE DEF rest
<1>6. /\ Front(frames) \in Seq(Fs) /\ Len(Front(frames)) = n - 1
      /\ \A i \in 1..n - 1 : Front(frames)[i] = frames[i]
  BY <1>1, FrontFacts DEF n
<1>7. /\ shorter \in Seq(Fs \cup {rest}) /\ DOMAIN shorter = DOMAIN frames
      /\ shorter[n] = rest /\ \A i \in DOMAIN frames \ {n} : shorter[i] = frames[i]
  <2> DEFINE f == Front(frames)
  <2>1. f \in Seq(Fs \cup {rest}) /\ Len(f) = n - 1 /\ \A i \in 1..n - 1 : f[i] = frames[i]
    BY <1>6
  <2> HIDE DEF f
  <2>2. Append(f, rest) \in Seq(Fs \cup {rest}) /\ Len(Append(f, rest)) = n /\ Append(f, rest)[n] = rest
    BY <1>2, <2>1
  <2>3. \A i \in 1..n - 1 : Append(f, rest)[i] = frames[i]
    BY <1>2, <2>1
  <2>4. DOMAIN frames \ {n} = 1..n - 1
    BY <1>2
  <2> QED BY <1>2, <2>2, <2>3, <2>4 DEF f
<1> HIDE DEF shorter
<1>8. \A i \in DOMAIN frames : shorter[i].todo \subseteq frames[i].todo
  BY <1>5, <1>7
<1>9. PICK d \in DOMAIN went : /\ frames[n].path = went[d] /\ went[d] # Theirs
                               /\ frames[n].todo \subseteq Children(tree, d)
  BY <1>4 DEF FramePlaced
<1>10. \A i \in DOMAIN shorter : FramePlaced(shorter[i], tree, went)
  <2>1. FramePlaced(rest, tree, went)
    BY <1>5, <1>9 DEF FramePlaced
  <2> QED BY <1>2, <1>7, <2>1 DEF Walks
<1>11. s \in frames[n].todo /\ s \in DOMAIN tree /\ s \notin shorter[n].todo
  BY <1>2, <1>3, <1>5, <1>7
<1>12. \A i \in DOMAIN shorter : \A e \in shorter[i].todo : Apart(e, s)
  <2>1. SUFFICES ASSUME NEW i \in DOMAIN shorter, NEW e \in shorter[i].todo
                 PROVE  Apart(e, s)
    OBVIOUS
  <2>2. CASE i # n
    <3>1. e \in frames[i].todo /\ i \in DOMAIN frames
      BY <1>7, <2>2
    <3>2. \A x \in frames[i].todo, y \in frames[n].todo : Apart(x, y)
      BY <1>2, <1>7, <2>2 DEF Walks
    <3> QED BY <1>11, <3>1, <3>2
  <2>3. CASE i = n
    <3>1. e # s /\ e \in Children(tree, d) /\ s \in Children(tree, d)
      BY <1>5, <1>7, <1>9, <1>11, <2>3
    <3>2. /\ e \in Seq(NamesOf(tree)) /\ s \in Seq(NamesOf(tree)) /\ Len(e) = Len(s)
      BY <1>3, <3>1 DEF Children, Below
    <3>3. ~IsPrefix(e, s)
      BY <3>1, <3>2, PrefixSame
    <3>4. ~IsPrefix(s, e)
      BY <3>1, <3>2, PrefixSame
    <3> QED BY <3>3, <3>4 DEF Apart
  <2> QED BY <2>2, <2>3
<1>13. \A i, j \in DOMAIN shorter : i # j =>
         \A x \in shorter[i].todo, y \in shorter[j].todo : Apart(x, y)
  <2>1. \A i, j \in DOMAIN frames : i # j =>
          \A x \in frames[i].todo, y \in frames[j].todo : Apart(x, y)
    BY DEF Walks
  <2> QED BY <1>7, <1>8, <2>1
<1>14. \A x : Pending({s}, shorter, x) => Pending({}, frames, x)
  BY <1>2, <1>7, <1>8, <1>11 DEF Pending
<1>15. \A x : Pending({}, frames, x) => Pending({s}, shorter, x)
  <2>1. ASSUME NEW x, NEW i \in DOMAIN frames, x \in frames[i].todo
        PROVE  x = s \/ x \in shorter[i].todo
    BY <1>5, <1>7, <2>1
  <2> QED BY <1>7, <2>1 DEF Pending
<1>16. Walks(tree, {s}, shorter, went)
  <2>1. /\ tree \in Sources /\ DOMAIN went \subseteq DOMAIN tree
        /\ \A x, p : Pending({}, frames, x) /\ p \in DOMAIN went => ~IsPrefix(x, p)
        /\ \A p \in DOMAIN tree : p \in DOMAIN went \/ \E x : Pending({}, frames, x) /\ IsPrefix(x, p)
    BY DEF Walks
  <2>2. /\ \A x, p : Pending({s}, shorter, x) /\ p \in DOMAIN went => ~IsPrefix(x, p)
        /\ \A p \in DOMAIN tree : p \in DOMAIN went \/ \E x : Pending({s}, shorter, x) /\ IsPrefix(x, p)
    BY <1>14, <1>15, <2>1
  <2> QED BY <1>7, <1>10, <1>11, <1>12, <1>13, <2>1, <2>2 DEF Walks
<1> QED BY <1>2, <1>9, <1>11, <1>16 DEF shorter, rest

\* A directory of which all is walked is left.
LEMMA WalkLeaves ==
  ASSUME NEW tree, NEW frames, NEW went, Walks(tree, {}, frames, went),
         frames # <<>>, Last(frames).todo = {}
  PROVE  Walks(tree, {}, Front(frames), went)
<1> DEFINE n == Len(frames)
           f == Front(frames)
<1>1. PICK Fs : frames \in Seq(Fs)
  BY DEF Walks
<1>2. /\ n \in DOMAIN frames /\ Last(frames) = frames[n] /\ n \in Nat
      /\ DOMAIN frames = 1..n /\ n > 0
  BY <1>1, LastFrame
<1> HIDE DEF n
<1>3. f \in Seq(Fs) /\ Len(f) = n - 1 /\ \A i \in 1..n - 1 : f[i] = frames[i]
  BY <1>1, FrontFacts DEF n
<1> HIDE DEF f
<1>4. DOMAIN f = DOMAIN frames \ {n} /\ \A i \in DOMAIN f : f[i] = frames[i]
  BY <1>2, <1>3
<1>5. \A x : Pending({}, frames, x) <=> Pending({}, f, x)
  BY <1>2, <1>4 DEF Pending
<1>6. /\ tree \in Sources /\ DOMAIN went \subseteq DOMAIN tree
      /\ \A x, p : Pending({}, frames, x) /\ p \in DOMAIN went => ~IsPrefix(x, p)
      /\ \A p \in DOMAIN tree : p \in DOMAIN went \/ \E x : Pending({}, frames, x) /\ IsPrefix(x, p)
      /\ \A i \in DOMAIN frames : FramePlaced(frames[i], tree, went)
      /\ \A i, j \in DOMAIN frames : i # j =>
           \A x \in frames[i].todo, y \in frames[j].todo : Apart(x, y)
  BY DEF Walks
<1>7. /\ \A i \in DOMAIN f : FramePlaced(f[i], tree, went)
      /\ \A i, j \in DOMAIN f : i # j => \A x \in f[i].todo, y \in f[j].todo : Apart(x, y)
  BY <1>4, <1>6
<1>8. /\ \A x, p : Pending({}, f, x) /\ p \in DOMAIN went => ~IsPrefix(x, p)
      /\ \A p \in DOMAIN tree : p \in DOMAIN went \/ \E x : Pending({}, f, x) /\ IsPrefix(x, p)
  BY <1>5, <1>6
<1>9. Walks(tree, {}, f, went)
  BY <1>3, <1>6, <1>7, <1>8 DEF Walks
<1> QED BY <1>9 DEF f

\* When nothing is left, all has been placed.
LEMMA WalkEnds ==
  ASSUME NEW tree, NEW frames, NEW went, Walks(tree, {}, frames, went), frames = <<>>
  PROVE  DOMAIN went = DOMAIN tree
<1>1. \A d : ~Pending({}, frames, d)
  BY DEF Pending
<1> QED BY <1>1 DEF Walks

-----------------------------------------------------------------------------
(***************************************************************************)
(* What has been placed is there, whole.                                   *)
(***************************************************************************)

Whole(of, went, tree) ==
  \A s \in DOMAIN went : went[s] # Theirs =>
    /\ went[s] \in DOMAIN tree
    /\ tree[went[s]].kind = of[s].kind /\ tree[went[s]].size = of[s].size

LEMMA WholeIfElsewhere ==
  ASSUME NEW of, NEW went, NEW tree, NEW p, NEW entry, Whole(of, went, tree),
         \A s \in DOMAIN went : went[s] # Theirs => went[s] # p
  PROVE  Whole(of, went, With(tree, p, entry))
<1>1. ASSUME NEW q \in DOMAIN tree, q # p
      PROVE  q \in DOMAIN With(tree, p, entry) /\ With(tree, p, entry)[q] = tree[q]
  BY <1>1 DEF With
<1> QED BY <1>1 DEF Whole

\* What is added is nowhere that something has been placed.
LEMMA WholeIfAdded ==
  ASSUME NEW of, NEW went, NEW tree, NEW p, NEW entry, Whole(of, went, tree),
         p \notin DOMAIN tree
  PROVE  Whole(of, went, With(tree, p, entry))
BY WholeIfElsewhere DEF Whole

LEMMA WholeIfRemoved ==
  ASSUME NEW of, NEW went, NEW tree, NEW p, Whole(of, went, tree),
         \A s \in DOMAIN went : went[s] # Theirs => ~IsPrefix(p, went[s])
  PROVE  Whole(of, went, Without(tree, p))
<1>1. ASSUME NEW q \in DOMAIN tree, ~IsPrefix(p, q)
      PROVE  q \in DOMAIN Without(tree, p) /\ Without(tree, p)[q] = tree[q]
  BY <1>1 DEF Without, Below
<1> QED BY <1>1 DEF Whole

LEMMA WholeIfPlaced ==
  ASSUME NEW of, NEW went, NEW tree, NEW src, NEW p, Whole(of, went, tree),
         p \in DOMAIN tree, tree[p].kind = of[src].kind, tree[p].size = of[src].size
  PROVE  Whole(of, With(went, src, p), tree)
BY DEF Whole, With

LEMMA WholeIfSkipped ==
  ASSUME NEW of, NEW went, NEW tree, NEW S, Whole(of, went, tree)
  PROVE  Whole(of, [s \in DOMAIN went \cup S |-> IF s \in DOMAIN went THEN went[s] ELSE Theirs], tree)
BY DEF Whole

\* Under Replace everything goes to its own place: nothing that has been placed
\* is at, or below, the place of a path that is pending.
LEMMA PlacesApart ==
  ASSUME NEW place, NEW tree, NEW src, NEW frames, NEW went,
         Walks(tree, {src}, frames, went), IsSequence(place),
         \A s \in DOMAIN went : went[s] = place \o s
  PROVE  \A s \in DOMAIN went : ~IsPrefix(place \o src, went[s]) /\ place \o src # went[s]
<1> DEFINE A == ToSet(place) \cup NamesOf(tree)
<1>1. /\ place \in Seq(A) /\ \A s \in DOMAIN tree : s \in Seq(A)
      /\ src \in DOMAIN tree /\ DOMAIN went \subseteq DOMAIN tree
      /\ \A s \in DOMAIN went : ~IsPrefix(src, s)
  <2>1. \A s \in DOMAIN tree : s \in Seq(NamesOf(tree))
    BY WalkPaths
  <2>2. place \in Seq(ToSet(place))
    BY DEF IsSequence
  <2> QED BY <2>1, <2>2 DEF Walks, Pending
<1> HIDE DEF A
<1>2. SUFFICES ASSUME NEW s \in DOMAIN went
               PROVE  ~IsPrefix(place \o src, place \o s) /\ place \o src # place \o s
  BY <1>1
<1>3. src \in Seq(A) /\ s \in Seq(A)
  BY <1>1
<1>4. ~IsPrefix(place \o src, place \o s)
  BY <1>1, <1>3, PrefixInPlace
<1>5. place \o src \in Seq(A)
  BY <1>1, <1>3
<1>6. IsPrefix(place \o src, place \o src)
  BY <1>5, PrefixRefl
<1> QED BY <1>4, <1>6

-----------------------------------------------------------------------------
(***************************************************************************)
(* The places that things are sent to.                                     *)
(***************************************************************************)

Named(p) == IsSequence(p) /\ p # Root /\ p # Theirs /\ IsSequence(Last(p)) /\ Last(p) # <<>>

LEMMA LongIsNotTheirs ==
  ASSUME NEW S, NEW p \in Seq(S), Len(p) > 1
  PROVE  p # Theirs /\ p # Root
<1>1. Len(Theirs) = 1 /\ Len(Root) = 0
  BY DEF Theirs, Root
<1> DEFINE n == Len(p)
<1>2. n \in Nat /\ n > 1
  OBVIOUS
<1> HIDE DEF n
<1>3. n # 1 /\ n # 0
  BY <1>2
<1> QED BY <1>1, <1>3, Zenon DEF n

LEMMA GivensAreNamed == \A p \in {Given} \cup Givens : Named(p)
<1>1. SUFFICES ASSUME NEW p \in {Given} \cup Givens
               PROVE  Named(p)
  OBVIOUS
<1>2. IsSequence(p) /\ p \notin {Root, Theirs} /\ AreNames(p)
  BY TransfersAssumption
<1>3. p \in Seq(ToSet(p)) /\ p # <<>>
  BY <1>2 DEF IsSequence, Root
<1>4. Len(p) \in DOMAIN p
  BY <1>3
<1> QED BY <1>2, <1>4 DEF Named, AreNames, Last

LEMMA NumberedIsNamed ==
  ASSUME NEW p, Named(p), NEW n \in Nat
  PROVE  Named(Numbered(p, n)) /\ Parent(Numbered(p, n)) = Parent(p)
<1>1. IsSequence(p) /\ p # Root /\ IsSequence(Last(p)) /\ Last(p) # <<>>
  BY DEF Named
<1>2. IsSequence(Numbered(p, n)) /\ Parent(Numbered(p, n)) = Parent(p) /\ Numbered(p, n) # Root
  BY <1>1, NumberedFacts
<1>3. CASE n = 0
  BY <1>2, <1>3 DEF Numbered, Named
<1>4. CASE n # 0
  <2> DEFINE x == Append(Last(p), n)
             f == Parent(p)
  <2>1. Last(p) \in Seq(ToSet(Last(p))) /\ Len(Last(p)) > 0
    BY <1>1 DEF IsSequence
  <2>2. x \in Seq(ToSet(Last(p)) \cup {n}) /\ Len(x) > 1
    BY <2>1
  <2> HIDE DEF x
  <2>3. IsSequence(x) /\ x # <<>>
    BY <2>2, InSeqIsSequence
  <2>4. Numbered(p, n) = Append(f, x)
    BY <1>4 DEF Numbered, x, Parent
  <2>5. f \in Seq(ToSet(p))
    BY <1>1, ParentAndLast DEF IsSequence
  <2> HIDE DEF f
  <2>6. Last(Append(f, x)) = x
    BY <2>5, LastAdded
  <2>7. Append(f, x) # Theirs
    <3>1. Last(Theirs) = <<"-">>
      BY DEF Theirs, Last
    <3>2. Len(<<"-">>) = 1
      OBVIOUS
    <3>3. Len(x) # 1
      <4> DEFINE m == Len(x)
      <4>1. m \in Nat /\ m > 1
        BY <2>2
      <4> HIDE DEF m
      <4>2. m # 1
        BY <4>1
      <4> QED BY <4>2 DEF m
    <3> QED BY <2>6, <3>1, <3>2, <3>3, Zenon
  <2> QED BY <1>2, <2>3, <2>4, <2>6, <2>7 DEF Named
<1> QED BY <1>3, <1>4

LEMMA ParentOfChild ==
  ASSUME NEW tree \in Sources, NEW d \in DOMAIN tree, NEW s \in Children(tree, d)
  PROVE  s \in DOMAIN tree /\ s # Root /\ Parent(s) = d /\ IsPrefix(d, s)
<1> DEFINE S == NamesOf(tree)
<1>1. /\ s \in DOMAIN tree /\ IsPrefix(d, s) /\ Len(s) = Len(d) + 1
      /\ d \in Seq(S) /\ s \in Seq(S)
  BY SourcePaths DEF Children, Below
<1> HIDE DEF S
<1>2. Len(d) \in Nat /\ Len(Root) = 0
  BY <1>1 DEF Root
<1>3. s # Root
  BY <1>1, <1>2
<1>4. Parent(s) \in Seq(S) /\ Len(Parent(s)) = Len(d) /\ IsPrefix(Parent(s), s)
  BY <1>1, <1>2, <1>3, ParentAndLast
<1>5. Parent(s) = d
  <2>1. IsPrefix(Parent(s), d) \/ IsPrefix(d, Parent(s))
    BY <1>1, <1>4, PrefixesCompare
  <2>2. CASE IsPrefix(d, Parent(s))
    BY <1>1, <1>4, <2>2, PrefixSame
  <2>3. CASE IsPrefix(Parent(s), d)
    BY <1>1, <1>4, <2>3, PrefixSame
  <2> QED BY <2>1, <2>2, <2>3
<1> QED BY <1>1, <1>3, <1>5

LEMMA ChildIsNamed ==
  ASSUME NEW tree \in Sources, NEW d \in DOMAIN tree, NEW s \in Children(tree, d),
         NEW p, Named(p)
  PROVE  Named(Append(p, Last(s))) /\ Parent(Append(p, Last(s))) = p
<1>1. p \in Seq(ToSet(p)) /\ p # Root
  BY DEF Named, IsSequence
<1>2. s \in DOMAIN tree /\ s # Root
  BY ParentOfChild
<1>3. AreNames(s) /\ IsSequence(s)
  BY <1>2, TransfersAssumption
<1>4. Len(s) \in DOMAIN s
  BY <1>2, <1>3 DEF IsSequence, Root
<1>5. IsSequence(Last(s)) /\ Last(s) # <<>>
  BY <1>3, <1>4 DEF AreNames, Last
<1> DEFINE x == Last(s)
           c == Append(p, x)
<1> HIDE DEF x
<1>6. /\ Parent(c) = p /\ Last(c) = x /\ c \in Seq(ToSet(p) \cup {x}) /\ Len(c) = Len(p) + 1
  BY <1>1, LastAdded
<1>7. Len(p) \in Nat /\ Len(p) > 0
  <2>1. Len(p) \in Nat
    BY <1>1
  <2> QED BY <1>1, <2>1, ParentAndLast
<1> HIDE DEF c
<1>8. c # Theirs /\ c # Root
  BY <1>6, <1>7, LongIsNotTheirs
<1>9. IsSequence(c)
  BY <1>6, InSeqIsSequence
<1> QED BY <1>5, <1>6, <1>8, <1>9 DEF Named, c, x

\* In its place, an entry of a directory is an entry of where that is.
LEMMA ChildGoesInPlace ==
  ASSUME NEW tree \in Sources, NEW d \in DOMAIN tree, NEW s \in Children(tree, d)
  PROVE  Append(Given \o d, Last(s)) = Given \o s
<1>1. Given \in Seq(ToSet(Given))
  BY TransfersAssumption DEF IsSequence
<1> QED BY <1>1, ChildInPlace

-----------------------------------------------------------------------------
(***************************************************************************)
(* 3. The upload over FTP, and the download.                               *)
(***************************************************************************)

\* FtpUpload, and Destination under it, speak of the same trees.
LEMMA FtpTrees ==
  /\ Ftp!Theirs = Theirs /\ Ftp!Skipped = Theirs /\ Ftp!Root = Root
  /\ \A tree, p : /\ Ftp!Exists(tree, p) = Exists(tree, p)
                  /\ Ftp!IsDir(tree, p) = IsDir(tree, p)
                  /\ Ftp!IsFile(tree, p) = IsFile(tree, p)
                  /\ Ftp!CanAdd(tree, p) = CanAdd(tree, p)
                  /\ Ftp!Below(tree, p) = Below(tree, p)
                  /\ Ftp!Children(tree, p) = Children(tree, p)
                  /\ Ftp!Without(tree, p) = Without(tree, p)
  /\ \A tree, p, entry : Ftp!With(tree, p, entry) = With(tree, p, entry)
  /\ \A of, size : Ftp!File(of, size) = File(of, size) /\ Ftp!Dir(of) = Dir(of)
  /\ \A p, n : Ftp!Numbered(p, n) = Numbered(p, n)
  /\ \A p : Ftp!Parent(p) = Parent(p)
  /\ \A tree : Ftp!IsTree(tree) = IsTree(tree)
<1>1. Ftp!Theirs = Theirs /\ Ftp!Skipped = Theirs /\ Ftp!Root = Root
  BY DEF Ftp!Theirs, Theirs, Ftp!Skipped, Ftp!Root, Root
<1>2. \A p : Ftp!Parent(p) = Parent(p)
  BY DEF Ftp!Parent, Ftp!Front, Parent, Front
<1>3. \A tree, p : /\ Ftp!Exists(tree, p) = Exists(tree, p)
                   /\ Ftp!IsDir(tree, p) = IsDir(tree, p)
                   /\ Ftp!IsFile(tree, p) = IsFile(tree, p)
  BY DEF Ftp!Exists, Exists, Ftp!IsDir, IsDir, Ftp!IsFile, IsFile
<1>4. \A tree, p : Ftp!CanAdd(tree, p) = CanAdd(tree, p)
  BY <1>1, <1>2, <1>3 DEF Ftp!CanAdd, CanAdd
<1>5. \A tree, p : Ftp!Below(tree, p) = Below(tree, p)
  BY DEF Ftp!Below, Below, Ftp!IsPrefix, IsPrefix
<1>6. \A tree, p : /\ Ftp!Children(tree, p) = Children(tree, p)
                   /\ Ftp!Without(tree, p) = Without(tree, p)
  BY <1>5 DEF Ftp!Children, Children, Ftp!Without, Without
<1>7. \A tree, p, entry : Ftp!With(tree, p, entry) = With(tree, p, entry)
  BY DEF Ftp!With, With
<1>8. \A of, size : Ftp!File(of, size) = File(of, size) /\ Ftp!Dir(of) = Dir(of)
  BY DEF Ftp!File, File, Ftp!Dir, Dir
<1>9. \A p, n : Ftp!Numbered(p, n) = Numbered(p, n)
  BY DEF Ftp!Numbered, Numbered, Ftp!Front, Front, Ftp!Last, Last
<1>10. \A tree : Ftp!IsTree(tree) = IsTree(tree)
  BY <1>1, <1>2, <1>3 DEF Ftp!IsTree, IsTree
<1> QED BY <1>1, <1>2, <1>3, <1>4, <1>5, <1>6, <1>7, <1>8, <1>9, <1>10

-----------------------------------------------------------------------------
(***************************************************************************)
(* The walk of an upload over FTP and of a download, which have the same   *)
(* variables: all but what they do at the destination.                     *)
(***************************************************************************)

Busy2 == step2 \notin {"next", "done"}
Now2 == IF Busy2 THEN {item2.src} ELSE {}

Call2 ==
  /\ source2 \in Sources /\ policy2 \in Policies /\ others2 \in Nat /\ bytes2 \in Nat
  /\ result2 \in {"none", "ok", "error"} /\ (result2 = "none" <=> step2 # "done")

Walking2 ==
  /\ result2 # "error" => Walks(source2, Now2, stack2, placed2)
  /\ result2 = "ok" => stack2 = <<>>

\* What is in a directory has been placed in the directory that this went to.
PlacedTogether2 ==
  /\ DOMAIN placed2 \subseteq DOMAIN source2
  /\ \A s \in DOMAIN placed2 :
       placed2[s] # Theirs =>
         /\ Named(placed2[s])
         /\ s # Root => /\ Parent(s) \in DOMAIN placed2 /\ placed2[Parent(s)] # Theirs
                        /\ Parent(placed2[s]) = placed2[Parent(s)]

PlacedInPlace2 == policy2 = "replace" => \A s \in DOMAIN placed2 : placed2[s] = Given \o s

Walk2 == Call2 /\ Walking2 /\ PlacedTogether2 /\ PlacedInPlace2

\* Where the item comes from, and where it goes.
ItemPlaced2 ==
  /\ item2.src \in DOMAIN source2 /\ Named(item2.dst)
  /\ Busy2 =>
       /\ \/ item2.src = Root
          \/ \E d \in DOMAIN placed2 : /\ placed2[d] # Theirs /\ item2.src \in Children(source2, d)
                                       /\ Parent(item2.dst) = placed2[d]
       /\ policy2 = "replace" => item2.dst = Given \o item2.src

SameCall2 == UNCHANGED <<source2, policy2, others2>>

LEMMA StaysWalks2 ==
  ASSUME Walk2, Busy2, Busy2', SameCall2, bytes2' = bytes2,
         UNCHANGED <<stack2, placed2, result2>>, item2'.src = item2.src
  PROVE  Walk2'
<1>1. step2 # "done" /\ step2' # "done"
  BY DEF Busy2
<1>2. Call2'
  BY <1>1 DEF Walk2, Call2, SameCall2
<1>3. Now2' = Now2
  BY DEF Now2
<1>4. Walking2'
  BY <1>3 DEF Walk2, Walking2, SameCall2
<1>5. PlacedTogether2' /\ PlacedInPlace2'
  BY DEF Walk2, PlacedTogether2, PlacedInPlace2, SameCall2
<1> QED BY <1>2, <1>4, <1>5 DEF Walk2

LEMMA StaysPlaced2 ==
  ASSUME Walk2, ItemPlaced2, Busy2, SameCall2, placed2' = placed2,
         item2'.src = item2.src, item2'.dst = item2.dst
  PROVE  ItemPlaced2'
BY DEF ItemPlaced2, SameCall2

LEMMA NumberedPlaced2 ==
  ASSUME Walk2, ItemPlaced2, Busy2, SameCall2, placed2' = placed2, policy2 # "replace",
         item2'.src = item2.src, NEW n \in Nat, item2'.dst = Numbered(item2.dst, n)
  PROVE  ItemPlaced2'
<1>1. Named(item2'.dst) /\ Parent(item2'.dst) = Parent(item2.dst)
  BY NumberedIsNamed DEF ItemPlaced2
<1> QED BY <1>1 DEF ItemPlaced2, SameCall2

\* A step after which the walk goes on to the next item.
LEMMA NextPlaced2 ==
  ASSUME ItemPlaced2, step2' \in {"next", "done"}, UNCHANGED <<source2, item2>>
  PROVE  ItemPlaced2'
BY DEF ItemPlaced2, Busy2

LEMMA FailsWalks2 ==
  ASSUME Walk2, SameCall2, bytes2' = bytes2, placed2' = placed2, step2' = "done", result2' = "error"
  PROVE  Walk2'
BY DEF Walk2, Call2, Walking2, PlacedTogether2, PlacedInPlace2, SameCall2

LEMMA SkipsWalks2 ==
  ASSUME Walk2, ItemPlaced2, Busy2, SameCall2, bytes2' = bytes2, UNCHANGED <<stack2, result2, item2>>,
         policy2 # "replace", step2' = "next",
         placed2' = [s \in DOMAIN placed2 \cup Below(source2, item2.src) |->
                       IF s \in DOMAIN placed2 THEN placed2[s] ELSE Theirs]
  PROVE  Walk2'
<1>1. result2 = "none" /\ step2 # "done"
  BY DEF Walk2, Call2, Busy2
<1>2. Call2'
  BY <1>1 DEF Walk2, Call2, SameCall2
<1>3. /\ DOMAIN placed2' = DOMAIN placed2 \cup Below(source2, item2.src)
      /\ \A s \in DOMAIN placed2 : placed2'[s] = placed2[s]
      /\ \A s \in DOMAIN placed2' : s \notin DOMAIN placed2 => placed2'[s] = Theirs
  OBVIOUS
<1>4. Walks(source2, {item2.src}, stack2, placed2)
  BY <1>1 DEF Walk2, Walking2, Now2
<1>5. Walks(source2, {}, stack2, placed2')
  BY <1>3, <1>4, WalkSkips
<1>6. Walking2'
  BY <1>1, <1>5 DEF Walking2, Now2, Busy2, SameCall2
<1>7. DOMAIN placed2' \subseteq DOMAIN source2'
  BY <1>3 DEF Walk2, PlacedTogether2, Below, SameCall2
<1>8. PlacedTogether2'
  BY <1>3, <1>7 DEF Walk2, PlacedTogether2, SameCall2
<1>9. PlacedInPlace2'
  BY DEF PlacedInPlace2, SameCall2
<1> QED BY <1>2, <1>6, <1>8, <1>9 DEF Walk2

\* The item is placed where it goes.
LEMMA PlacesTogether2 ==
  ASSUME Walk2, ItemPlaced2, Busy2, SameCall2, item2.src \notin DOMAIN placed2,
         placed2' = With(placed2, item2.src, item2.dst)
  PROVE  PlacedTogether2' /\ PlacedInPlace2'
<1>1. /\ DOMAIN placed2' = DOMAIN placed2 \cup {item2.src} /\ placed2'[item2.src] = item2.dst
      /\ \A s \in DOMAIN placed2 : placed2'[s] = placed2[s]
  BY DEF With
<1>2. source2 \in Sources
  BY DEF Walk2, Call2
<1>3. DOMAIN placed2' \subseteq DOMAIN source2'
  BY <1>1 DEF Walk2, PlacedTogether2, ItemPlaced2, SameCall2
<1>4. ASSUME item2.src # Root
      PROVE  /\ Parent(item2.src) \in DOMAIN placed2 /\ placed2[Parent(item2.src)] # Theirs
             /\ Parent(item2.dst) = placed2[Parent(item2.src)]
  <2>1. PICK d \in DOMAIN placed2 : /\ placed2[d] # Theirs /\ item2.src \in Children(source2, d)
                                    /\ Parent(item2.dst) = placed2[d]
    BY <1>4 DEF ItemPlaced2
  <2>2. d \in DOMAIN source2
    BY DEF Walk2, PlacedTogether2
  <2>3. Parent(item2.src) = d
    BY <1>2, <2>1, <2>2, ParentOfChild
  <2> QED BY <2>1, <2>3
<1>5. PlacedTogether2'
  <2>1. SUFFICES ASSUME NEW s \in DOMAIN placed2', placed2'[s] # Theirs
                 PROVE  /\ Named(placed2'[s])
                        /\ s # Root => /\ Parent(s) \in DOMAIN placed2' /\ placed2'[Parent(s)] # Theirs
                                       /\ Parent(placed2'[s]) = placed2'[Parent(s)]
    BY <1>3 DEF PlacedTogether2
  <2>2. CASE s = item2.src
    BY <1>1, <1>4, <2>2 DEF ItemPlaced2
  <2>3. CASE s # item2.src
    BY <1>1, <2>1, <2>3 DEF Walk2, PlacedTogether2
  <2> QED BY <2>2, <2>3
<1>6. PlacedInPlace2'
  BY <1>1 DEF Walk2, PlacedInPlace2, ItemPlaced2, SameCall2
<1> QED BY <1>5, <1>6

LEMMA PlacesFile2 ==
  ASSUME Walk2, ItemPlaced2, Busy2, SameCall2, bytes2' \in Nat, UNCHANGED <<stack2, result2>>,
         ~IsDir(source2, item2.src), step2' = "next",
         placed2' = With(placed2, item2.src, item2.dst)
  PROVE  Walk2' /\ item2.src \notin DOMAIN placed2
<1>1. result2 = "none" /\ step2 # "done"
  BY DEF Walk2, Call2, Busy2
<1>2. Call2'
  BY <1>1 DEF Walk2, Call2, SameCall2
<1>3. Walks(source2, {item2.src}, stack2, placed2)
  BY <1>1 DEF Walk2, Walking2, Now2
<1>4. Walks(source2, {}, stack2, placed2') /\ item2.src \notin DOMAIN placed2
  BY <1>3, WalkPlacesFile
<1>5. Walking2'
  BY <1>1, <1>4 DEF Walking2, Now2, Busy2, SameCall2
<1>6. PlacedTogether2' /\ PlacedInPlace2'
  BY <1>4, PlacesTogether2
<1> QED BY <1>2, <1>4, <1>5, <1>6 DEF Walk2

LEMMA EntersDirectory2 ==
  ASSUME Walk2, ItemPlaced2, Busy2, SameCall2, bytes2' = bytes2, result2' = result2, step2' = "next",
         stack2' = Append(stack2, [path |-> item2.dst, todo |-> Children(source2, item2.src)]),
         placed2' = With(placed2, item2.src, item2.dst)
  PROVE  Walk2' /\ item2.src \notin DOMAIN placed2
<1>1. result2 = "none" /\ step2 # "done"
  BY DEF Walk2, Call2, Busy2
<1>2. Call2'
  BY <1>1 DEF Walk2, Call2, SameCall2
<1>3. Walks(source2, {item2.src}, stack2, placed2)
  BY <1>1 DEF Walk2, Walking2, Now2
<1>4. item2.dst # Theirs
  BY DEF ItemPlaced2, Named
<1>5. Walks(source2, {}, stack2', placed2') /\ item2.src \notin DOMAIN placed2
  BY <1>3, <1>4, WalkEnters
<1>6. Walking2'
  BY <1>1, <1>5 DEF Walking2, Now2, Busy2, SameCall2
<1>7. PlacedTogether2' /\ PlacedInPlace2'
  BY <1>5, PlacesTogether2
<1> QED BY <1>2, <1>5, <1>6, <1>7 DEF Walk2

LEMMA EntersChild2 ==
  ASSUME Walk2, step2 = "next", stack2 # <<>>, NEW s \in Last(stack2).todo, SameCall2, bytes2' = bytes2,
         UNCHANGED <<placed2, result2>>, step2' \notin {"next", "done"},
         item2'.src = s, item2'.dst = Append(Last(stack2).path, Last(s)),
         stack2' = Append(Front(stack2), [Last(stack2) EXCEPT !.todo = @ \ {s}])
  PROVE  /\ Walk2' /\ ItemPlaced2'
         /\ s # Root /\ Last(stack2).path = placed2[Parent(s)]
<1>1. result2 = "none" /\ Now2 = {}
  BY DEF Walk2, Call2, Now2, Busy2
<1>2. Call2'
  BY <1>1 DEF Walk2, Call2, SameCall2
<1>3. Walks(source2, {}, stack2, placed2)
  BY <1>1 DEF Walk2, Walking2
<1>4. /\ Walks(source2, {s}, stack2', placed2)
      /\ \E d \in DOMAIN placed2 : /\ Last(stack2).path = placed2[d] /\ placed2[d] # Theirs
                                   /\ s \in Children(source2, d)
  <2>1. /\ stack2 # <<>> /\ s \in Last(stack2).todo
        /\ stack2' = Append(Front(stack2), [Last(stack2) EXCEPT !.todo = @ \ {s}])
    OBVIOUS
  <2> QED BY ONLY <1>3, <2>1, WalkGoesOn
<1>5. Walking2'
  BY <1>1, <1>4 DEF Walking2, Now2, Busy2, SameCall2
<1>6. PlacedTogether2' /\ PlacedInPlace2'
  BY DEF Walk2, PlacedTogether2, PlacedInPlace2, SameCall2
<1>7. PICK d \in DOMAIN placed2 : /\ Last(stack2).path = placed2[d] /\ placed2[d] # Theirs
                                  /\ s \in Children(source2, d)
  BY <1>4
<1>8. d \in DOMAIN source2 /\ source2 \in Sources /\ Named(placed2[d])
  BY <1>7 DEF Walk2, PlacedTogether2, Call2
<1>9. s \in DOMAIN source2
  BY <1>7, <1>8, ParentOfChild
<1>10. Named(item2'.dst) /\ Parent(item2'.dst) = placed2[d]
  BY <1>7, <1>8, ChildIsNamed
<1>11. policy2 = "replace" => item2'.dst = Given \o s
  <2>1. ASSUME policy2 = "replace"
        PROVE  item2'.dst = Given \o s
    <3>1. Last(stack2).path = Given \o d
      BY <1>7, <2>1 DEF Walk2, PlacedInPlace2
    <3>2. Append(Given \o d, Last(s)) = Given \o s
      BY <1>7, <1>8, ChildGoesInPlace
    <3>3. item2'.dst = Append(Last(stack2).path, Last(s))
      OBVIOUS
    <3> QED BY ONLY <3>1, <3>2, <3>3
  <2> QED BY <2>1
<1>12. ItemPlaced2'
  BY <1>7, <1>9, <1>10, <1>11 DEF ItemPlaced2, SameCall2
<1>13. s # Root /\ Parent(s) = d
  BY <1>7, <1>8, ParentOfChild
<1> QED BY <1>2, <1>5, <1>6, <1>7, <1>12, <1>13 DEF Walk2

LEMMA Leaves2 ==
  ASSUME Walk2, step2 = "next", SameCall2, bytes2' = bytes2, UNCHANGED <<placed2, item2>>,
         \/ /\ stack2 # <<>> /\ Last(stack2).todo = {} /\ stack2' = Front(stack2)
            /\ UNCHANGED <<step2, result2>>
         \/ stack2 = <<>> /\ step2' = "done" /\ result2' = "ok" /\ UNCHANGED stack2
  PROVE  Walk2'
<1>1. result2 = "none" /\ Now2 = {} /\ Now2' = {}
  BY DEF Walk2, Call2, Now2, Busy2
<1>2. Call2'
  BY <1>1 DEF Walk2, Call2, SameCall2
<1>3. Walks(source2, {}, stack2, placed2)
  BY <1>1 DEF Walk2, Walking2
<1>4. PlacedTogether2' /\ PlacedInPlace2'
  BY DEF Walk2, PlacedTogether2, PlacedInPlace2, SameCall2
<1>5. CASE /\ stack2 # <<>> /\ Last(stack2).todo = {} /\ stack2' = Front(stack2)
           /\ UNCHANGED <<step2, result2>>
  <2>1. Walks(source2, {}, stack2', placed2)
    BY <1>3, <1>5, WalkLeaves
  <2>2. Walking2'
    BY <1>1, <1>5, <2>1 DEF Walking2, SameCall2
  <2> QED BY <1>2, <1>4, <2>2 DEF Walk2
<1>6. CASE stack2 = <<>> /\ step2' = "done" /\ result2' = "ok" /\ UNCHANGED stack2
  <2>1. Walking2'
    BY <1>1, <1>3, <1>6 DEF Walking2, SameCall2
  <2> QED BY <1>2, <1>4, <2>1 DEF Walk2
<1> QED BY <1>5, <1>6

\* What others do does not touch the walk.
LEMMA OthersWalk2 ==
  ASSUME Walk2, ItemPlaced2, others2' = others2 + 1,
         UNCHANGED <<source2, policy2, step2, item2, stack2, placed2, bytes2, result2>>
  PROVE  Walk2' /\ ItemPlaced2'
<1>1. Now2' = Now2
  BY DEF Now2, Busy2
<1>2. Walk2'
  BY <1>1 DEF Walk2, Call2, Walking2, PlacedTogether2, PlacedInPlace2
<1>3. ItemPlaced2'
  BY DEF ItemPlaced2, Busy2
<1> QED BY <1>2, <1>3

\* All has arrived when the walk has ended.
LEMMA EndsWithAll2 ==
  ASSUME Walk2, \/ result2 = "ok"
                \/ step2 = "next" /\ stack2 = <<>>
  PROVE  DOMAIN placed2 = DOMAIN source2
<1>1. stack2 = <<>> /\ Walks(source2, {}, stack2, placed2)
  BY DEF Walk2, Walking2, Now2, Busy2, Call2
<1> QED BY <1>1, WalkEnds

-----------------------------------------------------------------------------
(***************************************************************************)
(* The upload over FTP, step by step.                                      *)
(***************************************************************************)

FtpItem ==
  /\ step2 \in Ftp!Steps
  /\ DOMAIN item2 = {"src", "dst", "n", "again"} /\ item2.n \in Nat
  /\ step2 \in {"check", "delete", "mkdir"} => IsDir(source2, item2.src)
  /\ step2 \in {"clear", "empty", "put", "broken"} => ~IsDir(source2, item2.src)
  /\ step2 \in {"delete", "empty"} => policy2 = "replace"
  /\ step2 = "number" => policy2 = "keep_both"

SkippedIfTold2 == \A s \in DOMAIN placed2 : placed2[s] = Theirs => policy2 = "keep_existing"

\* What an upload that nobody disturbs may rely on.
FtpRelies ==
  /\ step2 \in {"clear", "put"} /\ policy2 # "replace" => ~Exists(tree2, item2.dst)
  /\ step2 \in {"check", "mkdir"} /\ policy2 = "keep_both" => ~Exists(tree2, item2.dst)
  /\ step2 \in {"delete", "put"} => ~IsDir(tree2, item2.dst)

Undisturbed2 == others2 = 0 => Whole(source2, placed2, tree2) /\ SkippedIfTold2

FtpInv ==
  /\ Walk2 /\ ItemPlaced2 /\ TreeOK(tree2)
  /\ FtpItem /\ Undisturbed2 /\ (others2 = 0 => FtpRelies)

\* A step that looks, and goes on with the same item.
FtpLooks ==
  /\ SameCall2 /\ UNCHANGED <<tree2, stack2, placed2, bytes2, result2>>
  /\ DOMAIN item2' = {"src", "dst", "n", "again"} /\ item2'.n \in Nat
  /\ item2'.src = item2.src

LEMMA FtpLooksInv ==
  ASSUME FtpInv, Busy2, Busy2', FtpLooks, step2' \in Ftp!Steps,
         \/ item2'.dst = item2.dst
         \/ policy2 # "replace" /\ \E n \in Nat : item2'.dst = Numbered(item2.dst, n),
         step2' \in {"check", "delete", "mkdir"} => IsDir(source2, item2.src),
         step2' \in {"clear", "empty", "put", "broken"} => ~IsDir(source2, item2.src),
         step2' = "delete" => policy2 = "replace" /\ ~IsDir(tree2, item2.dst) /\ item2' = item2,
         step2' = "empty" => policy2 = "replace",
         step2' = "number" => policy2 = "keep_both",
         others2 = 0 /\ step2' = "put" =>
           ~IsDir(tree2, item2'.dst) /\ (policy2 # "replace" => ~Exists(tree2, item2'.dst)),
         step2' = "clear" /\ policy2 # "replace" => ~Exists(tree2, item2'.dst),
         step2' \in {"check", "mkdir"} /\ policy2 = "keep_both" => ~Exists(tree2, item2'.dst)
  PROVE  FtpInv'
<1>1. Walk2 /\ ItemPlaced2 /\ SameCall2 /\ bytes2' = bytes2 /\ UNCHANGED <<stack2, placed2, result2>>
  BY DEF FtpInv, FtpLooks
<1>2. item2'.src = item2.src
  BY DEF FtpLooks
<1>3. Walk2'
  BY <1>1, <1>2, StaysWalks2
<1>4. ItemPlaced2'
  <2>1. CASE item2'.dst = item2.dst
    BY <1>1, <1>2, <2>1, StaysPlaced2
  <2>2. CASE policy2 # "replace" /\ \E n \in Nat : item2'.dst = Numbered(item2.dst, n)
    BY <1>1, <1>2, <2>2, NumberedPlaced2
  <2> QED BY <2>1, <2>2
<1>5. TreeOK(tree2)'
  BY DEF FtpInv, FtpLooks
<1>6. FtpItem'
  BY DEF FtpInv, FtpItem, FtpLooks, SameCall2
<1>7. Undisturbed2'
  BY DEF FtpInv, Undisturbed2, SkippedIfTold2, FtpLooks, SameCall2
<1>8. (others2 = 0 => FtpRelies)'
  BY DEF FtpInv, FtpRelies, FtpLooks, SameCall2
<1> QED BY <1>3, <1>4, <1>5, <1>6, <1>7, <1>8 DEF FtpInv

LEMMA FtpFailsInv == FtpInv /\ Ftp!CallFails => FtpInv'
<1>1. SUFFICES ASSUME FtpInv, Ftp!CallFails
               PROVE  FtpInv'
  OBVIOUS
<1>2. /\ SameCall2 /\ bytes2' = bytes2 /\ placed2' = placed2 /\ step2' = "done" /\ result2' = "error"
      /\ UNCHANGED <<tree2, item2>>
  BY <1>1 DEF Ftp!CallFails, Ftp!call, SameCall2
<1>3. Walk2'
  BY <1>1, <1>2, FailsWalks2 DEF FtpInv
<1>4. ItemPlaced2'
  <2>1. ItemPlaced2 /\ step2' \in {"next", "done"} /\ UNCHANGED <<source2, item2>>
    BY <1>1, <1>2 DEF FtpInv, SameCall2
  <2> QED BY <2>1, NextPlaced2
<1>5. FtpItem'
  BY <1>1, <1>2 DEF FtpInv, FtpItem, Ftp!Steps, SameCall2
<1>6. Undisturbed2' /\ (others2 = 0 => FtpRelies)'
  BY <1>1, <1>2 DEF FtpInv, Undisturbed2, SkippedIfTold2, FtpRelies, SameCall2
<1>7. TreeOK(tree2)'
  BY <1>1, <1>2 DEF FtpInv
<1> QED BY <1>3, <1>4, <1>5, <1>6, <1>7 DEF FtpInv

\* Where the item goes has been decided.
LEMMA FtpDestinedInv ==
  ASSUME FtpInv, step2 \in {"resolve", "number"}, NEW p, Ftp!Destined(p),
         p = item2.dst \/ (policy2 # "replace" /\ \E n \in Nat : p = Numbered(item2.dst, n)),
         policy2 = "keep_both" => ~Exists(tree2, p),
         policy2 # "replace" /\ ~IsDir(source2, item2.src) => ~Exists(tree2, p)
  PROVE  FtpInv'
<1>1. FtpLooks /\ item2'.dst = p
  BY DEF Ftp!Destined, Ftp!Look, Ftp!GoOn, Ftp!call, FtpLooks, SameCall2, FtpInv, FtpItem
<1>2. step2' = IF item2.again THEN "resolve" ELSE IF IsDir(source2, item2.src) THEN "check" ELSE "clear"
  BY FtpTrees DEF Ftp!Destined, Ftp!Look, Ftp!GoOn, Ftp!IsDirItem
<1>3. Busy2 /\ Busy2' /\ step2' \in Ftp!Steps
  BY <1>2 DEF Busy2, Ftp!Steps
<1> QED BY <1>1, <1>2, <1>3, FtpLooksInv

\* The item is skipped, with all that is below it.
LEMMA FtpSkipInv ==
  ASSUME FtpInv, Busy2, Ftp!Skip, policy2 # "replace", others2 = 0 => policy2 = "keep_existing"
  PROVE  FtpInv'
<1>1. /\ SameCall2 /\ bytes2' = bytes2 /\ UNCHANGED <<stack2, result2, item2>> /\ step2' = "next"
      /\ tree2' = tree2
  BY DEF Ftp!Skip, Ftp!GoOn, Ftp!call, SameCall2
<1>2. placed2' = [s \in DOMAIN placed2 \cup Below(source2, item2.src) |->
                    IF s \in DOMAIN placed2 THEN placed2[s] ELSE Theirs]
  BY FtpTrees DEF Ftp!Skip
<1>3. Walk2'
  BY <1>1, <1>2, SkipsWalks2 DEF FtpInv
<1>4. ItemPlaced2'
  <2>1. ItemPlaced2 /\ step2' \in {"next", "done"} /\ UNCHANGED <<source2, item2>>
    BY <1>1 DEF FtpInv, SameCall2
  <2> QED BY <2>1, NextPlaced2
<1>5. FtpItem'
  BY <1>1 DEF FtpInv, FtpItem, Ftp!Steps, SameCall2
<1>6. (others2 = 0 => FtpRelies)'
  BY <1>1 DEF FtpRelies
<1>7. Undisturbed2'
  <2>1. SUFFICES ASSUME others2 = 0
                 PROVE  Whole(source2, placed2, tree2)' /\ SkippedIfTold2'
    BY <1>1 DEF Undisturbed2, SameCall2
  <2>2. Whole(source2, placed2', tree2)
    BY <1>2, <2>1, WholeIfSkipped DEF FtpInv, Undisturbed2
  <2>3. SkippedIfTold2'
    BY <1>1, <2>1 DEF SkippedIfTold2, SameCall2
  <2> QED BY <1>1, <2>2, <2>3 DEF SameCall2
<1>8. TreeOK(tree2)'
  BY <1>1 DEF FtpInv
<1> QED BY <1>3, <1>4, <1>5, <1>6, <1>7, <1>8 DEF FtpInv

LEMMA FtpResolveKinds ==
  ASSUME FtpInv, Ftp!Resolve
  PROVE  /\ step2 = "resolve"
         /\ \/ /\ Ftp!Destined(item2.dst)
               /\ policy2 = "keep_both" => ~Exists(tree2, item2.dst)
               /\ policy2 # "replace" /\ ~IsDir(source2, item2.src) => ~Exists(tree2, item2.dst)
            \/ policy2 = "keep_existing" /\ Ftp!Skip
            \/ policy2 = "keep_both" /\ item2' = [item2 EXCEPT !.n = 1] /\ Ftp!Look("number")
<1>1. step2 = "resolve" /\ policy2 \in {"keep_existing", "replace", "keep_both"}
  BY TreesAssumption DEF Ftp!Resolve, FtpInv, Walk2, Call2
<1>2. Ftp!Merges <=> \/ policy2 = "replace"
                     \/ policy2 = "keep_existing" /\ IsDir(source2, item2.src) /\ IsDir(tree2, item2.dst)
  BY FtpTrees DEF Ftp!Merges, Ftp!IsDirItem
<1>3. Ftp!Exists(tree2, item2.dst) = Exists(tree2, item2.dst)
  BY FtpTrees
<1>4. CASE ~Exists(tree2, item2.dst) \/ Ftp!Merges
  <2>1. Ftp!Destined(item2.dst)
    BY <1>1, <1>2, <1>3, <1>4 DEF Ftp!Resolve
  <2> QED BY <1>1, <1>2, <1>4, <2>1
<1>5. CASE Exists(tree2, item2.dst) /\ ~Ftp!Merges /\ policy2 = "keep_existing"
  BY <1>1, <1>3, <1>5 DEF Ftp!Resolve
<1>6. CASE Exists(tree2, item2.dst) /\ ~Ftp!Merges /\ policy2 = "keep_both"
  BY <1>1, <1>3, <1>6 DEF Ftp!Resolve
<1> QED BY <1>1, <1>2, <1>4, <1>5, <1>6

LEMMA FtpResolveInv == FtpInv /\ Ftp!Resolve => FtpInv'
<1>1. SUFFICES ASSUME FtpInv, Ftp!Resolve
               PROVE  FtpInv'
  OBVIOUS
<1>2. step2 = "resolve" /\ Busy2
  BY <1>1, FtpResolveKinds DEF Busy2
<1>3. CASE /\ Ftp!Destined(item2.dst)
           /\ policy2 = "keep_both" => ~Exists(tree2, item2.dst)
           /\ policy2 # "replace" /\ ~IsDir(source2, item2.src) => ~Exists(tree2, item2.dst)
  BY <1>1, <1>2, <1>3, FtpDestinedInv
<1>4. CASE policy2 = "keep_existing" /\ Ftp!Skip
  BY <1>1, <1>2, <1>4, FtpSkipInv
<1>5. CASE policy2 = "keep_both" /\ item2' = [item2 EXCEPT !.n = 1] /\ Ftp!Look("number")
  <2>1. FtpLooks /\ step2' = "number" /\ item2'.dst = item2.dst
    BY <1>1, <1>5 DEF Ftp!Look, Ftp!GoOn, Ftp!call, FtpLooks, SameCall2, FtpInv, FtpItem
  <2>2. Busy2' /\ step2' \in Ftp!Steps
    BY <2>1 DEF Busy2, Ftp!Steps
  <2> QED BY <1>1, <1>2, <1>5, <2>1, <2>2, FtpLooksInv
<1> QED BY <1>1, <1>3, <1>4, <1>5, FtpResolveKinds

LEMMA FtpNumberInv == FtpInv /\ Ftp!NumberRemote => FtpInv'
<1>1. SUFFICES ASSUME FtpInv, Ftp!NumberRemote
               PROVE  FtpInv'
  OBVIOUS
<1>2. step2 = "number" /\ Busy2 /\ policy2 = "keep_both" /\ item2.n \in Nat
  BY <1>1 DEF Ftp!NumberRemote, Busy2, FtpInv, FtpItem
<1>3. CASE Exists(tree2, Numbered(item2.dst, item2.n))
  <2>1. item2' = [item2 EXCEPT !.n = @ + 1] /\ Ftp!Look("number")
    BY <1>1, <1>3, FtpTrees DEF Ftp!NumberRemote, Ftp!NextFree
  <2>2. FtpLooks /\ step2' = "number" /\ item2'.dst = item2.dst
    BY <1>1, <1>2, <2>1 DEF Ftp!Look, Ftp!GoOn, Ftp!call, FtpLooks, SameCall2, FtpInv, FtpItem
  <2>3. Busy2' /\ step2' \in Ftp!Steps
    BY <2>2 DEF Busy2, Ftp!Steps
  <2> QED BY <1>1, <1>2, <2>2, <2>3, FtpLooksInv
<1>4. CASE ~Exists(tree2, Numbered(item2.dst, item2.n))
  <2>1. Ftp!Destined(Numbered(item2.dst, item2.n))
    BY <1>1, <1>4, FtpTrees DEF Ftp!NumberRemote, Ftp!NextFree
  <2> QED BY <1>1, <1>2, <1>4, <2>1, FtpDestinedInv
<1> QED BY <1>3, <1>4

LEMMA SizeIsNat ==
  ASSUME NEW tree \in Sources, NEW s \in DOMAIN tree
  PROVE  /\ tree[s].size \in Nat
         /\ IsDir(tree, s) => tree[s].kind = "dir" /\ tree[s].size = 0
         /\ ~IsDir(tree, s) => tree[s].kind = "file"
<1>1. IsEntry(tree[s])
  BY TransfersAssumption
<1>2. IsDir(tree, s) \/ IsFile(tree, s)
  BY <1>1, EntryKinds DEF Exists
<1>3. tree[s].size \in Nat
  BY <1>1 DEF IsEntry, File, Dir
<1> QED BY <1>1, <1>2, <1>3, DirHasNoSize DEF IsDir, IsFile

\* A directory is there, and its entries are walked.
LEMMA FtpEntersInv ==
  ASSUME FtpInv, Busy2, Ftp!EnterDirectory, TreeOK(tree2'), IsDir(source2, item2.src),
         others2 = 0 => IsDir(tree2', item2.dst) /\ Whole(source2, placed2, tree2')
  PROVE  FtpInv'
<1>1. /\ SameCall2 /\ bytes2' = bytes2 /\ UNCHANGED <<result2, item2>> /\ step2' = "next"
      /\ stack2' = Append(stack2, [path |-> item2.dst, todo |-> Children(source2, item2.src)])
      /\ placed2' = With(placed2, item2.src, item2.dst)
  BY FtpTrees DEF Ftp!EnterDirectory, Ftp!Walk, Ftp!call, SameCall2
<1>2. Walk2' /\ item2.src \notin DOMAIN placed2
  BY <1>1, EntersDirectory2 DEF FtpInv
<1>3. ItemPlaced2'
  <2>1. ItemPlaced2 /\ step2' \in {"next", "done"} /\ UNCHANGED <<source2, item2>>
    BY <1>1 DEF FtpInv, SameCall2
  <2> QED BY <2>1, NextPlaced2
<1>4. FtpItem'
  BY <1>1 DEF FtpInv, FtpItem, Ftp!Steps, SameCall2
<1>5. (others2 = 0 => FtpRelies)'
  BY <1>1 DEF FtpRelies
<1>6. Undisturbed2'
  <2>1. SUFFICES ASSUME others2 = 0
                 PROVE  Whole(source2, placed2, tree2)' /\ SkippedIfTold2'
    BY <1>1 DEF Undisturbed2, SameCall2
  <2>2. /\ item2.dst \in DOMAIN tree2' /\ tree2'[item2.dst].kind = source2[item2.src].kind
        /\ tree2'[item2.dst].size = source2[item2.src].size
    <3>1. source2 \in Sources /\ item2.src \in DOMAIN source2
      BY DEF FtpInv, Walk2, Call2, ItemPlaced2
    <3>2. IsDir(tree2', item2.dst) /\ IsEntry(tree2'[item2.dst])
      BY <2>1 DEF TreeOK, IsDir, Exists
    <3>3. tree2'[item2.dst].size = 0
      BY <3>2, DirHasNoSize
    <3>4. source2[item2.src].kind = "dir" /\ source2[item2.src].size = 0
      BY <3>1, SizeIsNat
    <3> QED BY <3>2, <3>3, <3>4 DEF IsDir, Exists
  <2>3. Whole(source2, placed2', tree2')
    BY <1>1, <2>1, <2>2, WholeIfPlaced
  <2>4. item2.dst # Theirs
    BY DEF FtpInv, ItemPlaced2, Named
  <2>5. SkippedIfTold2'
    BY <1>1, <2>1, <2>4 DEF FtpInv, Undisturbed2, SkippedIfTold2, With, SameCall2
  <2> QED BY <1>1, <2>3, <2>5 DEF SameCall2
<1> QED BY <1>2, <1>3, <1>4, <1>5, <1>6 DEF FtpInv

LEMMA FtpCheckInv == FtpInv /\ Ftp!CheckDirectory => FtpInv'
<1>1. SUFFICES ASSUME FtpInv, Ftp!CheckDirectory
               PROVE  FtpInv'
  OBVIOUS
<1>2. /\ step2 = "check" /\ Busy2 /\ policy2 \in {"keep_existing", "replace", "keep_both"}
      /\ IsDir(source2, item2.src) /\ FtpItem
  BY <1>1, TreesAssumption DEF Ftp!CheckDirectory, Busy2, FtpInv, Walk2, Call2, FtpItem
<1>3. /\ Ftp!Exists(tree2, item2.dst) = Exists(tree2, item2.dst)
      /\ Ftp!IsDir(tree2, item2.dst) = IsDir(tree2, item2.dst)
  BY FtpTrees
<1>4. IsDir(tree2, item2.dst) => Exists(tree2, item2.dst)
  BY DEF IsDir
<1>5. CASE IsDir(tree2, item2.dst)
  <2>1. Ftp!EnterDirectory /\ UNCHANGED tree2
    BY <1>1, <1>3, <1>4, <1>5 DEF Ftp!CheckDirectory
  <2>2. TreeOK(tree2')
    BY <1>1, <2>1 DEF FtpInv
  <2>3. others2 = 0 => IsDir(tree2', item2.dst) /\ Whole(source2, placed2, tree2')
    BY <1>1, <1>5, <2>1 DEF FtpInv, Undisturbed2
  <2> QED BY <1>1, <1>2, <2>1, <2>2, <2>3, FtpEntersInv
<1>6. CASE ~Exists(tree2, item2.dst)
  <2>1. Ftp!Look("mkdir") /\ UNCHANGED item2
    BY <1>1, <1>3, <1>4, <1>6 DEF Ftp!CheckDirectory
  <2>2. FtpLooks /\ step2' = "mkdir" /\ item2'.dst = item2.dst
    BY <1>2, <2>1 DEF Ftp!Look, Ftp!GoOn, Ftp!call, FtpLooks, SameCall2, FtpItem
  <2>3. Busy2' /\ step2' \in Ftp!Steps
    BY <2>2 DEF Busy2, Ftp!Steps
  <2> QED BY <1>1, <1>2, <1>6, <2>1, <2>2, <2>3, FtpLooksInv
<1>7. CASE Exists(tree2, item2.dst) /\ ~IsDir(tree2, item2.dst) /\ policy2 = "replace"
  <2>1. Ftp!Look("delete") /\ UNCHANGED item2
    BY <1>1, <1>3, <1>7 DEF Ftp!CheckDirectory
  <2>2. FtpLooks /\ step2' = "delete" /\ item2'.dst = item2.dst
    BY <1>2, <2>1 DEF Ftp!Look, Ftp!GoOn, Ftp!call, FtpLooks, SameCall2, FtpItem
  <2>3. Busy2' /\ step2' \in Ftp!Steps
    BY <2>2 DEF Busy2, Ftp!Steps
  <2> QED BY <1>1, <1>2, <1>7, <2>1, <2>2, <2>3, FtpLooksInv
<1>8. CASE Exists(tree2, item2.dst) /\ ~IsDir(tree2, item2.dst) /\ policy2 # "replace"
  <2>1. Ftp!Skip
    BY <1>1, <1>3, <1>8 DEF Ftp!CheckDirectory
  <2>2. others2 = 0 => policy2 = "keep_existing"
    BY <1>1, <1>2, <1>8 DEF FtpInv, FtpRelies
  <2> QED BY <1>1, <1>2, <1>8, <2>1, <2>2, FtpSkipInv
<1> QED BY <1>5, <1>6, <1>7, <1>8

LEMMA RootStays == \A tree, p : TreeOK(tree) /\ IsFile(tree, p) => p # Root
BY DEF TreeOK, IsTree, IsDir, IsFile

\* What makes way for the item is not what has been placed.
LEMMA ReplacedIsNotPlaced2 ==
  ASSUME Walk2, ItemPlaced2, Busy2, policy2 = "replace"
  PROVE  /\ item2.dst = Given \o item2.src
         /\ \A s \in DOMAIN placed2 : ~IsPrefix(item2.dst, placed2[s]) /\ item2.dst # placed2[s]
<1>1. item2.dst = Given \o item2.src
  BY DEF ItemPlaced2
<1>2. Walks(source2, {item2.src}, stack2, placed2)
  BY DEF Walk2, Walking2, Call2, Now2, Busy2
<1>3. \A s \in DOMAIN placed2 : placed2[s] = Given \o s
  BY DEF Walk2, PlacedInPlace2
<1>4. IsSequence(Given)
  BY TransfersAssumption
<1>5. ASSUME NEW src, src = item2.src
      PROVE  \A s \in DOMAIN placed2 : ~IsPrefix(Given \o src, placed2[s]) /\ Given \o src # placed2[s]
  <2>1. Walks(source2, {src}, stack2, placed2)
    BY <1>2, <1>5
  <2> QED BY <1>3, <1>4, <2>1, PlacesApart
<1> QED BY <1>1, <1>5

\* Under Replace nothing that has been placed is at the item or below it, and
\* what is there may go, piece by piece.
LEMMA ClearedIsNotPlaced2 ==
  ASSUME Walk2, ItemPlaced2, Busy2, policy2 = "replace", TreeOK(tree2),
         NEW p \in Below(tree2, item2.dst)
  PROVE  /\ p \in DOMAIN tree2 /\ IsPrefix(item2.dst, p) /\ TreeOK(Without(tree2, p))
         /\ Whole(source2, placed2, tree2) => Whole(source2, placed2, Without(tree2, p))
         /\ ~Exists(Without(tree2, item2.dst), item2.dst)
         /\ IsDir(Without(tree2, p), item2.dst) => IsDir(tree2, item2.dst)
<1>1. p \in DOMAIN tree2 /\ IsPrefix(item2.dst, p)
  BY DEF Below
<1>2. IsSequence(p) /\ IsSequence(item2.dst) /\ item2.dst # Root
  BY <1>1 DEF TreeOK, ItemPlaced2, Named
<1>3. p # Root
  <2>1. Len(item2.dst) \in Nat /\ Len(item2.dst) # 0
    BY <1>2 DEF IsSequence, Root
  <2>2. Len(Root) = 0
    BY DEF Root
  <2> QED BY <1>1, <2>1, <2>2 DEF IsPrefix
<1>4. TreeOK(Without(tree2, p))
  BY <1>2, <1>3, WithoutKeeps
<1>5. ASSUME NEW s \in DOMAIN placed2, IsPrefix(p, placed2[s])
      PROVE  FALSE
  <2>1. placed2[s] = Given \o s /\ s \in DOMAIN source2 /\ source2 \in Sources
    BY <1>5 DEF Walk2, Call2, PlacedInPlace2, PlacedTogether2
  <2>2. IsSequence(Given) /\ IsSequence(s)
    BY <2>1, TransfersAssumption
  <2> DEFINE S == ToSet(Given) \cup ToSet(s) \cup ToSet(p) \cup ToSet(item2.dst)
  <2>3. Given \in Seq(S) /\ s \in Seq(S) /\ p \in Seq(S) /\ item2.dst \in Seq(S)
    BY <1>2, <2>2 DEF IsSequence
  <2> HIDE DEF S
  <2>4. IsPrefix(item2.dst, placed2[s])
    <3>1. placed2[s] \in Seq(S)
      BY <2>1, <2>3
    <3> QED BY <1>1, <1>5, <2>3, <3>1, PrefixTrans
  <2>5. ~IsPrefix(item2.dst, placed2[s])
    BY ReplacedIsNotPlaced2
  <2> QED BY <2>4, <2>5
<1>6. Whole(source2, placed2, tree2) => Whole(source2, placed2, Without(tree2, p))
  BY <1>5, WholeIfRemoved
<1>7. ~Exists(Without(tree2, item2.dst), item2.dst)
  <2>1. IsPrefix(item2.dst, item2.dst)
    BY <1>2, PrefixRefl DEF IsSequence
  <2>2. DOMAIN Without(tree2, item2.dst) = {q \in DOMAIN tree2 : ~IsPrefix(item2.dst, q)}
    BY WithoutFacts
  <2> QED BY <2>1, <2>2 DEF Exists
<1>8. IsDir(Without(tree2, p), item2.dst) => IsDir(tree2, item2.dst)
  BY WithoutFacts DEF IsDir, Exists
<1> QED BY <1>1, <1>4, <1>6, <1>7, <1>8

LEMMA FtpDeleteInv == FtpInv /\ Ftp!DeleteForDirectory => FtpInv'
<1>1. SUFFICES ASSUME FtpInv, Ftp!DeleteForDirectory
               PROVE  FtpInv'
  OBVIOUS
<1>2. /\ step2 = "delete" /\ Busy2 /\ policy2 = "replace" /\ IsDir(source2, item2.src)
      /\ Walk2 /\ ItemPlaced2 /\ TreeOK(tree2) /\ FtpItem
  BY <1>1 DEF Ftp!DeleteForDirectory, Busy2, FtpInv, FtpItem
<1>3. /\ tree2' = Without(tree2, item2.dst) /\ step2' = "mkdir"
      /\ SameCall2 /\ bytes2' = bytes2 /\ UNCHANGED <<stack2, result2, item2, placed2>>
  BY <1>1, FtpTrees DEF Ftp!DeleteForDirectory, Ftp!GoOn, Ftp!call, SameCall2
<1>4. Busy2'
  BY <1>3 DEF Busy2
<1>5. Walk2'
  BY <1>2, <1>3, <1>4, StaysWalks2
<1>6. ItemPlaced2'
  BY <1>2, <1>3, StaysPlaced2
<1>7. TreeOK(tree2)'
  <2>1. IsSequence(item2.dst) /\ item2.dst # Root
    BY <1>2 DEF ItemPlaced2, Named
  <2> QED BY <1>2, <1>3, <2>1, WithoutKeeps
<1>8. FtpItem'
  BY <1>2, <1>3 DEF FtpItem, Ftp!Steps, SameCall2
<1>9. Undisturbed2'
  <2>1. SUFFICES ASSUME others2 = 0
                 PROVE  Whole(source2, placed2, tree2)' /\ SkippedIfTold2'
    BY <1>3 DEF Undisturbed2, SameCall2
  <2>2. Whole(source2, placed2, tree2')
    BY <1>1, <1>2, <1>3, <2>1, ReplacedIsNotPlaced2, WholeIfRemoved DEF FtpInv, Undisturbed2
  <2>3. SkippedIfTold2'
    BY <1>1, <1>3, <2>1 DEF FtpInv, Undisturbed2, SkippedIfTold2, SameCall2
  <2> QED BY <1>3, <2>2, <2>3 DEF SameCall2
<1>10. (others2 = 0 => FtpRelies)'
  BY <1>2, <1>3 DEF FtpRelies, SameCall2
<1> QED BY <1>5, <1>6, <1>7, <1>8, <1>9, <1>10 DEF FtpInv

LEMMA FtpMakeInv == FtpInv /\ Ftp!MakeDirectory => FtpInv'
<1>1. SUFFICES ASSUME FtpInv, Ftp!MakeDirectory
               PROVE  FtpInv'
  OBVIOUS
<1>2. /\ step2 = "mkdir" /\ Busy2 /\ IsDir(source2, item2.src)
      /\ ItemPlaced2 /\ TreeOK(tree2)
  BY <1>1 DEF Ftp!MakeDirectory, Busy2, FtpInv, FtpItem
<1>3. /\ Ftp!EnterDirectory /\ CanAdd(tree2, item2.dst)
      /\ tree2' = With(tree2, item2.dst, Dir(Ftp!Mark(item2.src)))
  BY <1>1, FtpTrees DEF Ftp!MakeDirectory
<1>4. IsSequence(item2.dst) /\ IsEntry(Dir(Ftp!Mark(item2.src))) /\ Dir(Ftp!Mark(item2.src)).kind = "dir"
  BY <1>2, EntriesAre DEF ItemPlaced2, Named
<1>5. TreeOK(tree2')
  BY <1>2, <1>3, <1>4, WithKeeps
<1>6. IsDir(tree2', item2.dst)
  <2>1. item2.dst \in DOMAIN tree2' /\ tree2'[item2.dst] = Dir(Ftp!Mark(item2.src))
    BY <1>3 DEF With
  <2> QED BY <1>4, <2>1 DEF IsDir, Exists
<1>7. others2 = 0 => Whole(source2, placed2, tree2')
  BY <1>1, <1>3, WholeIfAdded DEF FtpInv, Undisturbed2, CanAdd, Exists
<1> QED BY <1>1, <1>2, <1>3, <1>5, <1>6, <1>7, FtpEntersInv

LEMMA FtpEnterInv == FtpInv /\ (\E s \in DOMAIN source2 : Ftp!Enter(s)) => FtpInv'
<1>1. SUFFICES ASSUME FtpInv, NEW s \in DOMAIN source2, Ftp!Enter(s)
               PROVE  FtpInv'
  OBVIOUS
<1>2. /\ Walk2 /\ step2 = "next" /\ stack2 # <<>> /\ s \in Last(stack2).todo /\ SameCall2 /\ bytes2' = bytes2
      /\ UNCHANGED <<placed2, result2, tree2>> /\ step2' = "resolve"
      /\ item2' = [src |-> s, dst |-> Append(Last(stack2).path, Last(s)), n |-> 0, again |-> FALSE]
      /\ stack2' = Append(Front(stack2), [Last(stack2) EXCEPT !.todo = @ \ {s}])
  BY <1>1 DEF FtpInv, Ftp!Enter, Ftp!call, SameCall2, Ftp!Last, Last, Ftp!Front, Front
<1>3. Walk2' /\ ItemPlaced2'
  <2>1. /\ item2'.src = s /\ item2'.dst = Append(Last(stack2).path, Last(s))
        /\ step2' \notin {"next", "done"}
    BY <1>2
  <2> QED BY <1>2, <2>1, EntersChild2
<1>4. FtpItem'
  BY <1>2 DEF FtpItem, Ftp!Steps
<1>5. Undisturbed2' /\ (others2 = 0 => FtpRelies)' /\ TreeOK(tree2)'
  BY <1>1, <1>2 DEF FtpInv, Undisturbed2, SkippedIfTold2, FtpRelies, SameCall2
<1> QED BY <1>3, <1>4, <1>5 DEF FtpInv

LEMMA FtpLeaveInv == FtpInv /\ Ftp!Leave => FtpInv'
<1>1. SUFFICES ASSUME FtpInv, Ftp!Leave
               PROVE  FtpInv'
  OBVIOUS
<1>2. /\ Walk2 /\ step2 = "next" /\ SameCall2 /\ bytes2' = bytes2 /\ UNCHANGED <<placed2, item2, tree2>>
      /\ \/ /\ stack2 # <<>> /\ Last(stack2).todo = {} /\ stack2' = Front(stack2)
            /\ UNCHANGED <<step2, result2>>
         \/ stack2 = <<>> /\ step2' = "done" /\ result2' = "ok" /\ UNCHANGED stack2
  BY <1>1 DEF FtpInv, Ftp!Leave, Ftp!call, SameCall2, Ftp!Last, Last, Ftp!Front, Front
<1>3. Walk2'
  BY <1>2, Leaves2
<1>4. ItemPlaced2'
  <2>1. ItemPlaced2 /\ step2' \in {"next", "done"} /\ UNCHANGED <<source2, item2>>
    BY <1>1, <1>2 DEF FtpInv, SameCall2
  <2> QED BY <2>1, NextPlaced2
<1>5. step2' \in {"next", "done"}
  BY <1>2
<1>6. FtpItem'
  BY <1>1, <1>2, <1>5 DEF FtpInv, FtpItem, Ftp!Steps, SameCall2
<1>7. Undisturbed2' /\ (others2 = 0 => FtpRelies)' /\ TreeOK(tree2)'
  BY <1>1, <1>2, <1>5 DEF FtpInv, Undisturbed2, SkippedIfTold2, FtpRelies, SameCall2
<1> QED BY <1>3, <1>4, <1>6, <1>7 DEF FtpInv

LEMMA FtpClearInv == FtpInv /\ Ftp!ClearDirectory => FtpInv'
<1>1. SUFFICES ASSUME FtpInv, Ftp!ClearDirectory
               PROVE  FtpInv'
  OBVIOUS
<1>2. /\ step2 = "clear" /\ Busy2 /\ ~IsDir(source2, item2.src)
      /\ others2 = 0 /\ policy2 # "replace" => ~Exists(tree2, item2.dst)
  BY <1>1 DEF Ftp!ClearDirectory, Busy2, FtpInv, FtpItem, FtpRelies
<1>3. /\ step2' = IF policy2 = "replace" /\ IsDir(tree2, item2.dst) THEN "empty" ELSE "put"
      /\ FtpLooks /\ item2' = item2
  BY <1>1, FtpTrees DEF Ftp!ClearDirectory, Ftp!Look, Ftp!GoOn, Ftp!call, FtpLooks, SameCall2, FtpInv, FtpItem
<1>4. Busy2' /\ step2' \in Ftp!Steps
  BY <1>3 DEF Busy2, Ftp!Steps
<1>5. others2 = 0 /\ step2' = "put" =>
        ~IsDir(tree2, item2.dst) /\ (policy2 # "replace" => ~Exists(tree2, item2.dst))
  BY <1>2, <1>3 DEF IsDir
<1> QED BY <1>1, <1>2, <1>3, <1>4, <1>5, FtpLooksInv

LEMMA FtpEmptyInv == FtpInv /\ Ftp!EmptyDirectory => FtpInv'
<1>1. SUFFICES ASSUME FtpInv, Ftp!EmptyDirectory
               PROVE  FtpInv'
  OBVIOUS
<1>2. /\ step2 = "empty" /\ Busy2 /\ ~IsDir(source2, item2.src) /\ policy2 = "replace"
      /\ Walk2 /\ ItemPlaced2 /\ TreeOK(tree2) /\ FtpItem
  BY <1>1 DEF Ftp!EmptyDirectory, Busy2, FtpInv, FtpItem
<1>3. PICK p \in Below(tree2, item2.dst) :
        /\ tree2' = Without(tree2, p)
        /\ step2' = IF p = item2.dst THEN "put" ELSE "empty"
        /\ SameCall2 /\ bytes2' = bytes2
        /\ UNCHANGED <<stack2, result2, item2, placed2>>
  BY <1>1, FtpTrees DEF Ftp!EmptyDirectory, Ftp!GoOn, Ftp!call, SameCall2
<1>4. Busy2'
  BY <1>3 DEF Busy2
<1>5. Walk2'
  BY <1>2, <1>3, <1>4, StaysWalks2
<1>6. ItemPlaced2'
  BY <1>2, <1>3, StaysPlaced2
<1>7. TreeOK(tree2)'
  BY <1>2, <1>3, ClearedIsNotPlaced2
<1>8. FtpItem'
  BY <1>2, <1>3 DEF FtpItem, Ftp!Steps, SameCall2
<1>9. Undisturbed2'
  <2>1. SUFFICES ASSUME others2 = 0
                 PROVE  Whole(source2, placed2, tree2)' /\ SkippedIfTold2'
    BY <1>3 DEF Undisturbed2, SameCall2
  <2>2. Whole(source2, placed2, tree2')
    BY <1>1, <1>2, <1>3, <2>1, ClearedIsNotPlaced2 DEF FtpInv, Undisturbed2
  <2>3. SkippedIfTold2'
    BY <1>1, <1>3, <2>1 DEF FtpInv, Undisturbed2, SkippedIfTold2, SameCall2
  <2> QED BY <1>3, <2>2, <2>3 DEF SameCall2
<1>10. (others2 = 0 => FtpRelies)'
  <2>1. p = item2.dst => ~IsDir(tree2', item2.dst)
    BY <1>2, <1>3, ClearedIsNotPlaced2 DEF IsDir
  <2> QED BY <1>2, <1>3, <2>1 DEF FtpRelies, SameCall2
<1> QED BY <1>5, <1>6, <1>7, <1>8, <1>9, <1>10 DEF FtpInv

LEMMA FtpMarks == \A s \in DOMAIN source2 : FtpInv => Ftp!Mark(s) # Theirs
<1>1. SUFFICES ASSUME FtpInv, NEW s \in DOMAIN source2
               PROVE  Ftp!Mark(s) # Theirs
  OBVIOUS
<1>2. s \in Seq(ToSet(s))
  BY <1>1, TransfersAssumption DEF FtpInv, Walk2, Call2, IsSequence
<1> DEFINE x == <<"new">>
<1>3. x # <<"-">>
  OBVIOUS
<1> HIDE DEF x
<1>4. Last(Append(s, x)) = x
  BY <1>2, LastAdded
<1>5. Last(Theirs) = <<"-">>
  BY DEF Theirs, Last
<1>6. Ftp!Mark(s) = Append(s, x)
  BY DEF Ftp!Mark, x
<1> QED BY <1>3, <1>4, <1>5, <1>6, Zenon

\* What STOR writes to is not what has been placed.
LEMMA FtpStores ==
  ASSUME FtpInv, step2 = "put", NEW size \in Nat, Ftp!Store(size)
  PROVE  /\ tree2' = With(tree2, item2.dst, File(Ftp!Mark(item2.src), size))
         /\ SameCall2 /\ UNCHANGED <<item2, stack2>>
         /\ CanAdd(tree2, item2.dst) \/ IsFile(tree2, item2.dst)
         /\ TreeOK(tree2')
         /\ item2.dst \in DOMAIN tree2' /\ tree2'[item2.dst] = File(Ftp!Mark(item2.src), size)
         /\ others2 = 0 => Whole(source2, placed2, tree2')
<1>1. /\ tree2' = With(tree2, item2.dst, File(Ftp!Mark(item2.src), size))
      /\ SameCall2 /\ UNCHANGED <<item2, stack2>>
      /\ CanAdd(tree2, item2.dst) \/ IsFile(tree2, item2.dst)
  BY FtpTrees DEF Ftp!Store, Ftp!call, SameCall2
<1>2. IsSequence(item2.dst) /\ IsEntry(File(Ftp!Mark(item2.src), size)) /\ TreeOK(tree2)
  BY EntriesAre DEF FtpInv, ItemPlaced2, Named
<1>3. TreeOK(tree2')
  BY <1>1, <1>2, WithKeeps
<1>4. item2.dst \in DOMAIN tree2' /\ tree2'[item2.dst] = File(Ftp!Mark(item2.src), size)
  BY <1>1 DEF With
<1>5. ASSUME others2 = 0
      PROVE  Whole(source2, placed2, tree2')
  <2>1. Whole(source2, placed2, tree2) /\ Walk2 /\ ItemPlaced2 /\ Busy2
    BY <1>5 DEF FtpInv, Undisturbed2, Busy2
  <2>2. CASE policy2 = "replace"
    BY <1>1, <2>1, <2>2, ReplacedIsNotPlaced2, WholeIfElsewhere
  <2>3. CASE policy2 # "replace"
    <3>1. item2.dst \notin DOMAIN tree2
      BY <1>5, <2>3 DEF FtpInv, FtpRelies, Exists
    <3> QED BY <1>1, <2>1, <3>1, WholeIfAdded
  <2> QED BY <2>2, <2>3
<1> QED BY <1>1, <1>3, <1>4, <1>5

LEMMA FtpPutInv == FtpInv /\ Ftp!Put => FtpInv'
<1>1. SUFFICES ASSUME FtpInv, Ftp!Put
               PROVE  FtpInv'
  OBVIOUS
<1>2. /\ step2 = "put" /\ Busy2 /\ ~IsDir(source2, item2.src)
      /\ Walk2 /\ ItemPlaced2 /\ FtpItem
      /\ item2.src \in DOMAIN source2 /\ source2 \in Sources /\ bytes2 \in Nat
  BY <1>1 DEF Ftp!Put, Busy2, FtpInv, FtpItem, ItemPlaced2, Walk2, Call2
<1>3. source2[item2.src].size \in Nat /\ source2[item2.src].kind = "file"
  BY <1>2, SizeIsNat
<1>4. /\ tree2' = With(tree2, item2.dst, File(Ftp!Mark(item2.src), source2[item2.src].size))
      /\ SameCall2 /\ UNCHANGED <<item2, stack2>> /\ TreeOK(tree2')
      /\ item2.dst \in DOMAIN tree2'
      /\ tree2'[item2.dst] = File(Ftp!Mark(item2.src), source2[item2.src].size)
      /\ others2 = 0 => Whole(source2, placed2, tree2')
  <2>1. Ftp!Store(source2[item2.src].size)
    BY <1>1 DEF Ftp!Put
  <2> QED BY <1>1, <1>2, <1>3, <2>1, FtpStores
<1>5. /\ placed2' = With(placed2, item2.src, item2.dst) /\ step2' = "next" /\ UNCHANGED result2
      /\ bytes2' \in Nat
  BY <1>1, <1>2, <1>3, FtpTrees DEF Ftp!Put, Ftp!BytesAfter
<1>6. Walk2' /\ item2.src \notin DOMAIN placed2
  BY <1>2, <1>4, <1>5, PlacesFile2
<1>7. ItemPlaced2'
  <2>1. step2' \in {"next", "done"} /\ UNCHANGED <<source2, item2>>
    BY <1>4, <1>5 DEF SameCall2
  <2> QED BY <1>2, <2>1, NextPlaced2
<1>8. FtpItem'
  BY <1>2, <1>4, <1>5 DEF FtpItem, Ftp!Steps, SameCall2
<1>9. (others2 = 0 => FtpRelies)'
  BY <1>5 DEF FtpRelies
<1>10. Undisturbed2'
  <2>1. SUFFICES ASSUME others2 = 0
                 PROVE  Whole(source2, placed2, tree2)' /\ SkippedIfTold2'
    BY <1>4 DEF Undisturbed2, SameCall2
  <2>2. /\ tree2'[item2.dst].kind = source2[item2.src].kind
        /\ tree2'[item2.dst].size = source2[item2.src].size
    BY <1>3, <1>4, EntriesAre
  <2>3. Whole(source2, placed2', tree2')
    BY <1>4, <1>5, <2>1, <2>2, WholeIfPlaced
  <2>4. item2.dst # Theirs
    BY <1>2 DEF ItemPlaced2, Named
  <2>5. SkippedIfTold2'
    BY <1>1, <1>4, <1>5, <2>1, <2>4 DEF FtpInv, Undisturbed2, SkippedIfTold2, With, SameCall2
  <2> QED BY <1>4, <2>3, <2>5 DEF SameCall2
<1> QED BY <1>4, <1>6, <1>7, <1>8, <1>9, <1>10 DEF FtpInv

LEMMA FtpBreaksInv == FtpInv /\ Ftp!PutBreaks => FtpInv'
<1>1. SUFFICES ASSUME FtpInv, Ftp!PutBreaks
               PROVE  FtpInv'
  OBVIOUS
<1>2. /\ step2 = "put" /\ Busy2 /\ ~IsDir(source2, item2.src)
      /\ Walk2 /\ ItemPlaced2 /\ FtpItem
  BY <1>1 DEF Ftp!PutBreaks, Busy2, FtpInv, FtpItem
<1>3. /\ SameCall2 /\ UNCHANGED <<item2, stack2>> /\ TreeOK(tree2')
      /\ others2 = 0 => Whole(source2, placed2, tree2')
  <2>1. Ftp!Store(0)
    BY <1>1 DEF Ftp!PutBreaks
  <2> QED BY <1>1, <1>2, <2>1, FtpStores
<1>4. step2' = "broken" /\ UNCHANGED <<placed2, bytes2, result2>> /\ Busy2'
  BY <1>1 DEF Ftp!PutBreaks, Busy2
<1>5. Walk2'
  BY <1>2, <1>3, <1>4, StaysWalks2
<1>6. ItemPlaced2'
  BY <1>2, <1>3, <1>4, StaysPlaced2
<1>7. FtpItem'
  BY <1>2, <1>3, <1>4 DEF FtpItem, Ftp!Steps, SameCall2
<1>8. (others2 = 0 => FtpRelies)'
  BY <1>4 DEF FtpRelies
<1>9. Undisturbed2'
  BY <1>1, <1>3, <1>4 DEF FtpInv, Undisturbed2, SkippedIfTold2, SameCall2
<1> QED BY <1>3, <1>5, <1>6, <1>7, <1>8, <1>9 DEF FtpInv

LEMMA OthersKeepTree ==
  ASSUME NEW tree, TreeOK(tree), NEW p, IsSequence(p), p # Root, NEW entry, IsEntry(entry)
  PROVE  /\ CanAdd(tree, p) => TreeOK(With(tree, p, entry))
         /\ TreeOK(Without(tree, p))
BY WithKeeps, WithoutKeeps

LEMMA FtpOthersInv == FtpInv /\ Ftp!Other => FtpInv'
<1>1. SUFFICES ASSUME FtpInv, Ftp!Other
               PROVE  FtpInv'
  OBVIOUS
<1>2. /\ others2' = others2 + 1 /\ others2 \in Nat /\ Walk2 /\ ItemPlaced2 /\ TreeOK(tree2)
      /\ UNCHANGED <<source2, policy2, step2, item2, stack2, placed2, bytes2, result2>>
  BY <1>1 DEF FtpInv, Ftp!Other, Ftp!call, Walk2, Call2
<1>3. Walk2' /\ ItemPlaced2'
  BY <1>2, OthersWalk2
<1>4. FtpItem'
  BY <1>1, <1>2 DEF FtpInv, FtpItem
<1>5. others2' # 0
  BY <1>2
<1>6. TreeOK(tree2)'
  <2>1. PICK p \in Contested : Ftp!OtherWrites(p) \/ Ftp!OtherRemoves(p)
    BY <1>1 DEF Ftp!Other
  <2>2. IsSequence(p) /\ p # Root
    BY TransfersAssumption
  <2>3. CASE Ftp!OtherWrites(p)
    <3>1. CanAdd(tree2, p) /\ \E entry \in {File(Theirs, 0), Dir(Theirs)} : tree2' = With(tree2, p, entry)
      BY <2>3, FtpTrees DEF Ftp!OtherWrites
    <3>2. IsEntry(File(Theirs, 0)) /\ IsEntry(Dir(Theirs))
      BY EntriesAre
    <3> QED BY <1>2, <2>2, <3>1, <3>2, OthersKeepTree
  <2>4. CASE Ftp!OtherRemoves(p)
    <3>1. tree2' = Without(tree2, p)
      BY <2>4, FtpTrees DEF Ftp!OtherRemoves
    <3> QED BY <1>2, <2>2, <3>1, WithoutKeeps
  <2> QED BY <2>1, <2>3, <2>4
<1> QED BY <1>3, <1>4, <1>5, <1>6 DEF FtpInv, Undisturbed2

LEMMA FtpUsInv == FtpInv /\ Ftp!Us => FtpInv'
BY FtpFailsInv, FtpResolveInv, FtpNumberInv, FtpCheckInv, FtpDeleteInv, FtpMakeInv, FtpEnterInv,
   FtpLeaveInv, FtpClearInv, FtpEmptyInv, FtpPutInv, FtpBreaksInv DEF Ftp!Us

LEMMA FtpInitInv == Ftp!Init => FtpInv
<1>1. SUFFICES ASSUME Ftp!Init
               PROVE  FtpInv
  OBVIOUS
<1>2. /\ policy2 \in Policies /\ source2 \in Sources /\ tree2 \in Remotes /\ others2 = 0
      /\ step2 = "resolve" /\ item2 = [src |-> Root, dst |-> Given, n |-> 0, again |-> TRUE]
      /\ stack2 = <<>> /\ placed2 = <<>> /\ bytes2 = 0 /\ result2 = "none"
  BY <1>1, FtpTrees DEF Ftp!Init
<1>3. Call2 /\ Now2 = {Root}
  BY <1>2 DEF Call2, Now2, Busy2
<1>4. Walking2
  BY <1>2, <1>3, WalkStarts DEF Walking2
<1>5. PlacedTogether2 /\ PlacedInPlace2
  BY <1>2 DEF PlacedTogether2, PlacedInPlace2
<1>6. ItemPlaced2
  <2>1. Root \in DOMAIN source2
    BY <1>2, SourcePaths
  <2>2. Named(Given)
    BY GivensAreNamed
  <2>3. Given \o Root = Given
    BY TransfersAssumption, EmptyPlace DEF IsSequence
  <2> QED BY <1>2, <2>1, <2>2, <2>3 DEF ItemPlaced2
<1>7. TreeOK(tree2)
  BY <1>2, InitialTreesOK
<1>8. FtpItem /\ Undisturbed2 /\ FtpRelies
  BY <1>2 DEF FtpItem, Ftp!Steps, Undisturbed2, Whole, SkippedIfTold2, FtpRelies
<1> QED BY <1>3, <1>4, <1>5, <1>6, <1>7, <1>8 DEF FtpInv, Walk2

-----------------------------------------------------------------------------
(***************************************************************************)
(* Nobody disturbs it: every step of the upload is one that Destination    *)
(* allows.                                                                 *)
(***************************************************************************)

LEMMA FtpPromisedTrees ==
  /\ \A tree, p : /\ Ftp!Promised!Exists(tree, p) = Exists(tree, p)
                  /\ Ftp!Promised!IsDir(tree, p) = IsDir(tree, p)
                  /\ Ftp!Promised!IsFile(tree, p) = IsFile(tree, p)
                  /\ Ftp!Promised!CanAdd(tree, p) = CanAdd(tree, p)
                  /\ Ftp!Promised!Without(tree, p) = Without(tree, p)
  /\ \A tree, p, entry : Ftp!Promised!With(tree, p, entry) = With(tree, p, entry)
  /\ Ftp!Promised!Theirs = Theirs
<1>1. Ftp!Promised!Theirs = Theirs /\ Ftp!Promised!Root = Root
  BY DEF Ftp!Promised!Theirs, Theirs, Ftp!Promised!Root, Root
<1>2. \A p : Ftp!Promised!Parent(p) = Parent(p)
  BY DEF Ftp!Promised!Parent, Ftp!Promised!Front, Parent, Front
<1>3. \A tree, p : /\ Ftp!Promised!Exists(tree, p) = Exists(tree, p)
                   /\ Ftp!Promised!IsDir(tree, p) = IsDir(tree, p)
                   /\ Ftp!Promised!IsFile(tree, p) = IsFile(tree, p)
  BY DEF Ftp!Promised!Exists, Exists, Ftp!Promised!IsDir, IsDir, Ftp!Promised!IsFile, IsFile
<1>4. \A tree, p : Ftp!Promised!CanAdd(tree, p) = CanAdd(tree, p)
  BY <1>1, <1>2, <1>3 DEF Ftp!Promised!CanAdd, CanAdd
<1>5. \A tree, p : Ftp!Promised!Below(tree, p) = Below(tree, p)
  BY DEF Ftp!Promised!Below, Below, Ftp!Promised!IsPrefix, IsPrefix
<1>6. \A tree, p : Ftp!Promised!Without(tree, p) = Without(tree, p)
  BY <1>5 DEF Ftp!Promised!Without, Without
<1>7. \A tree, p, entry : Ftp!Promised!With(tree, p, entry) = With(tree, p, entry)
  BY DEF Ftp!Promised!With, With
<1> QED BY <1>1, <1>3, <1>4, <1>6, <1>7

\* The three ways to write to a destination.
MayTake2(p) ==
  /\ policy2 = "replace"
  /\ \E s \in DOMAIN source2 : p = Given \o s /\ ~(IsDir(source2, s) /\ IsDir(tree2, p))
Adds2(p) == CanAdd(tree2, p) /\ tree2' = With(tree2, p, tree2'[p])
Rewrites2(p) == IsFile(tree2, p) /\ MayTake2(p) /\ tree2' = With(tree2, p, tree2'[p])
MayClear2(p) == \E s \in DOMAIN source2 : MayTake2(Given \o s) /\ IsPrefix(Given \o s, p)
Takes2(p) == MayClear2(p) /\ tree2' = Without(tree2, p)
Writes2 ==
  \/ UNCHANGED tree2
  \/ \E p \in DOMAIN tree2' : (Adds2(p) \/ Rewrites2(p)) /\ tree2'[p].of # Theirs
  \/ \E p \in DOMAIN tree2 : Takes2(p)

\* What is taken away is at the item or below it.
LEMMA ClearsItem2 ==
  ASSUME Walk2, ItemPlaced2, Busy2, policy2 = "replace", TreeOK(tree2),
         ~(IsDir(source2, item2.src) /\ IsDir(tree2, item2.dst)),
         NEW p \in Below(tree2, item2.dst), tree2' = Without(tree2, p)
  PROVE  p \in DOMAIN tree2 /\ Takes2(p)
<1>1. item2.dst = Given \o item2.src /\ item2.src \in DOMAIN source2
  BY ReplacedIsNotPlaced2 DEF ItemPlaced2
<1>2. p \in DOMAIN tree2 /\ IsPrefix(item2.dst, p)
  BY DEF Below
<1>3. MayTake2(Given \o item2.src)
  BY <1>1 DEF MayTake2
<1> QED BY <1>1, <1>2, <1>3 DEF Takes2, MayClear2

LEMMA FtpWriteIsPromised ==
  ASSUME SameCall2, Writes2, result2 = "none", result2' = "none",
         DOMAIN placed2 \subseteq DOMAIN placed2', DOMAIN placed2' \subseteq DOMAIN source2
  PROVE  Ftp!Promised!Next
<1>1. \A p : /\ Adds2(p) => Ftp!Promised!Add(p)
             /\ Rewrites2(p) => Ftp!Promised!Rewrite(p)
             /\ Takes2(p) => Ftp!Promised!Take(p)
  <2>1. \A p : MayTake2(p) => Ftp!Promised!MayTake(p)
    BY FtpPromisedTrees DEF MayTake2, Ftp!Promised!MayTake
  <2>2. \A p : MayClear2(p) => Ftp!Promised!MayClear(p)
    BY <2>1 DEF MayClear2, Ftp!Promised!MayClear, IsPrefix, Ftp!Promised!IsPrefix
  <2> QED BY <2>1, <2>2, FtpPromisedTrees DEF Adds2, Rewrites2, Takes2, Ftp!Promised!Add, Ftp!Promised!Rewrite,
             Ftp!Promised!Take
<1>2. \/ UNCHANGED tree2
      \/ \E p \in DOMAIN tree2' : (Ftp!Promised!Add(p) \/ Ftp!Promised!Rewrite(p)) /\ tree2'[p].of # Theirs
      \/ \E p \in DOMAIN tree2 : Ftp!Promised!Take(p)
  BY <1>1 DEF Writes2
<1>3. Ftp!Promised!Write
  BY <1>2, FtpPromisedTrees DEF Ftp!Promised!Write, SameCall2
<1> QED BY <1>3 DEF Ftp!Promised!Next

LEMMA FtpPlacedGrows ==
  ASSUME FtpInv, Ftp!Us
  PROVE  DOMAIN placed2 \subseteq DOMAIN placed2'
<1>1. CASE UNCHANGED placed2
  BY <1>1
<1>2. CASE placed2' = With(placed2, item2.src, item2.dst)
  BY <1>2 DEF With
<1>3. CASE Ftp!Skip
  BY <1>3, FtpTrees DEF Ftp!Skip
<1>4. Ftp!EnterDirectory => placed2' = With(placed2, item2.src, item2.dst)
  BY FtpTrees DEF Ftp!EnterDirectory
<1>5. CASE Ftp!Resolve
  <2>1. Ftp!Skip \/ UNCHANGED placed2
    BY <1>5, FtpResolveKinds DEF Ftp!Destined, Ftp!Look
  <2> QED BY <1>1, <1>3, <2>1
<1>6. CASE Ftp!NumberRemote
  <2>1. UNCHANGED placed2
    BY <1>6 DEF Ftp!NumberRemote, Ftp!Destined, Ftp!Look
  <2> QED BY <1>1, <2>1
<1>7. CASE Ftp!CheckDirectory
  <2>1. Ftp!IsDir(tree2, item2.dst) => Ftp!Exists(tree2, item2.dst)
    BY DEF Ftp!IsDir
  <2>2. Ftp!Skip \/ Ftp!EnterDirectory \/ UNCHANGED placed2
    BY <1>7, <2>1 DEF Ftp!CheckDirectory, Ftp!Look
  <2> QED BY <1>1, <1>2, <1>3, <1>4, <2>2
<1>8. CASE Ftp!DeleteForDirectory \/ Ftp!ClearDirectory \/ Ftp!EmptyDirectory \/ Ftp!PutBreaks
           \/ Ftp!CallFails \/ Ftp!Leave \/ \E s \in DOMAIN source2 : Ftp!Enter(s)
  <2>1. UNCHANGED placed2
    BY <1>8 DEF Ftp!DeleteForDirectory, Ftp!ClearDirectory, Ftp!EmptyDirectory, Ftp!PutBreaks, Ftp!CallFails,
                Ftp!Leave, Ftp!Enter, Ftp!Look
  <2> QED BY <1>1, <2>1
<1>9. CASE Ftp!MakeDirectory
  BY <1>2, <1>4, <1>9 DEF Ftp!MakeDirectory
<1>10. CASE Ftp!Put
  <2>1. placed2' = With(placed2, item2.src, item2.dst)
    BY <1>10, FtpTrees DEF Ftp!Put
  <2> QED BY <1>2, <2>1
<1> QED BY <1>5, <1>6, <1>7, <1>8, <1>9, <1>10 DEF Ftp!Us

\* What a step does at the destination.
LEMMA FtpWrites ==
  ASSUME FtpInv, Ftp!Us, others2 = 0
  PROVE  Writes2
<1>1. item2.src \in DOMAIN source2 /\ Ftp!Mark(item2.src) # Theirs
  BY FtpMarks DEF FtpInv, ItemPlaced2
<1>2. CASE UNCHANGED tree2
  BY <1>2 DEF Writes2
<1>3. \A p : Ftp!Destined(p) => UNCHANGED tree2
  BY DEF Ftp!Destined, Ftp!Look
<1>4. \A next : Ftp!Look(next) => UNCHANGED tree2
  BY DEF Ftp!Look
<1>5. Ftp!Skip => UNCHANGED tree2
  BY DEF Ftp!Skip
<1>6. CASE Ftp!Resolve
  <2>1. UNCHANGED tree2
    BY <1>3, <1>4, <1>5, <1>6, FtpResolveKinds
  <2> QED BY <1>2, <2>1
<1>7. CASE Ftp!NumberRemote
  <2>1. UNCHANGED tree2
    BY <1>3, <1>4, <1>7 DEF Ftp!NumberRemote
  <2> QED BY <1>2, <2>1
<1>8. CASE Ftp!CheckDirectory
  <2>1. Ftp!IsDir(tree2, item2.dst) => Ftp!Exists(tree2, item2.dst)
    BY DEF Ftp!IsDir
  <2>2. UNCHANGED tree2
    BY <1>4, <1>5, <1>8, <2>1 DEF Ftp!CheckDirectory
  <2> QED BY <1>2, <2>2
<1>9. CASE Ftp!CallFails \/ Ftp!Leave \/ Ftp!ClearDirectory \/ \E s \in DOMAIN source2 : Ftp!Enter(s)
  <2>1. UNCHANGED tree2
    BY <1>4, <1>9 DEF Ftp!CallFails, Ftp!Leave, Ftp!ClearDirectory, Ftp!Enter
  <2> QED BY <1>2, <2>1
<1>10. CASE Ftp!DeleteForDirectory
  <2>1. /\ step2 = "delete" /\ Busy2 /\ policy2 = "replace" /\ Walk2 /\ ItemPlaced2
        /\ ~IsDir(tree2, item2.dst) /\ TreeOK(tree2) /\ Named(item2.dst)
    BY <1>10 DEF Ftp!DeleteForDirectory, Busy2, FtpInv, FtpItem, FtpRelies, ItemPlaced2
  <2>2. /\ tree2' = Without(tree2, item2.dst) /\ item2.dst \in DOMAIN tree2
    BY <1>10, FtpTrees DEF Ftp!DeleteForDirectory, Ftp!IsEmptyDir, IsFile, IsDir, Exists
  <2>3. item2.dst \in Below(tree2, item2.dst)
    BY <2>1, <2>2, PrefixRefl DEF Below, Named, IsSequence
  <2>4. Takes2(item2.dst)
    BY <2>1, <2>2, <2>3, ClearsItem2
  <2> QED BY <2>2, <2>4 DEF Writes2
<1>11. CASE Ftp!EmptyDirectory
  <2>1. /\ step2 = "empty" /\ Busy2 /\ ~IsDir(source2, item2.src) /\ policy2 = "replace"
        /\ Walk2 /\ ItemPlaced2 /\ TreeOK(tree2)
    BY <1>11 DEF Ftp!EmptyDirectory, Busy2, FtpInv, FtpItem
  <2>2. PICK p \in Below(tree2, item2.dst) : tree2' = Without(tree2, p)
    BY <1>11, FtpTrees DEF Ftp!EmptyDirectory
  <2>3. p \in DOMAIN tree2 /\ Takes2(p)
    BY <2>1, <2>2, ClearsItem2
  <2> QED BY <2>3 DEF Writes2
<1>12. CASE Ftp!MakeDirectory
  <2>1. CanAdd(tree2, item2.dst) /\ tree2' = With(tree2, item2.dst, Dir(Ftp!Mark(item2.src)))
    BY <1>12, FtpTrees DEF Ftp!MakeDirectory
  <2>2. item2.dst \in DOMAIN tree2' /\ tree2'[item2.dst] = Dir(Ftp!Mark(item2.src))
    BY <2>1 DEF With
  <2>3. tree2'[item2.dst].of # Theirs
    BY <1>1, <2>2, EntriesAre
  <2> QED BY <2>1, <2>2, <2>3 DEF Writes2, Adds2
<1>13. ASSUME NEW size \in Nat, step2 = "put", Ftp!Store(size)
       PROVE  Writes2
  <2>1. /\ tree2' = With(tree2, item2.dst, File(Ftp!Mark(item2.src), size))
        /\ CanAdd(tree2, item2.dst) \/ IsFile(tree2, item2.dst)
        /\ item2.dst \in DOMAIN tree2' /\ tree2'[item2.dst] = File(Ftp!Mark(item2.src), size)
    BY <1>13, FtpStores
  <2>2. tree2'[item2.dst].of # Theirs
    BY <1>1, <2>1, EntriesAre
  <2>3. CASE CanAdd(tree2, item2.dst)
    BY <2>1, <2>2, <2>3 DEF Writes2, Adds2
  <2>4. CASE IsFile(tree2, item2.dst)
    <3>1. policy2 = "replace"
      BY <1>13, <2>4 DEF FtpInv, FtpRelies, IsFile
    <3>2. Walk2 /\ ItemPlaced2 /\ Busy2 /\ ~IsDir(source2, item2.src)
      BY <1>13 DEF FtpInv, FtpItem, Busy2
    <3>3. item2.dst = Given \o item2.src
      BY <3>1, <3>2, ReplacedIsNotPlaced2
    <3>4. MayTake2(item2.dst)
      BY <1>1, <3>1, <3>2, <3>3 DEF MayTake2
    <3> QED BY <2>1, <2>2, <2>4, <3>4 DEF Writes2, Rewrites2
  <2> QED BY <2>1, <2>3, <2>4
<1>14. CASE Ftp!Put \/ Ftp!PutBreaks
  <2>1. source2[item2.src].size \in Nat
    BY <1>1, SizeIsNat DEF FtpInv, Walk2, Call2
  <2> QED BY <1>13, <1>14, <2>1 DEF Ftp!Put, Ftp!PutBreaks
<1> QED BY <1>6, <1>7, <1>8, <1>9, <1>10, <1>11, <1>12, <1>14 DEF Ftp!Us

LEMMA FtpSameCall ==
  ASSUME FtpInv, Ftp!Us
  PROVE  SameCall2 /\ step2 # "done"
<1>1. Ftp!CallFails => SameCall2 /\ step2 # "done"
  BY DEF Ftp!CallFails, Ftp!call, SameCall2
<1>2. \A next : /\ Ftp!GoOn(next) => SameCall2
                /\ Ftp!Look(next) => SameCall2
  BY DEF Ftp!Look, Ftp!GoOn, Ftp!call, SameCall2
<1>3. \A p : Ftp!Destined(p) => SameCall2
  BY <1>2 DEF Ftp!Destined
<1>4. Ftp!Skip => SameCall2
  BY <1>2 DEF Ftp!Skip
<1>5. Ftp!Resolve => SameCall2 /\ step2 # "done"
  BY <1>2, <1>3, <1>4, FtpResolveKinds
<1>6. Ftp!NumberRemote => SameCall2 /\ step2 # "done"
  BY <1>2, <1>3 DEF Ftp!NumberRemote
<1>7. Ftp!EnterDirectory => SameCall2
  BY DEF Ftp!EnterDirectory, Ftp!call, SameCall2
<1>8. Ftp!CheckDirectory => SameCall2 /\ step2 # "done"
  <2>1. Ftp!IsDir(tree2, item2.dst) => Ftp!Exists(tree2, item2.dst)
    BY DEF Ftp!IsDir
  <2>2. ASSUME Ftp!CheckDirectory
        PROVE  SameCall2
    BY <1>2, <1>4, <1>7, <2>1, <2>2 DEF Ftp!CheckDirectory
  <2> QED BY <2>2 DEF Ftp!CheckDirectory
<1>9. Ftp!DeleteForDirectory \/ Ftp!ClearDirectory \/ Ftp!EmptyDirectory => SameCall2 /\ step2 # "done"
  BY <1>2 DEF Ftp!DeleteForDirectory, Ftp!ClearDirectory, Ftp!EmptyDirectory
<1>10. Ftp!MakeDirectory => SameCall2 /\ step2 # "done"
  BY <1>7 DEF Ftp!MakeDirectory
<1>11. (\E s \in DOMAIN source2 : Ftp!Enter(s)) \/ Ftp!Leave => SameCall2 /\ step2 # "done"
  BY DEF Ftp!Enter, Ftp!Leave, Ftp!call, SameCall2
<1>12. Ftp!Put \/ Ftp!PutBreaks => SameCall2 /\ step2 # "done"
  BY DEF Ftp!Put, Ftp!PutBreaks, Ftp!Store, Ftp!call, SameCall2
<1> QED BY <1>1, <1>5, <1>6, <1>8, <1>9, <1>10, <1>11, <1>12 DEF Ftp!Us

LEMMA FtpAnswers ==
  ASSUME FtpInv, Ftp!Us
  PROVE  \/ result2' = result2
         \/ /\ UNCHANGED <<tree2, placed2>>
            /\ \/ result2' = "error"
               \/ result2' = "ok" /\ step2 = "next" /\ stack2 = <<>>
<1>1. Ftp!CallFails => UNCHANGED <<tree2, placed2>> /\ result2' = "error"
  BY DEF Ftp!CallFails
<1>2. Ftp!Leave => \/ result2' = result2
                   \/ /\ UNCHANGED <<tree2, placed2>> /\ result2' = "ok"
                      /\ step2 = "next" /\ stack2 = <<>>
  BY DEF Ftp!Leave
<1>3. \A next : /\ Ftp!GoOn(next) => result2' = result2
                /\ Ftp!Look(next) => result2' = result2
  BY DEF Ftp!Look, Ftp!GoOn
<1>4. \A p : Ftp!Destined(p) => result2' = result2
  BY <1>3 DEF Ftp!Destined
<1>5. Ftp!Skip => result2' = result2
  BY <1>3 DEF Ftp!Skip
<1>6. Ftp!Resolve => result2' = result2
  BY <1>3, <1>4, <1>5, FtpResolveKinds
<1>7. Ftp!NumberRemote => result2' = result2
  BY <1>3, <1>4 DEF Ftp!NumberRemote
<1>8. Ftp!EnterDirectory => result2' = result2
  BY DEF Ftp!EnterDirectory
<1>9. Ftp!CheckDirectory => result2' = result2
  <2>1. Ftp!IsDir(tree2, item2.dst) => Ftp!Exists(tree2, item2.dst)
    BY DEF Ftp!IsDir
  <2> QED BY <1>3, <1>5, <1>8, <2>1 DEF Ftp!CheckDirectory
<1>10. Ftp!DeleteForDirectory \/ Ftp!ClearDirectory \/ Ftp!EmptyDirectory => result2' = result2
  BY <1>3 DEF Ftp!DeleteForDirectory, Ftp!ClearDirectory, Ftp!EmptyDirectory
<1>11. Ftp!MakeDirectory => result2' = result2
  BY <1>8 DEF Ftp!MakeDirectory
<1>12. (\E s \in DOMAIN source2 : Ftp!Enter(s)) \/ Ftp!Put \/ Ftp!PutBreaks => result2' = result2
  BY DEF Ftp!Enter, Ftp!Put, Ftp!PutBreaks
<1> QED BY <1>1, <1>2, <1>6, <1>7, <1>9, <1>10, <1>11, <1>12 DEF Ftp!Us

LEMMA FtpStepIsPromised == FtpInv /\ FtpInv' /\ (Ftp!Us \/ Ftp!Other) => Ftp!StepPromised
<1>1. SUFFICES ASSUME FtpInv, FtpInv', Ftp!Us \/ Ftp!Other, others2' = 0
               PROVE  [Ftp!Promised!Next]_(Ftp!Promised!vars)
  BY DEF Ftp!StepPromised
<1>2. Ftp!Us
  BY <1>1 DEF Ftp!Other, FtpInv, Walk2, Call2
<1>3. SameCall2 /\ step2 # "done" /\ result2 = "none" /\ others2 = 0
  BY <1>1, <1>2, FtpSameCall DEF SameCall2, FtpInv, Walk2, Call2
<1>4. CASE result2' = "none"
  <2>1. DOMAIN placed2 \subseteq DOMAIN placed2'
    BY <1>1, <1>2, FtpPlacedGrows
  <2>2. DOMAIN placed2' \subseteq DOMAIN source2
    BY <1>1, <1>3 DEF FtpInv, Walk2, PlacedTogether2, SameCall2
  <2>3. Writes2
    BY <1>1, <1>2, <1>3, FtpWrites
  <2> QED BY <1>3, <1>4, <2>1, <2>2, <2>3, FtpWriteIsPromised
<1>5. CASE result2' # "none"
  <2>1. /\ UNCHANGED <<tree2, placed2>>
        /\ \/ result2' = "error"
           \/ result2' = "ok" /\ step2 = "next" /\ stack2 = <<>>
    BY <1>1, <1>2, <1>3, <1>5, FtpAnswers
  <2>2. result2' = "ok" => DOMAIN placed2 = DOMAIN source2
    BY <1>1, <1>5, <2>1, EndsWithAll2 DEF FtpInv
  <2>3. Ftp!Promised!Finish
    BY <1>3, <2>1, <2>2 DEF Ftp!Promised!Finish, SameCall2
  <2> QED BY <2>3 DEF Ftp!Promised!Next
<1> QED BY <1>4, <1>5

-----------------------------------------------------------------------------

LEMMA FtpInvShows ==
  ASSUME FtpInv
  PROVE  Ftp!TypeOK /\ Ftp!DeliveredIfUndisturbed /\ Ftp!ArrivesTogether
<1>1. Walk2 /\ ItemPlaced2 /\ TreeOK(tree2) /\ FtpItem /\ Undisturbed2
  BY DEF FtpInv
<1>2. Ftp!TypeOK
  <2>1. IsTree(tree2) /\ Ftp!IsTree(tree2) = IsTree(tree2)
    BY <1>1, FtpTrees DEF TreeOK
  <2> QED BY <1>1, <2>1 DEF Ftp!TypeOK, Walk2, Call2, ItemPlaced2, FtpItem, PlacedTogether2
<1>3. Ftp!DeliveredIfUndisturbed
  <2>1. SUFFICES ASSUME result2 = "ok", others2 = 0
                 PROVE  /\ DOMAIN placed2 = DOMAIN source2
                        /\ \A s \in DOMAIN source2 :
                             IF placed2[s] = Theirs
                               THEN policy2 = "keep_existing"
                               ELSE /\ Exists(tree2, placed2[s])
                                    /\ tree2[placed2[s]].kind = source2[s].kind
                                    /\ tree2[placed2[s]].size = source2[s].size
    BY FtpTrees DEF Ftp!DeliveredIfUndisturbed
  <2>2. DOMAIN placed2 = DOMAIN source2
    BY <1>1, <2>1, EndsWithAll2
  <2> QED BY <1>1, <2>1, <2>2 DEF Undisturbed2, Whole, SkippedIfTold2, Exists
<1>4. Ftp!ArrivesTogether
  <2>1. \A s \in DOMAIN placed2 \ {Root} :
          placed2[s] = Theirs \/ (placed2[Parent(s)] # Theirs /\ Parent(placed2[s]) = placed2[Parent(s)])
    BY <1>1 DEF Walk2, PlacedTogether2
  <2>2. Ftp!Skipped = Theirs /\ Ftp!Root = Root /\ \A p : Ftp!Parent(p) = Parent(p)
    BY FtpTrees
  <2> QED BY <2>1, <2>2 DEF Ftp!ArrivesTogether
<1> QED BY <1>2, <1>3, <1>4

-----------------------------------------------------------------------------
(***************************************************************************)
(* The download, step by step.                                             *)
(***************************************************************************)

\* Download, too, speaks of the same trees.
LEMMA DownTrees ==
  /\ Down!Theirs = Theirs /\ Down!Skipped = Theirs /\ Down!Root = Root
  /\ \A tree, p : /\ Down!Exists(tree, p) = Exists(tree, p)
                  /\ Down!IsDir(tree, p) = IsDir(tree, p)
                  /\ Down!IsFile(tree, p) = IsFile(tree, p)
                  /\ Down!CanAdd(tree, p) = CanAdd(tree, p)
                  /\ Down!Below(tree, p) = Below(tree, p)
                  /\ Down!Children(tree, p) = Children(tree, p)
                  /\ Down!Without(tree, p) = Without(tree, p)
  /\ \A tree, p, entry : Down!With(tree, p, entry) = With(tree, p, entry)
  /\ \A of, size : Down!File(of, size) = File(of, size) /\ Down!Dir(of) = Dir(of)
  /\ \A p, n : Down!Numbered(p, n) = Numbered(p, n)
  /\ \A p : Down!Parent(p) = Parent(p)
  /\ \A tree : Down!IsTree(tree) = IsTree(tree)
<1>1. Down!Theirs = Theirs /\ Down!Skipped = Theirs /\ Down!Root = Root
  BY DEF Down!Theirs, Theirs, Down!Skipped, Down!Root, Root
<1>2. \A p : Down!Parent(p) = Parent(p)
  BY DEF Down!Parent, Down!Front, Parent, Front
<1>3. \A tree, p : /\ Down!Exists(tree, p) = Exists(tree, p)
                   /\ Down!IsDir(tree, p) = IsDir(tree, p)
                   /\ Down!IsFile(tree, p) = IsFile(tree, p)
  BY DEF Down!Exists, Exists, Down!IsDir, IsDir, Down!IsFile, IsFile
<1>4. \A tree, p : Down!CanAdd(tree, p) = CanAdd(tree, p)
  BY <1>1, <1>2, <1>3 DEF Down!CanAdd, CanAdd
<1>5. \A tree, p : Down!Below(tree, p) = Below(tree, p)
  BY DEF Down!Below, Below, Down!IsPrefix, IsPrefix
<1>6. \A tree, p : /\ Down!Children(tree, p) = Children(tree, p)
                   /\ Down!Without(tree, p) = Without(tree, p)
  BY <1>5 DEF Down!Children, Children, Down!Without, Without
<1>7. \A tree, p, entry : Down!With(tree, p, entry) = With(tree, p, entry)
  BY DEF Down!With, With
<1>8. \A of, size : Down!File(of, size) = File(of, size) /\ Down!Dir(of) = Dir(of)
  BY DEF Down!File, File, Down!Dir, Dir
<1>9. \A p, n : Down!Numbered(p, n) = Numbered(p, n)
  BY DEF Down!Numbered, Numbered, Down!Front, Front, Down!Last, Last
<1>10. \A tree : Down!IsTree(tree) = IsTree(tree)
  BY <1>1, <1>2, <1>3 DEF Down!IsTree, IsTree
<1> QED BY <1>1, <1>2, <1>3, <1>4, <1>5, <1>6, <1>7, <1>8, <1>9, <1>10

\* What is on the stack is still to be fetched.
Todo2 == \A i \in DOMAIN stack2 : stack2[i].todo \subseteq DOMAIN source2

DownItem ==
  /\ step2 \in Down!Steps /\ protocol2 \in {"sftp", "ftp", "scp"}
  /\ DOMAIN item2 = {"src", "dst", "n", "isDir"}
  /\ item2.n \in Nat /\ item2.isDir \in BOOLEAN
  /\ item2.isDir => IsDir(source2, item2.src)
  /\ ~MayMistake /\ Busy2 /\ step2 # "probe" => item2.isDir = IsDir(source2, item2.src)
  /\ protocol2 = "scp" /\ ~MayMistake => ~IsDir(source2, Root)
  /\ protocol2 = "scp" /\ step2 = "probe" => item2.src = Root /\ ~item2.isDir
  /\ step2 \in {"size", "mkdir"} => item2.isDir
  /\ step2 \in {"parents", "create", "copy"} => ~item2.isDir
  /\ step2 \in {"create", "copy"} => IsFile(source2, item2.src)
  /\ step2 = "remove" => policy2 = "replace" /\ ~(item2.isDir /\ IsDir(tree2, item2.dst))
  /\ step2 = "number" => policy2 = "keep_both"

\* What a download that nobody disturbs may rely on.
DownRelies ==
  /\ step2 \in {"parents", "create"} => ~Exists(tree2, item2.dst)
  /\ step2 = "copy" => /\ IsFile(tree2, item2.dst) /\ tree2[item2.dst].of = Down!Mark(item2.src)
                       /\ \A s \in DOMAIN placed2 : placed2[s] # item2.dst

\* The first free number: the path asked for, and those before, are taken.
Asked2(s) == IF s = Root THEN Given ELSE Append(placed2[Parent(s)], Last(s))
Taken2(p, n) == \A m \in Nat : m < n => Exists(tree2, Numbered(p, m))

DownNumbered ==
  /\ \A s \in DOMAIN placed2 :
       \E n \in Nat : placed2[s] = Numbered(Asked2(s), n) /\ Taken2(Asked2(s), n + 1)
  /\ step2 \in {"probe", "resolve", "number"} => item2.dst = Asked2(item2.src)
  /\ step2 = "number" => Taken2(item2.dst, item2.n)
  /\ step2 \in {"size", "mkdir", "parents", "create", "copy"} =>
       \E n \in Nat : item2.dst = Numbered(Asked2(item2.src), n) /\ Taken2(Asked2(item2.src), n)

DownInv ==
  /\ Walk2 /\ ItemPlaced2 /\ Todo2 /\ TreeOK(tree2) /\ DownItem /\ Undisturbed2
  /\ others2 = 0 => DownRelies
  /\ others2 = 0 /\ policy2 = "keep_both" => DownNumbered

\* The walk stays where it is.
DownStays ==
  /\ SameCall2 /\ protocol2' = protocol2
  /\ UNCHANGED <<stack2, placed2, bytes2, result2>>
  /\ item2'.src = item2.src

LEMMA DownStaysInv ==
  ASSUME DownInv, Busy2, Busy2', DownStays, TreeOK(tree2'),
         others2 = 0 => Whole(source2, placed2, tree2'),
         \/ item2'.dst = item2.dst
         \/ policy2 # "replace" /\ \E n \in Nat : item2'.dst = Numbered(item2.dst, n),
         DownItem', others2 = 0 => DownRelies', others2 = 0 /\ policy2 = "keep_both" => DownNumbered'
  PROVE  DownInv'
<1>1. Walk2 /\ ItemPlaced2 /\ SameCall2 /\ bytes2' = bytes2 /\ UNCHANGED <<stack2, placed2, result2>>
  BY DEF DownInv, DownStays
<1>2. item2'.src = item2.src
  BY DEF DownStays
<1>3. Walk2'
  BY <1>1, <1>2, StaysWalks2
<1>4. ItemPlaced2'
  <2>1. CASE item2'.dst = item2.dst
    BY <1>1, <1>2, <2>1, StaysPlaced2
  <2>2. CASE policy2 # "replace" /\ \E n \in Nat : item2'.dst = Numbered(item2.dst, n)
    BY <1>1, <1>2, <2>2, NumberedPlaced2
  <2> QED BY <2>1, <2>2
<1>5. Undisturbed2'
  BY <1>1 DEF DownInv, Undisturbed2, SkippedIfTold2, SameCall2
<1>6. Todo2'
  BY <1>1 DEF DownInv, Todo2, SameCall2
<1>7. (others2 = 0 => DownRelies)' /\ (others2 = 0 /\ policy2 = "keep_both" => DownNumbered)'
  BY <1>1 DEF SameCall2
<1> QED BY <1>3, <1>4, <1>5, <1>6, <1>7 DEF DownInv

\* What has been numbered stays so as long as nothing is taken away.
LEMMA NumberedStays ==
  ASSUME DownNumbered, placed2' = placed2, DOMAIN tree2 \subseteq DOMAIN tree2'
  PROVE  /\ \A s \in DOMAIN placed2' :
              \E n \in Nat : placed2'[s] = Numbered(Asked2(s), n)' /\ Taken2(Asked2(s), n + 1)'
         /\ \A s : Asked2(s)' = Asked2(s)
         /\ \A p : \A n \in Nat : Taken2(p, n) => Taken2(p, n)'
<1>1. \A s : Asked2(s)' = Asked2(s)
  BY DEF Asked2
<1>2. \A p : \A n \in Nat : Taken2(p, n) => Taken2(p, n)'
  BY DEF Taken2, Exists
<1>3. ASSUME NEW s \in DOMAIN placed2'
      PROVE  \E n \in Nat : placed2'[s] = Numbered(Asked2(s), n)' /\ Taken2(Asked2(s), n + 1)'
  <2>1. PICK n \in Nat : placed2[s] = Numbered(Asked2(s), n) /\ Taken2(Asked2(s), n + 1)
    BY <1>3 DEF DownNumbered
  <2>2. Taken2(Asked2(s), n + 1)'
    BY <2>1, <1>1 DEF Taken2, Exists
  <2> QED BY <1>1, <2>1, <2>2
<1> QED BY <1>1, <1>2, <1>3

LEMMA DownFailsInv == DownInv /\ Down!CallFails /\ protocol2' = protocol2 => DownInv'
<1>1. SUFFICES ASSUME DownInv, Down!CallFails
               PROVE  DownInv'
  OBVIOUS
<1>2. /\ SameCall2 /\ bytes2' = bytes2 /\ placed2' = placed2 /\ step2' = "done" /\ result2' = "error"
      /\ UNCHANGED <<tree2, item2, stack2, protocol2>>
  BY <1>1 DEF Down!CallFails, Down!call, SameCall2
<1>3. Walk2'
  BY <1>1, <1>2, FailsWalks2 DEF DownInv
<1>4. ItemPlaced2'
  <2>1. ItemPlaced2 /\ step2' \in {"next", "done"} /\ UNCHANGED <<source2, item2>>
    BY <1>1, <1>2 DEF DownInv, SameCall2
  <2> QED BY <2>1, NextPlaced2
<1>5. DownItem'
  BY <1>1, <1>2 DEF DownInv, DownItem, Down!Steps, SameCall2, Busy2
<1>6. Undisturbed2' /\ Todo2' /\ TreeOK(tree2)'
  BY <1>1, <1>2 DEF DownInv, Undisturbed2, SkippedIfTold2, Todo2, SameCall2
<1>7. DownRelies'
  BY <1>2 DEF DownRelies
<1>8. others2' = 0 /\ policy2' = "keep_both" => DownNumbered'
  <2>1. ASSUME others2 = 0, policy2 = "keep_both"
        PROVE  DownNumbered'
    <3>1. DownNumbered /\ placed2' = placed2 /\ DOMAIN tree2 \subseteq DOMAIN tree2'
      BY <1>1, <1>2, <2>1 DEF DownInv
    <3> QED BY <1>2, <3>1, NumberedStays DEF DownNumbered
  <2> QED BY <1>2, <2>1 DEF SameCall2
<1> QED BY <1>3, <1>4, <1>5, <1>6, <1>7, <1>8 DEF DownInv

\* The source has been looked at.
LEMMA DownProbesInv == DownInv /\ (Down!StatSource \/ Down!ListSource \/ Down!TakeForFile) => DownInv'
<1>1. SUFFICES ASSUME DownInv, Down!StatSource \/ Down!ListSource \/ Down!TakeForFile
               PROVE  DownInv'
  OBVIOUS
<1>2. /\ step2 = "probe" /\ Busy2 /\ DownItem /\ TreeOK(tree2) /\ item2.src \in DOMAIN source2
  BY <1>1 DEF Down!StatSource, Down!ListSource, Down!TakeForFile, Busy2, DownInv, ItemPlaced2
<1>3. /\ Down!Look("resolve")
      /\ \/ protocol2 # "scp" /\ \E isDir \in Down!Answers : item2' = [item2 EXCEPT !.isDir = isDir]
         \/ protocol2 = "scp" /\ UNCHANGED item2
  BY <1>1 DEF Down!StatSource, Down!ListSource, Down!TakeForFile
<1>4. /\ step2' = "resolve" /\ Busy2' /\ SameCall2 /\ protocol2' = protocol2
      /\ UNCHANGED <<stack2, placed2, bytes2, result2, tree2>>
  BY <1>3 DEF Down!Look, Down!GoOn, Down!call, SameCall2, Busy2
<1>5. \A isDir \in Down!Answers : /\ isDir \in BOOLEAN /\ (isDir => IsDir(source2, item2.src))
                                  /\ ~MayMistake => isDir = IsDir(source2, item2.src)
  BY DownTrees, TransfersAssumption DEF Down!Answers, IsDir, Exists
<1>6. /\ DOMAIN item2' = {"src", "dst", "n", "isDir"} /\ item2'.src = item2.src /\ item2'.dst = item2.dst
      /\ item2'.n = item2.n /\ item2'.isDir \in BOOLEAN
      /\ item2'.isDir => IsDir(source2, item2.src)
      /\ ~MayMistake => item2'.isDir = IsDir(source2, item2.src)
  <2>1. CASE protocol2 # "scp"
    <3>1. PICK isDir \in Down!Answers : item2' = [item2 EXCEPT !.isDir = isDir]
      BY <1>3, <2>1
    <3>2. /\ DOMAIN item2' = {"src", "dst", "n", "isDir"} /\ item2'.src = item2.src /\ item2'.dst = item2.dst
          /\ item2'.n = item2.n /\ item2'.isDir = isDir
      BY <1>2, <3>1 DEF DownItem
    <3> QED BY <1>5, <3>2
  <2>2. CASE protocol2 = "scp"
    <3>1. item2' = item2 /\ item2.isDir = FALSE /\ item2.src = Root
      BY <1>2, <1>3, <2>2 DEF DownItem
    <3>2. ~MayMistake => IsDir(source2, item2.src) = FALSE
      BY <1>2, <2>2, <3>1 DEF DownItem, IsDir, Exists
    <3> QED BY <1>2, <3>1, <3>2 DEF DownItem
  <2> QED BY <2>1, <2>2
<1>7. DownStays
  BY <1>4, <1>6 DEF DownStays
<1>8. DownItem'
  BY <1>2, <1>4, <1>6 DEF DownItem, Down!Steps, SameCall2
<1>9. DownRelies'
  BY <1>4 DEF DownRelies
<1>10. ASSUME others2 = 0, policy2 = "keep_both"
       PROVE  DownNumbered'
  <2>1. DownNumbered /\ placed2' = placed2 /\ DOMAIN tree2 \subseteq DOMAIN tree2'
    BY <1>1, <1>4, <1>10 DEF DownInv
  <2>2. item2.dst = Asked2(item2.src)
    BY <1>2, <2>1 DEF DownNumbered
  <2> QED BY <1>4, <1>6, <2>1, <2>2, NumberedStays DEF DownNumbered
<1>11. TreeOK(tree2') /\ (others2 = 0 => Whole(source2, placed2, tree2'))
  BY <1>1, <1>4 DEF DownInv, Undisturbed2
<1> QED BY <1>1, <1>2, <1>4, <1>6, <1>7, <1>8, <1>9, <1>10, <1>11, DownStaysInv

\* Where the item goes has been decided.
LEMMA DownDestinedInv ==
  ASSUME DownInv, step2 \in {"resolve", "number", "remove"}, NEW p, Down!Destined(p), placed2' = placed2,
         p = item2.dst \/ (policy2 # "replace" /\ \E n \in Nat : p = Numbered(item2.dst, n)),
         TreeOK(tree2'), others2 = 0 => Whole(source2, placed2, tree2'),
         ~item2.isDir => ~Exists(tree2', p),
         others2 = 0 /\ policy2 = "keep_both" =>
           /\ tree2' = tree2
           /\ \E n \in Nat : p = Numbered(Asked2(item2.src), n) /\ Taken2(Asked2(item2.src), n)
  PROVE  DownInv'
<1>1. DownItem /\ Busy2
  BY DEF DownInv, Busy2
<1>2. /\ DownStays /\ DOMAIN item2' = {"src", "dst", "n", "isDir"} /\ item2'.dst = p /\ item2'.n = 0
      /\ item2'.isDir = item2.isDir /\ item2'.src = item2.src
  BY <1>1 DEF Down!Destined, Down!GoOn, Down!call, DownStays, SameCall2, DownItem
<1>3. step2' = IF ~item2.isDir THEN "parents"
               ELSE IF protocol2 = "sftp" /\ stack2 = <<>> THEN "size" ELSE "mkdir"
  BY DEF Down!Destined, Down!GoOn
<1>4. Busy2'
  BY <1>3 DEF Busy2
<1>5. DownItem'
  BY <1>1, <1>2, <1>3 DEF DownItem, Down!Steps, DownStays, SameCall2, Busy2
<1>6. DownRelies'
  BY <1>2, <1>3 DEF DownRelies
<1>7. ASSUME others2 = 0, policy2 = "keep_both"
      PROVE  DownNumbered'
  <2>1. DownNumbered /\ DOMAIN tree2 \subseteq DOMAIN tree2'
    BY <1>7 DEF DownInv
  <2>2. PICK n \in Nat : p = Numbered(Asked2(item2.src), n) /\ Taken2(Asked2(item2.src), n)
    BY <1>7
  <2>3. /\ \A s \in DOMAIN placed2' :
             \E k \in Nat : placed2'[s] = Numbered(Asked2(s), k)' /\ Taken2(Asked2(s), k + 1)'
        /\ Asked2(item2.src)' = Asked2(item2.src)
        /\ Taken2(Asked2(item2.src), n)'
    <3>1. /\ \A s : Asked2(s)' = Asked2(s)
          /\ \A q : \A k \in Nat : Taken2(q, k) => Taken2(q, k)'
      BY <2>1, NumberedStays
    <3>2. Asked2(item2.src)' = Asked2(item2.src)
      BY <1>2, <3>1 DEF Asked2
    <3>3. Taken2(Asked2(item2.src), n)'
      BY <2>1, <2>2, <3>2 DEF Taken2, Exists
    <3> QED BY <2>1, <3>2, <3>3, NumberedStays
  <2>4. item2'.dst = Numbered(Asked2(item2.src), n)'
    BY <1>2, <2>2, <2>3
  <2> QED BY <1>3, <2>3, <2>4 DEF DownNumbered
<1> QED BY <1>1, <1>2, <1>4, <1>5, <1>6, <1>7, DownStaysInv

LEMMA DownSkipInv ==
  ASSUME DownInv, Busy2, Down!Skip, policy2 = "keep_existing"
  PROVE  DownInv'
<1>1. /\ SameCall2 /\ bytes2' = bytes2 /\ UNCHANGED <<stack2, result2, item2, tree2, protocol2>>
      /\ step2' = "next"
  BY DEF Down!Skip, Down!GoOn, Down!call, SameCall2
<1>2. placed2' = [s \in DOMAIN placed2 \cup Below(source2, item2.src) |->
                    IF s \in DOMAIN placed2 THEN placed2[s] ELSE Theirs]
  BY DownTrees DEF Down!Skip
<1>3. Walk2'
  BY <1>1, <1>2, SkipsWalks2 DEF DownInv
<1>4. ItemPlaced2'
  <2>1. ItemPlaced2 /\ step2' \in {"next", "done"} /\ UNCHANGED <<source2, item2>>
    BY <1>1 DEF DownInv, SameCall2
  <2> QED BY <2>1, NextPlaced2
<1>5. DownItem'
  BY <1>1 DEF DownInv, DownItem, Down!Steps, SameCall2, Busy2
<1>6. DownRelies' /\ Todo2' /\ TreeOK(tree2)'
  BY <1>1 DEF DownInv, DownRelies, Todo2, SameCall2
<1>7. Undisturbed2'
  <2>1. SUFFICES ASSUME others2 = 0
                 PROVE  Whole(source2, placed2, tree2)' /\ SkippedIfTold2'
    BY <1>1 DEF Undisturbed2, SameCall2
  <2>2. Whole(source2, placed2', tree2)
    BY <1>2, <2>1, WholeIfSkipped DEF DownInv, Undisturbed2
  <2>3. SkippedIfTold2'
    BY <1>1 DEF SkippedIfTold2, SameCall2
  <2> QED BY <1>1, <2>2, <2>3 DEF SameCall2
<1> QED BY <1>1, <1>3, <1>4, <1>5, <1>6, <1>7 DEF DownInv, SameCall2

LEMMA DownResolveKinds ==
  ASSUME DownInv, Down!Resolve
  PROVE  /\ step2 = "resolve"
         /\ \/ /\ Down!Destined(item2.dst) /\ UNCHANGED <<tree2, placed2>>
               /\ ~item2.isDir \/ policy2 = "keep_both" => ~Exists(tree2, item2.dst)
            \/ policy2 = "keep_both" /\ item2' = [item2 EXCEPT !.n = 1] /\ Down!Look("number")
            \/ policy2 = "keep_existing" /\ Down!Skip
            \/ /\ policy2 = "replace" /\ ~(item2.isDir /\ IsDir(tree2, item2.dst))
               /\ Down!Look("remove") /\ UNCHANGED item2
<1>1. step2 = "resolve" /\ policy2 \in {"keep_existing", "replace", "keep_both"}
  BY TreesAssumption DEF Down!Resolve, DownInv, Walk2, Call2
<1>2. Down!Matching <=> item2.isDir /\ IsDir(tree2, item2.dst)
  BY DownTrees DEF Down!Matching
<1>3. Down!Exists(tree2, item2.dst) = Exists(tree2, item2.dst)
  BY DownTrees
<1>4. CASE ~Exists(tree2, item2.dst)
  <2>1. Down!Destined(item2.dst) /\ UNCHANGED <<tree2, placed2>>
    BY <1>3, <1>4 DEF Down!Resolve
  <2> QED BY <1>1, <1>4, <2>1
<1>5. CASE Exists(tree2, item2.dst) /\ policy2 = "keep_both"
  BY <1>1, <1>3, <1>5 DEF Down!Resolve
<1>6. CASE Exists(tree2, item2.dst) /\ policy2 # "keep_both" /\ Down!Matching
  <2>1. Down!Destined(item2.dst) /\ UNCHANGED <<tree2, placed2>>
    BY <1>3, <1>6 DEF Down!Resolve
  <2> QED BY <1>1, <1>2, <1>6, <2>1
<1>7. CASE Exists(tree2, item2.dst) /\ policy2 = "keep_existing" /\ ~Down!Matching
  BY <1>1, <1>3, <1>7 DEF Down!Resolve
<1>8. CASE Exists(tree2, item2.dst) /\ policy2 = "replace" /\ ~Down!Matching
  BY <1>1, <1>2, <1>3, <1>8 DEF Down!Resolve
<1> QED BY <1>1, <1>4, <1>5, <1>6, <1>7, <1>8

\* The path as it was asked for has no number.
LEMMA NotNumbered2 == \A p : Numbered(p, 0) = p /\ Taken2(p, 0)
BY DEF Numbered, Taken2

LEMMA DownResolveInv == DownInv /\ Down!Resolve => DownInv'
<1>1. SUFFICES ASSUME DownInv, Down!Resolve
               PROVE  DownInv'
  OBVIOUS
<1>2. /\ step2 = "resolve" /\ Busy2 /\ DownItem /\ TreeOK(tree2)
      /\ others2 = 0 => Whole(source2, placed2, tree2)
  BY <1>1, DownResolveKinds DEF Busy2, DownInv, Undisturbed2
<1>3. others2 = 0 /\ policy2 = "keep_both" => DownNumbered /\ item2.dst = Asked2(item2.src)
  BY <1>1, <1>2 DEF DownInv, DownNumbered
<1>4. CASE /\ Down!Destined(item2.dst) /\ UNCHANGED <<tree2, placed2>>
           /\ ~item2.isDir \/ policy2 = "keep_both" => ~Exists(tree2, item2.dst)
  <2>1. others2 = 0 /\ policy2 = "keep_both" =>
          \E n \in Nat : item2.dst = Numbered(Asked2(item2.src), n) /\ Taken2(Asked2(item2.src), n)
    BY <1>3, NotNumbered2
  <2> QED BY <1>1, <1>2, <1>4, <2>1, DownDestinedInv
<1>5. CASE policy2 = "keep_existing" /\ Down!Skip
  BY <1>1, <1>2, <1>5, DownSkipInv
<1>6. CASE policy2 = "keep_both" /\ item2' = [item2 EXCEPT !.n = 1] /\ Down!Look("number")
  <2>1. /\ DownStays /\ step2' = "number" /\ UNCHANGED tree2
        /\ item2'.dst = item2.dst /\ item2'.isDir = item2.isDir /\ item2'.n = 1 /\ item2'.src = item2.src
        /\ DOMAIN item2' = {"src", "dst", "n", "isDir"}
    BY <1>2, <1>6 DEF Down!Look, Down!GoOn, Down!call, DownStays, SameCall2, DownItem
  <2>2. Busy2' /\ DownItem' /\ DownRelies'
    BY <1>2, <1>6, <2>1 DEF DownItem, Busy2, Down!Steps, DownRelies, DownStays, SameCall2
  <2>3. ASSUME others2 = 0
        PROVE  DownNumbered'
    <3>1. /\ \A s \in DOMAIN placed2' :
               \E n \in Nat : placed2'[s] = Numbered(Asked2(s), n)' /\ Taken2(Asked2(s), n + 1)'
          /\ \A s : Asked2(s)' = Asked2(s)
      BY <1>3, <1>6, <2>1, <2>3, NumberedStays DEF DownStays
    <3>2. item2'.dst = Asked2(item2.src)'
      BY <1>3, <1>6, <2>1, <2>3, <3>1 DEF Asked2
    <3>3. Taken2(item2.dst, item2.n)'
      <4>1. Exists(tree2, item2.dst)
        BY <1>1, <1>2, <1>6, <2>1, DownTrees DEF Down!Resolve, Down!Destined, Down!GoOn
      <4>2. \A m \in Nat : m < 1 => m = 0
        OBVIOUS
      <4> QED BY <2>1, <4>1, <4>2, NotNumbered2 DEF Taken2, Exists
    <3> QED BY <2>1, <3>1, <3>2, <3>3 DEF DownNumbered
  <2> QED BY <1>1, <1>2, <2>1, <2>2, <2>3, DownStaysInv
<1>7. CASE /\ policy2 = "replace" /\ ~(item2.isDir /\ IsDir(tree2, item2.dst))
           /\ Down!Look("remove") /\ UNCHANGED item2
  <2>1. /\ DownStays /\ step2' = "remove" /\ UNCHANGED <<tree2, item2>>
    BY <1>7 DEF Down!Look, Down!GoOn, Down!call, DownStays, SameCall2
  <2>2. Busy2' /\ DownItem' /\ DownRelies'
    BY <1>2, <1>7, <2>1 DEF DownItem, Busy2, Down!Steps, DownRelies, DownStays, SameCall2
  <2> QED BY <1>1, <1>2, <1>7, <2>1, <2>2, DownStaysInv
<1> QED BY <1>1, <1>4, <1>5, <1>6, <1>7, DownResolveKinds

LEMMA DownRemoveInv == DownInv /\ Down!RemoveLocal => DownInv'
<1>1. SUFFICES ASSUME DownInv, Down!RemoveLocal
               PROVE  DownInv'
  OBVIOUS
<1>2. /\ step2 = "remove" /\ Busy2 /\ DownItem /\ TreeOK(tree2) /\ policy2 = "replace"
      /\ Walk2 /\ ItemPlaced2
  BY <1>1 DEF Down!RemoveLocal, Busy2, DownInv, DownItem
<1>3. PICK p \in Below(tree2, item2.dst) :
        /\ tree2' = Without(tree2, p) /\ placed2' = placed2
        /\ IF p = item2.dst THEN Down!Destined(item2.dst) ELSE Down!GoOn("remove") /\ UNCHANGED item2
  BY <1>1, DownTrees DEF Down!RemoveLocal
<1>4. TreeOK(tree2')
  BY <1>2, <1>3, ClearedIsNotPlaced2
<1>5. others2 = 0 => Whole(source2, placed2, tree2')
  BY <1>1, <1>2, <1>3, ClearedIsNotPlaced2 DEF DownInv, Undisturbed2
<1>6. CASE p = item2.dst
  <2>1. ~Exists(tree2', item2.dst)
    BY <1>2, <1>3, <1>6, ClearedIsNotPlaced2
  <2> QED BY <1>1, <1>2, <1>3, <1>4, <1>5, <1>6, <2>1, DownDestinedInv
<1>7. CASE p # item2.dst
  <2>1. DownStays /\ step2' = "remove" /\ item2' = item2
    BY <1>3, <1>7 DEF Down!GoOn, Down!call, DownStays, SameCall2
  <2>2. ~(item2.isDir /\ IsDir(tree2', item2.dst))
    BY <1>2, <1>3, ClearedIsNotPlaced2 DEF DownItem
  <2>3. Busy2' /\ DownItem' /\ DownRelies'
    BY <1>2, <2>1, <2>2 DEF DownItem, Busy2, Down!Steps, DownRelies, DownStays, SameCall2
  <2> QED BY <1>1, <1>2, <1>4, <1>5, <2>1, <2>3, DownStaysInv
<1> QED BY <1>6, <1>7

LEMMA DownNumberInv == DownInv /\ Down!NumberLocal => DownInv'
<1>1. SUFFICES ASSUME DownInv, Down!NumberLocal
               PROVE  DownInv'
  OBVIOUS
<1>2. /\ step2 = "number" /\ Busy2 /\ DownItem /\ TreeOK(tree2) /\ policy2 = "keep_both"
      /\ others2 = 0 => Whole(source2, placed2, tree2)
      /\ item2.n \in Nat
  BY <1>1 DEF Down!NumberLocal, Busy2, DownInv, DownItem, Undisturbed2
<1>3. others2 = 0 => DownNumbered /\ item2.dst = Asked2(item2.src) /\ Taken2(item2.dst, item2.n)
  BY <1>1, <1>2 DEF DownInv, DownNumbered
<1>4. CASE ~Exists(tree2, Numbered(item2.dst, item2.n))
  <2>1. Down!Destined(Numbered(item2.dst, item2.n)) /\ UNCHANGED <<tree2, placed2>>
    BY <1>1, <1>4, DownTrees DEF Down!NumberLocal, Down!NextFree
  <2> QED BY <1>1, <1>2, <1>3, <1>4, <2>1, DownDestinedInv
<1>5. CASE Exists(tree2, Numbered(item2.dst, item2.n))
  <2>1. item2' = [item2 EXCEPT !.n = item2.n + 1] /\ Down!Look("number")
    BY <1>1, <1>5, DownTrees DEF Down!NumberLocal, Down!NextFree, Down!NextNumber
  <2>2. /\ DownStays /\ step2' = "number" /\ UNCHANGED tree2
        /\ item2'.dst = item2.dst /\ item2'.isDir = item2.isDir /\ item2'.n = item2.n + 1 /\ item2'.src = item2.src
        /\ DOMAIN item2' = {"src", "dst", "n", "isDir"} /\ item2'.n \in Nat
    BY <1>2, <2>1 DEF Down!Look, Down!GoOn, Down!call, DownStays, SameCall2, DownItem
  <2>3. Busy2' /\ DownItem' /\ DownRelies'
    BY <1>2, <2>2 DEF DownItem, Busy2, Down!Steps, DownRelies, DownStays, SameCall2
  <2>4. ASSUME others2 = 0
        PROVE  DownNumbered'
    <3>1. /\ \A s \in DOMAIN placed2' :
               \E n \in Nat : placed2'[s] = Numbered(Asked2(s), n)' /\ Taken2(Asked2(s), n + 1)'
          /\ \A s : Asked2(s)' = Asked2(s)
      BY <1>3, <2>2, <2>4, NumberedStays DEF DownStays
    <3>2. item2'.dst = Asked2(item2.src)'
      BY <1>3, <2>2, <2>4, <3>1 DEF Asked2
    <3>3. Taken2(item2.dst, item2.n)'
      <4>1. \A m \in Nat : m < item2.n + 1 => m < item2.n \/ m = item2.n
        BY <1>2
      <4> QED BY <1>3, <1>5, <2>2, <2>4, <4>1 DEF Taken2, Exists
    <3> QED BY <2>2, <3>1, <3>2, <3>3 DEF DownNumbered
  <2> QED BY <1>1, <1>2, <2>2, <2>3, <2>4, DownStaysInv
<1> QED BY <1>4, <1>5

\* create_dir_all makes a directory on the way, where nothing is.
LEMMA DownMakes ==
  ASSUME NEW path, IsSequence(path), Down!MakeMissing(path)
  PROVE  \E first : /\ IsSequence(first) /\ CanAdd(tree2, first)
                    /\ Len(first) \in Nat /\ Len(first) <= Len(path)
                    /\ tree2' = With(tree2, first, Dir(Down!Mark(item2.src)))
                    /\ UNCHANGED <<item2, placed2>> /\ Down!GoOn(step2)
<1> DEFINE M == Down!MissingAbove(path)
           i == CHOOSE i \in M : \A j \in M : i <= j
           first == SubSeq(path, 1, i)
<1>1. M # {} /\ M \subseteq 1..Len(path) /\ Len(path) \in Nat /\ path \in Seq(ToSet(path))
  BY DEF Down!MakeMissing, Down!MissingAbove, IsSequence
<1>2. /\ Down!CanAdd(tree2, first) /\ tree2' = Down!With(tree2, first, Down!Dir(Down!Mark(item2.src)))
      /\ UNCHANGED <<item2, placed2>> /\ Down!GoOn(step2)
  BY DEF Down!MakeMissing
<1>3. M \in SUBSET Nat
  BY <1>1
<1> HIDE DEF M
<1>4. \E k \in M : \A j \in M : k <= j
  BY <1>1, <1>3, LeastNatural
<1>5. i \in M
  BY <1>4
<1> HIDE DEF i
<1>6. i \in 1..Len(path)
  BY <1>1, <1>5
<1>7. first \in Seq(ToSet(path)) /\ Len(first) = i
  BY <1>1, <1>6
<1> HIDE DEF first
<1>8. IsSequence(first) /\ Len(first) \in Nat /\ Len(first) <= Len(path)
  BY <1>1, <1>6, <1>7, InSeqIsSequence
<1>9. CanAdd(tree2, first) /\ tree2' = With(tree2, first, Dir(Down!Mark(item2.src)))
  BY <1>2, DownTrees
<1> QED BY <1>2, <1>8, <1>9

\* A directory on the way has been made: all else stays.
LEMMA DownMakesInv ==
  ASSUME DownInv, step2 \in {"mkdir", "parents"}, NEW path, IsSequence(path), Down!MakeMissing(path),
         step2 = "parents" => Len(path) < Len(item2.dst)
  PROVE  DownInv'
<1>1. DownItem /\ Busy2 /\ TreeOK(tree2) /\ ItemPlaced2
  BY DEF DownInv, Busy2
<1>2. PICK first : /\ IsSequence(first) /\ CanAdd(tree2, first)
                   /\ Len(first) \in Nat /\ Len(first) <= Len(path)
                   /\ tree2' = With(tree2, first, Dir(Down!Mark(item2.src)))
                   /\ UNCHANGED <<item2, placed2>> /\ Down!GoOn(step2)
  BY DownMakes
<1>3. /\ DownStays /\ step2' = step2 /\ UNCHANGED item2 /\ Busy2'
  BY <1>1, <1>2 DEF Down!GoOn, Down!call, DownStays, SameCall2, Busy2
<1>4. TreeOK(tree2')
  BY <1>1, <1>2, EntriesAre, WithKeeps
<1>5. first \notin DOMAIN tree2
  BY <1>2 DEF CanAdd, Exists
<1>6. others2 = 0 => Whole(source2, placed2, tree2')
  BY <1>2, <1>5, WholeIfAdded DEF DownInv, Undisturbed2
<1>7. DownItem'
  BY <1>1, <1>3 DEF DownItem, DownStays, SameCall2, Busy2
<1>8. ASSUME others2 = 0
      PROVE  DownRelies'
  <2>1. CASE step2 = "mkdir"
    BY <1>3, <2>1 DEF DownRelies
  <2>2. CASE step2 = "parents"
    <3>1. ~Exists(tree2, item2.dst)
      BY <1>8, <2>2 DEF DownInv, DownRelies
    <3>2. first # item2.dst
      <4>1. Len(path) \in Nat /\ Len(item2.dst) \in Nat
        BY <1>1 DEF ItemPlaced2, Named, IsSequence
      <4>2. Len(first) < Len(item2.dst)
        BY <1>2, <2>2, <4>1
      <4> DEFINE n == Len(first)
                 m == Len(item2.dst)
      <4>3. n \in Nat /\ m \in Nat /\ n < m
        BY <1>2, <4>1, <4>2
      <4> HIDE DEF n, m
      <4>4. n # m
        BY <4>3
      <4> QED BY <4>4, Zenon DEF n, m
    <3>3. DOMAIN tree2' = DOMAIN tree2 \cup {first}
      BY <1>2 DEF With
    <3> QED BY <1>3, <2>2, <3>1, <3>2, <3>3 DEF DownRelies, Exists
  <2> QED BY <2>1, <2>2
<1>9. ASSUME others2 = 0, policy2 = "keep_both"
      PROVE  DownNumbered'
  <2>1. DownNumbered /\ placed2' = placed2 /\ DOMAIN tree2 \subseteq DOMAIN tree2'
    BY <1>2, <1>9 DEF DownInv, With
  <2>2. PICK n \in Nat : item2.dst = Numbered(Asked2(item2.src), n) /\ Taken2(Asked2(item2.src), n)
    BY <2>1 DEF DownNumbered
  <2>3. Asked2(item2.src)' = Asked2(item2.src)
    BY <1>2 DEF Asked2
  <2>4. Taken2(Asked2(item2.src), n)'
    BY <2>1, <2>2, <2>3 DEF Taken2, Exists
  <2> QED BY <1>2, <1>3, <2>1, <2>2, <2>3, <2>4, NumberedStays DEF DownNumbered
<1> QED BY <1>1, <1>3, <1>4, <1>6, <1>7, <1>8, <1>9, DownStaysInv

LEMMA DownMakeInv == DownInv /\ (Down!MakeDirectory \/ Down!MakeParents) => DownInv'
<1>1. SUFFICES ASSUME DownInv, Down!MakeDirectory \/ Down!MakeParents
               PROVE  DownInv'
  OBVIOUS
<1>2. Named(item2.dst)
  BY <1>1 DEF DownInv, ItemPlaced2
<1>3. IsSequence(item2.dst) /\ item2.dst # Root /\ item2.dst \in Seq(ToSet(item2.dst))
  BY <1>2 DEF Named, IsSequence
<1>4. CASE Down!MakeDirectory
  BY <1>1, <1>3, <1>4, DownMakesInv DEF Down!MakeDirectory
<1>5. CASE Down!MakeParents
  <2>1. step2 = "parents" /\ Down!MakeMissing(Parent(item2.dst))
    BY <1>5, DownTrees DEF Down!MakeParents
  <2>2. Parent(item2.dst) \in Seq(ToSet(item2.dst)) /\ Len(Parent(item2.dst)) = Len(item2.dst) - 1
    BY <1>3, ParentAndLast
  <2>3. Len(item2.dst) \in Nat
    BY <1>3
  <2>4. IsSequence(Parent(item2.dst)) /\ Len(Parent(item2.dst)) < Len(item2.dst)
    BY <2>2, <2>3, InSeqIsSequence
  <2> QED BY <1>1, <2>1, <2>4, DownMakesInv
<1> QED BY <1>1, <1>4, <1>5

\* A step that only looks, between the decision and the copy.
LEMMA DownGoesOnInv ==
  ASSUME DownInv, step2 \in {"size", "parents"}, Down!Look(step2'), UNCHANGED item2,
         \/ step2 = "size" /\ step2' = "mkdir"
         \/ step2 = "parents" /\ step2' = "create" /\ IsFile(source2, item2.src)
  PROVE  DownInv'
<1>1. DownItem /\ Busy2 /\ TreeOK(tree2)
  BY DEF DownInv, Busy2
<1>2. DownStays /\ UNCHANGED <<tree2, item2, placed2>> /\ Busy2'
  BY DEF Down!Look, Down!GoOn, Down!call, DownStays, SameCall2, Busy2
<1>3. DownItem'
  BY <1>1, <1>2 DEF DownItem, Down!Steps, DownStays, SameCall2, Busy2
<1>4. others2 = 0 => DownRelies'
  BY <1>2 DEF DownInv, DownRelies
<1>5. ASSUME others2 = 0, policy2 = "keep_both"
      PROVE  DownNumbered'
  <2>1. DownNumbered /\ placed2' = placed2 /\ DOMAIN tree2 \subseteq DOMAIN tree2'
    BY <1>2, <1>5 DEF DownInv
  <2>2. PICK n \in Nat : item2.dst = Numbered(Asked2(item2.src), n) /\ Taken2(Asked2(item2.src), n)
    BY <2>1 DEF DownNumbered
  <2>3. Asked2(item2.src)' = Asked2(item2.src)
    BY <1>2 DEF Asked2
  <2>4. Taken2(Asked2(item2.src), n)'
    BY <2>1, <2>2, <2>3 DEF Taken2, Exists
  <2> QED BY <1>2, <2>1, <2>2, <2>3, <2>4, NumberedStays DEF DownNumbered
<1>6. others2 = 0 => Whole(source2, placed2, tree2')
  BY <1>2 DEF DownInv, Undisturbed2
<1> QED BY <1>1, <1>2, <1>3, <1>4, <1>5, <1>6, DownStaysInv

LEMMA DownMeasureInv == DownInv /\ (Down!Measure \/ Down!OpenRemote) => DownInv'
<1>1. SUFFICES ASSUME DownInv, Down!Measure \/ Down!OpenRemote
               PROVE  DownInv'
  OBVIOUS
<1>2. CASE Down!Measure
  <2>1. step2 = "size" /\ step2' = "mkdir" /\ Down!Look(step2') /\ UNCHANGED item2
    BY <1>2 DEF Down!Measure, Down!Look, Down!GoOn
  <2> QED BY <1>1, <2>1, DownGoesOnInv
<1>3. CASE Down!OpenRemote
  <2>1. /\ step2 = "parents" /\ step2' = "create" /\ Down!Look(step2') /\ UNCHANGED item2
        /\ IsFile(source2, item2.src)
    BY <1>3, DownTrees DEF Down!OpenRemote, Down!Look, Down!GoOn
  <2> QED BY <1>1, <2>1, DownGoesOnInv
<1> QED BY <1>1, <1>2, <1>3

LEMMA DownCreateInv == DownInv /\ Down!CreateLocal => DownInv'
<1>1. SUFFICES ASSUME DownInv, Down!CreateLocal
               PROVE  DownInv'
  OBVIOUS
<1>2. /\ step2 = "create" /\ Busy2 /\ DownItem /\ TreeOK(tree2) /\ ItemPlaced2
  BY <1>1 DEF Down!CreateLocal, Busy2, DownInv
<1>3. /\ CanAdd(tree2, item2.dst) \/ IsFile(tree2, item2.dst)
      /\ tree2' = With(tree2, item2.dst, File(Down!Mark(item2.src), 0))
  BY <1>1, DownTrees DEF Down!CreateLocal, Down!MayCreate
<1>4. DownStays /\ step2' = "copy" /\ UNCHANGED <<item2, placed2>> /\ Busy2'
  BY <1>1 DEF Down!CreateLocal, Down!GoOn, Down!call, DownStays, SameCall2, Busy2
<1>5. TreeOK(tree2')
  <2>1. IsSequence(item2.dst)
    BY <1>2 DEF ItemPlaced2, Named
  <2> QED BY <1>2, <1>3, <2>1, EntriesAre, WithKeeps
<1>6. /\ DOMAIN tree2' = DOMAIN tree2 \cup {item2.dst}
      /\ tree2'[item2.dst] = File(Down!Mark(item2.src), 0)
  BY <1>3 DEF With
<1>7. ASSUME others2 = 0
      PROVE  Whole(source2, placed2, tree2') /\ DownRelies'
  <2>1. item2.dst \notin DOMAIN tree2 /\ Whole(source2, placed2, tree2)
    BY <1>1, <1>2, <1>7 DEF DownInv, DownRelies, Undisturbed2, Exists
  <2>2. \A s \in DOMAIN placed2 : placed2[s] # item2.dst
    BY <1>2, <2>1 DEF Whole, ItemPlaced2, Named
  <2>3. IsFile(tree2', item2.dst) /\ tree2'[item2.dst].of = Down!Mark(item2.src)
    BY <1>6, EntriesAre DEF IsFile, Exists
  <2>4. Whole(source2, placed2, tree2')
    BY <1>3, <2>1, WholeIfAdded
  <2> QED BY <1>4, <2>2, <2>3, <2>4 DEF DownRelies
<1>8. DownItem'
  BY <1>2, <1>4 DEF DownItem, Down!Steps, DownStays, SameCall2, Busy2
<1>9. ASSUME others2 = 0, policy2 = "keep_both"
      PROVE  DownNumbered'
  <2>1. DownNumbered /\ placed2' = placed2 /\ DOMAIN tree2 \subseteq DOMAIN tree2'
    BY <1>1, <1>4, <1>6, <1>9 DEF DownInv
  <2>2. PICK n \in Nat : item2.dst = Numbered(Asked2(item2.src), n) /\ Taken2(Asked2(item2.src), n)
    BY <1>2, <2>1 DEF DownNumbered
  <2>3. Asked2(item2.src)' = Asked2(item2.src)
    BY <1>4 DEF Asked2
  <2>4. Taken2(Asked2(item2.src), n)'
    BY <2>1, <2>2, <2>3 DEF Taken2, Exists
  <2> QED BY <1>4, <2>1, <2>2, <2>3, <2>4, NumberedStays DEF DownNumbered
<1> QED BY <1>1, <1>2, <1>4, <1>5, <1>7, <1>8, <1>9, DownStaysInv

\* The number of what is placed is the first that was free.
LEMMA PlacedNumbered ==
  ASSUME Walk2, ItemPlaced2, Busy2, DownNumbered, step2 \in {"mkdir", "copy"}, step2' = "next",
         item2.src \notin DOMAIN placed2, placed2' = With(placed2, item2.src, item2.dst),
         DOMAIN tree2 \subseteq DOMAIN tree2', item2.dst \in DOMAIN tree2',
         \A s \in DOMAIN placed2 : placed2[s] # Theirs
  PROVE  DownNumbered'
<1>1. /\ DOMAIN placed2' = DOMAIN placed2 \cup {item2.src} /\ placed2'[item2.src] = item2.dst
      /\ \A s \in DOMAIN placed2 : placed2'[s] = placed2[s]
  BY DEF With
<1>2. ASSUME NEW s, s = Root \/ Parent(s) \in DOMAIN placed2
      PROVE  Asked2(s)' = Asked2(s)
  BY <1>1, <1>2 DEF Asked2
<1>3. \A s \in DOMAIN placed2 : s = Root \/ Parent(s) \in DOMAIN placed2
  BY DEF Walk2, PlacedTogether2
<1>4. item2.src = Root \/ Parent(item2.src) \in DOMAIN placed2
  <2>1. ASSUME NEW d \in DOMAIN placed2, item2.src \in Children(source2, d)
        PROVE  Parent(item2.src) = d
    BY <2>1, ParentOfChild DEF Walk2, Call2, PlacedTogether2
  <2> QED BY <2>1 DEF ItemPlaced2
<1>5. \A p : \A n \in Nat : Taken2(p, n) => Taken2(p, n)'
  BY DEF Taken2, Exists
<1>6. ASSUME NEW s \in DOMAIN placed2
      PROVE  \E n \in Nat : placed2'[s] = Numbered(Asked2(s), n)' /\ Taken2(Asked2(s), n + 1)'
  <2>1. PICK n \in Nat : placed2[s] = Numbered(Asked2(s), n) /\ Taken2(Asked2(s), n + 1)
    BY DEF DownNumbered
  <2>2. Asked2(s)' = Asked2(s)
    BY <1>2, <1>3
  <2>3. Taken2(Asked2(s), n + 1)'
    BY <2>1, <2>2 DEF Taken2, Exists
  <2> QED BY <1>1, <2>1, <2>2, <2>3
<1>7. ASSUME NEW s, s = item2.src
      PROVE  \E n \in Nat : placed2'[s] = Numbered(Asked2(s), n)' /\ Taken2(Asked2(s), n + 1)'
  <2>1. PICK n \in Nat : item2.dst = Numbered(Asked2(s), n) /\ Taken2(Asked2(s), n)
    BY <1>7 DEF DownNumbered
  <2>2. Asked2(s)' = Asked2(s)
    BY <1>2, <1>4, <1>7
  <2>3. \A m \in Nat : m < n + 1 => m < n \/ m = n
    OBVIOUS
  <2>4. Taken2(Asked2(s), n + 1)'
    BY <2>1, <2>2, <2>3 DEF Taken2, Exists
  <2> QED BY <1>1, <1>7, <2>1, <2>2, <2>4
<1> QED BY <1>1, <1>6, <1>7 DEF DownNumbered

LEMMA DownReadInv == DownInv /\ Down!ReadDirectory => DownInv'
<1>1. SUFFICES ASSUME DownInv, Down!ReadDirectory
               PROVE  DownInv'
  OBVIOUS
<1>2. /\ step2 = "mkdir" /\ Busy2 /\ DownItem /\ TreeOK(tree2) /\ Walk2 /\ ItemPlaced2 /\ Undisturbed2
      /\ IsDir(tree2, item2.dst) /\ IsDir(source2, item2.src) /\ Todo2
  BY <1>1, DownTrees DEF Down!ReadDirectory, Busy2, DownInv
<1>3. /\ SameCall2 /\ bytes2' = bytes2 /\ UNCHANGED <<result2, item2, tree2, protocol2>> /\ step2' = "next"
      /\ stack2' = Append(stack2, [path |-> item2.dst, todo |-> Children(source2, item2.src)])
      /\ placed2' = With(placed2, item2.src, item2.dst)
  BY <1>1, DownTrees DEF Down!ReadDirectory, Down!call, SameCall2
<1>4. Walk2' /\ item2.src \notin DOMAIN placed2
  BY <1>2, <1>3, EntersDirectory2
<1>5. ItemPlaced2'
  <2>1. step2' \in {"next", "done"} /\ UNCHANGED <<source2, item2>>
    BY <1>3 DEF SameCall2
  <2> QED BY <1>2, <2>1, NextPlaced2
<1>6. DownItem' /\ DownRelies'
  BY <1>2, <1>3 DEF DownItem, Down!Steps, SameCall2, Busy2, DownRelies
<1>7. Todo2'
  <2>1. result2' = "none" /\ Walks(source2, Now2, stack2, placed2)'
    BY <1>3, <1>4, <1>2 DEF Walk2, Walking2, Call2, Busy2
  <2>2. \A i \in DOMAIN stack2' : stack2'[i].todo \subseteq DOMAIN source2'
    BY <2>1, WalkPaths
  <2> QED BY <2>2 DEF Todo2
<1>8. Undisturbed2'
  <2>1. SUFFICES ASSUME others2 = 0
                 PROVE  Whole(source2, placed2, tree2)' /\ SkippedIfTold2'
    BY <1>3 DEF Undisturbed2, SameCall2
  <2>2. /\ item2.dst \in DOMAIN tree2 /\ tree2[item2.dst].kind = source2[item2.src].kind
        /\ tree2[item2.dst].size = source2[item2.src].size
    <3>1. source2 \in Sources /\ item2.src \in DOMAIN source2
      BY <1>2 DEF Walk2, Call2, ItemPlaced2
    <3>2. IsEntry(tree2[item2.dst])
      BY <1>2 DEF TreeOK, IsDir, Exists
    <3>3. tree2[item2.dst].size = 0
      BY <1>2, <3>2, DirHasNoSize
    <3>4. source2[item2.src].kind = "dir" /\ source2[item2.src].size = 0
      BY <1>2, <3>1, SizeIsNat
    <3> QED BY <1>2, <3>3, <3>4 DEF IsDir, Exists
  <2>3. Whole(source2, placed2', tree2)
    BY <1>2, <1>3, <2>1, <2>2, WholeIfPlaced DEF Undisturbed2
  <2>4. item2.dst # Theirs
    BY <1>2 DEF ItemPlaced2, Named
  <2>5. SkippedIfTold2'
    BY <1>2, <1>3, <2>1, <2>4 DEF Undisturbed2, SkippedIfTold2, With, SameCall2
  <2> QED BY <1>3, <2>3, <2>5 DEF SameCall2
<1>9. ASSUME others2 = 0, policy2 = "keep_both"
      PROVE  DownNumbered'
  <2>1. DownNumbered /\ \A s \in DOMAIN placed2 : placed2[s] # Theirs
    BY <1>1, <1>9 DEF DownInv, Undisturbed2, SkippedIfTold2
  <2>2. DOMAIN tree2 \subseteq DOMAIN tree2' /\ item2.dst \in DOMAIN tree2'
    BY <1>2, <1>3 DEF IsDir, Exists
  <2> QED BY <1>2, <1>3, <1>4, <2>1, <2>2, PlacedNumbered
<1> QED BY <1>2, <1>3, <1>4, <1>5, <1>6, <1>7, <1>8, <1>9 DEF DownInv, SameCall2

LEMMA DownCopyInv == DownInv /\ Down!Copy => DownInv'
<1>1. SUFFICES ASSUME DownInv, Down!Copy
               PROVE  DownInv'
  OBVIOUS
<1>2. /\ step2 = "copy" /\ Busy2 /\ DownItem /\ TreeOK(tree2) /\ Walk2 /\ ItemPlaced2 /\ Undisturbed2
      /\ Todo2 /\ item2.src \in DOMAIN source2 /\ source2 \in Sources /\ bytes2 \in Nat
      /\ ~IsDir(source2, item2.src)
  BY <1>1 DEF Down!Copy, Busy2, DownInv, DownItem, ItemPlaced2, Walk2, Call2, IsFile, IsDir
<1>3. source2[item2.src].size \in Nat /\ source2[item2.src].kind = "file"
  BY <1>2, SizeIsNat
<1>4. /\ SameCall2 /\ UNCHANGED <<result2, item2, stack2, protocol2>> /\ step2' = "next"
      /\ placed2' = With(placed2, item2.src, item2.dst) /\ bytes2' \in Nat
      /\ tree2' = IF IsFile(tree2, item2.dst) /\ tree2[item2.dst].of = Down!Mark(item2.src)
                    THEN With(tree2, item2.dst, File(Down!Mark(item2.src), source2[item2.src].size))
                    ELSE tree2
  BY <1>1, <1>2, <1>3, DownTrees DEF Down!Copy, Down!call, SameCall2, Down!BytesAfter
<1>5. TreeOK(tree2')
  <2>1. IsSequence(item2.dst)
    BY <1>2 DEF ItemPlaced2, Named
  <2>2. IsEntry(File(Down!Mark(item2.src), source2[item2.src].size))
    BY <1>3, EntriesAre
  <2> QED BY <1>2, <1>4, <2>1, <2>2, WithKeeps
<1>6. Walk2' /\ item2.src \notin DOMAIN placed2
  BY <1>2, <1>4, PlacesFile2
<1>7. ItemPlaced2'
  <2>1. step2' \in {"next", "done"} /\ UNCHANGED <<source2, item2>>
    BY <1>4 DEF SameCall2
  <2> QED BY <1>2, <2>1, NextPlaced2
<1>8. DownItem' /\ DownRelies' /\ Todo2'
  BY <1>2, <1>4 DEF DownItem, Down!Steps, SameCall2, Busy2, DownRelies, Todo2
<1>9. ASSUME others2 = 0
      PROVE  /\ tree2' = With(tree2, item2.dst, File(Down!Mark(item2.src), source2[item2.src].size))
             /\ item2.dst \in DOMAIN tree2
             /\ \A s \in DOMAIN placed2 : placed2[s] # item2.dst
  BY <1>1, <1>2, <1>4, <1>9 DEF DownInv, DownRelies, IsFile, Exists
<1>10. ASSUME others2 = 0
       PROVE  /\ DOMAIN tree2' = DOMAIN tree2
              /\ tree2'[item2.dst] = File(Down!Mark(item2.src), source2[item2.src].size)
  BY <1>9, <1>10 DEF With
<1>11. Undisturbed2'
  <2>1. SUFFICES ASSUME others2 = 0
                 PROVE  Whole(source2, placed2, tree2)' /\ SkippedIfTold2'
    BY <1>4 DEF Undisturbed2, SameCall2
  <2>2. /\ item2.dst \in DOMAIN tree2' /\ tree2'[item2.dst].kind = source2[item2.src].kind
        /\ tree2'[item2.dst].size = source2[item2.src].size
    BY <1>3, <1>9, <1>10, <2>1, EntriesAre
  <2>3. Whole(source2, placed2, tree2')
    BY <1>2, <1>9, <2>1, WholeIfElsewhere DEF Undisturbed2
  <2>4. Whole(source2, placed2', tree2')
    BY <1>4, <2>2, <2>3, WholeIfPlaced
  <2>5. item2.dst # Theirs
    BY <1>2 DEF ItemPlaced2, Named
  <2>6. SkippedIfTold2'
    BY <1>2, <1>4, <2>1, <2>5 DEF Undisturbed2, SkippedIfTold2, With, SameCall2
  <2> QED BY <1>4, <2>4, <2>6 DEF SameCall2
<1>12. ASSUME others2 = 0, policy2 = "keep_both"
       PROVE  DownNumbered'
  <2>1. DownNumbered /\ \A s \in DOMAIN placed2 : placed2[s] # Theirs
    BY <1>1, <1>12 DEF DownInv, Undisturbed2, SkippedIfTold2
  <2>2. DOMAIN tree2 \subseteq DOMAIN tree2' /\ item2.dst \in DOMAIN tree2'
    BY <1>9, <1>10, <1>12
  <2> QED BY <1>2, <1>4, <1>6, <2>1, <2>2, PlacedNumbered
<1> QED BY <1>4, <1>5, <1>6, <1>7, <1>8, <1>11, <1>12 DEF DownInv, SameCall2

LEMMA DownEnterInv == DownInv /\ (\E s \in DOMAIN source2 : Down!Enter(s)) => DownInv'
<1>1. SUFFICES ASSUME DownInv, NEW s \in DOMAIN source2, Down!Enter(s)
               PROVE  DownInv'
  OBVIOUS
<1>2. /\ Walk2 /\ step2 = "next" /\ stack2 # <<>> /\ s \in Last(stack2).todo /\ SameCall2 /\ bytes2' = bytes2
      /\ UNCHANGED <<placed2, result2, tree2, protocol2>>
      /\ step2' = IF protocol2 = "ftp" /\ IsDir(source2, s) THEN "probe" ELSE "resolve"
      /\ item2' = [src |-> s, dst |-> Append(Last(stack2).path, Last(s)), n |-> 0,
                   isDir |-> IsDir(source2, s)]
      /\ stack2' = Append(Front(stack2), [Last(stack2) EXCEPT !.todo = @ \ {s}])
  BY <1>1, DownTrees
     DEF DownInv, Down!Enter, Down!ToDo, Down!call, SameCall2, Down!Last, Last, Down!Front, Front
<1>3. item2'.src = s /\ item2'.dst = Append(Last(stack2).path, Last(s)) /\ step2' \notin {"next", "done"}
  BY <1>2
<1>4. Walk2' /\ ItemPlaced2' /\ s # Root /\ Last(stack2).path = placed2[Parent(s)]
  BY <1>2, <1>3, EntersChild2
<1>5. DownItem'
  <2>1. DownItem
    BY <1>1 DEF DownInv
  <2>2. IsDir(source2, s) \in BOOLEAN
    BY DEF IsDir, Exists
  <2>3. /\ DOMAIN item2' = {"src", "dst", "n", "isDir"} /\ item2'.n = 0
        /\ item2'.isDir = IsDir(source2, s)
    BY <1>2
  <2> QED BY <1>2, <1>3, <2>1, <2>2, <2>3 DEF DownItem, Down!Steps, SameCall2, Busy2
<1>6. Undisturbed2' /\ DownRelies' /\ TreeOK(tree2)'
  BY <1>1, <1>2 DEF DownInv, Undisturbed2, SkippedIfTold2, DownRelies, SameCall2
<1>7. Todo2'
  <2>1. Walks(source2, Now2, stack2, placed2)'
    BY <1>2, <1>4 DEF Walk2, Walking2, Call2, Busy2
  <2>2. \A i \in DOMAIN stack2' : stack2'[i].todo \subseteq DOMAIN source2'
    BY <2>1, WalkPaths
  <2> QED BY <2>2 DEF Todo2
<1>8. ASSUME others2 = 0, policy2 = "keep_both"
      PROVE  DownNumbered'
  <2>1. DownNumbered /\ placed2' = placed2 /\ DOMAIN tree2 \subseteq DOMAIN tree2'
    BY <1>1, <1>2, <1>8 DEF DownInv
  <2>2. item2'.dst = Asked2(item2.src)'
    BY <1>2, <1>3, <1>4 DEF Asked2
  <2> QED BY <1>2, <2>1, <2>2, NumberedStays DEF DownNumbered
<1> QED BY <1>2, <1>4, <1>5, <1>6, <1>7, <1>8 DEF DownInv, SameCall2

LEMMA DownLeaveInv == DownInv /\ Down!Leave => DownInv'
<1>1. SUFFICES ASSUME DownInv, Down!Leave
               PROVE  DownInv'
  OBVIOUS
<1>2. /\ Walk2 /\ step2 = "next" /\ SameCall2 /\ bytes2' = bytes2
      /\ UNCHANGED <<placed2, item2, tree2, protocol2>>
      /\ \/ /\ stack2 # <<>> /\ Last(stack2).todo = {} /\ stack2' = Front(stack2)
            /\ UNCHANGED <<step2, result2>>
         \/ stack2 = <<>> /\ step2' = "done" /\ result2' = "ok" /\ UNCHANGED stack2
  BY <1>1 DEF DownInv, Down!Leave, Down!call, SameCall2, Down!Last, Last, Down!Front, Front
<1>3. Walk2'
  BY <1>2, Leaves2
<1>4. ItemPlaced2'
  <2>1. ItemPlaced2 /\ step2' \in {"next", "done"} /\ UNCHANGED <<source2, item2>>
    BY <1>1, <1>2 DEF DownInv, SameCall2
  <2> QED BY <2>1, NextPlaced2
<1>5. step2' \in {"next", "done"}
  BY <1>2
<1>6. DownItem'
  BY <1>1, <1>2, <1>5 DEF DownInv, DownItem, Down!Steps, SameCall2, Busy2
<1>7. Undisturbed2' /\ DownRelies' /\ TreeOK(tree2)'
  BY <1>1, <1>2, <1>5 DEF DownInv, Undisturbed2, SkippedIfTold2, DownRelies, SameCall2
<1>8. Todo2'
  <2>1. Walks(source2, Now2, stack2, placed2)'
    BY <1>2, <1>3 DEF Walk2, Walking2, Call2
  <2>2. \A i \in DOMAIN stack2' : stack2'[i].todo \subseteq DOMAIN source2'
    BY <2>1, WalkPaths
  <2> QED BY <2>2 DEF Todo2
<1>9. ASSUME others2 = 0, policy2 = "keep_both"
      PROVE  DownNumbered'
  <2>1. DownNumbered /\ placed2' = placed2 /\ DOMAIN tree2 \subseteq DOMAIN tree2'
    BY <1>1, <1>2, <1>9 DEF DownInv
  <2> QED BY <1>5, <2>1, NumberedStays DEF DownNumbered
<1> QED BY <1>2, <1>3, <1>4, <1>6, <1>7, <1>8, <1>9 DEF DownInv, SameCall2

LEMMA DownOthersInv == DownInv /\ Down!Other /\ protocol2' = protocol2 => DownInv'
<1>1. SUFFICES ASSUME DownInv, Down!Other
               PROVE  DownInv'
  BY DEF Down!Other, Down!call
<1>2. /\ others2' = others2 + 1 /\ others2 \in Nat /\ Walk2 /\ ItemPlaced2 /\ TreeOK(tree2) /\ DownItem
      /\ UNCHANGED <<source2, policy2, protocol2, step2, item2, stack2, placed2, bytes2, result2>>
  BY <1>1 DEF DownInv, Down!Other, Down!call, Walk2, Call2
<1>3. Walk2' /\ ItemPlaced2'
  BY <1>2, OthersWalk2
<1>4. others2' # 0
  BY <1>2
<1>5. PICK p \in ContestedHere : Down!OtherWrites(p) \/ Down!OtherRemoves(p)
  BY <1>1 DEF Down!Other
<1>6. IsSequence(p) /\ p # Root
  BY TransfersAssumption
<1>7. /\ TreeOK(tree2')
      /\ \A q : IsDir(tree2', q) => IsDir(tree2, q)
  <2>1. CASE Down!OtherWrites(p)
    <3>1. CanAdd(tree2, p) /\ tree2' = With(tree2, p, File(Theirs, 0))
      BY <2>1, DownTrees DEF Down!OtherWrites
    <3>2. IsEntry(File(Theirs, 0)) /\ File(Theirs, 0).kind = "file"
      BY EntriesAre
    <3>3. TreeOK(tree2')
      BY <1>2, <1>6, <3>1, <3>2, WithKeeps
    <3>4. \A q : IsDir(tree2', q) => IsDir(tree2, q)
      BY <3>1, <3>2 DEF With, IsDir, Exists
    <3> QED BY <3>3, <3>4
  <2>2. CASE Down!OtherRemoves(p)
    <3>1. tree2' = Without(tree2, p)
      BY <2>2, DownTrees DEF Down!OtherRemoves
    <3>2. \A q : IsDir(tree2', q) => IsDir(tree2, q)
      BY <3>1 DEF Without, Below, IsDir, Exists
    <3> QED BY <1>2, <1>6, <3>1, <3>2, WithoutKeeps
  <2> QED BY <1>5, <2>1, <2>2
<1>8. DownItem'
  BY <1>2, <1>7 DEF DownItem, Busy2
<1>9. Todo2'
  BY <1>1, <1>2 DEF DownInv, Todo2
<1> QED BY <1>3, <1>4, <1>7, <1>8, <1>9 DEF DownInv, Undisturbed2

LEMMA DownUsInv == DownInv /\ Down!Us => DownInv'
<1>1. Down!CallFails => protocol2' = protocol2
  BY DEF Down!CallFails, Down!call
<1> QED
  BY <1>1, DownFailsInv, DownProbesInv, DownResolveInv, DownRemoveInv, DownNumberInv, DownMeasureInv, DownMakeInv,
     DownReadInv, DownEnterInv, DownLeaveInv, DownCreateInv, DownCopyInv DEF Down!Us

LEMMA DownInitInv == Down!Init => DownInv
<1>1. SUFFICES ASSUME Down!Init
               PROVE  DownInv
  OBVIOUS
<1>2. /\ policy2 \in Policies /\ source2 \in Sources /\ tree2 \in Locals /\ others2 = 0
      /\ protocol2 \in Protocols /\ (protocol2 = "scp" /\ ~MayMistake => IsFile(source2, Root))
      /\ step2 = "probe" /\ item2 = [src |-> Root, dst |-> Given, n |-> 0, isDir |-> FALSE]
      /\ stack2 = <<>> /\ placed2 = <<>> /\ bytes2 = 0 /\ result2 = "none"
  BY <1>1, DownTrees DEF Down!Init
<1>3. Call2 /\ Now2 = {Root}
  BY <1>2 DEF Call2, Now2, Busy2
<1>4. Walking2
  BY <1>2, <1>3, WalkStarts DEF Walking2
<1>5. PlacedTogether2 /\ PlacedInPlace2 /\ Todo2
  BY <1>2 DEF PlacedTogether2, PlacedInPlace2, Todo2
<1>6. ItemPlaced2
  <2>1. Root \in DOMAIN source2
    BY <1>2, SourcePaths
  <2>2. Named(Given)
    BY GivensAreNamed
  <2>3. Given \o Root = Given
    BY TransfersAssumption, EmptyPlace DEF IsSequence
  <2> QED BY <1>2, <2>1, <2>2, <2>3 DEF ItemPlaced2
<1>7. TreeOK(tree2)
  BY <1>2, InitialTreesOK
<1>8. Undisturbed2 /\ DownRelies /\ DownNumbered
  BY <1>2 DEF Undisturbed2, Whole, SkippedIfTold2, DownRelies, DownNumbered, Asked2
<1>9. DownItem
  BY <1>2, TransfersAssumption DEF DownItem, Down!Steps, IsFile, IsDir
<1> QED BY <1>3, <1>4, <1>5, <1>6, <1>7, <1>8, <1>9 DEF DownInv, Walk2

-----------------------------------------------------------------------------
(***************************************************************************)
(* Nobody disturbs it: every step of the download is one that Destination  *)
(* allows.                                                                 *)
(***************************************************************************)

LEMMA DownPromisedTrees ==
  /\ \A tree, p : /\ Down!Promised!Exists(tree, p) = Exists(tree, p)
                  /\ Down!Promised!IsDir(tree, p) = IsDir(tree, p)
                  /\ Down!Promised!IsFile(tree, p) = IsFile(tree, p)
                  /\ Down!Promised!CanAdd(tree, p) = CanAdd(tree, p)
                  /\ Down!Promised!Without(tree, p) = Without(tree, p)
  /\ \A tree, p, entry : Down!Promised!With(tree, p, entry) = With(tree, p, entry)
  /\ Down!Promised!Theirs = Theirs
<1>1. Down!Promised!Theirs = Theirs /\ Down!Promised!Root = Root
  BY DEF Down!Promised!Theirs, Theirs, Down!Promised!Root, Root
<1>2. \A p : Down!Promised!Parent(p) = Parent(p)
  BY DEF Down!Promised!Parent, Down!Promised!Front, Parent, Front
<1>3. \A tree, p : /\ Down!Promised!Exists(tree, p) = Exists(tree, p)
                   /\ Down!Promised!IsDir(tree, p) = IsDir(tree, p)
                   /\ Down!Promised!IsFile(tree, p) = IsFile(tree, p)
  BY DEF Down!Promised!Exists, Exists, Down!Promised!IsDir, IsDir, Down!Promised!IsFile, IsFile
<1>4. \A tree, p : Down!Promised!CanAdd(tree, p) = CanAdd(tree, p)
  BY <1>1, <1>2, <1>3 DEF Down!Promised!CanAdd, CanAdd
<1>5. \A tree, p : Down!Promised!Below(tree, p) = Below(tree, p)
  BY DEF Down!Promised!Below, Below, Down!Promised!IsPrefix, IsPrefix
<1>6. \A tree, p : Down!Promised!Without(tree, p) = Without(tree, p)
  BY <1>5 DEF Down!Promised!Without, Without
<1>7. \A tree, p, entry : Down!Promised!With(tree, p, entry) = With(tree, p, entry)
  BY DEF Down!Promised!With, With
<1> QED BY <1>1, <1>3, <1>4, <1>6, <1>7

\* What a step does at the destination, in the words of the trees.
DownTakes == step2 = "remove" /\ \E p \in Below(tree2, item2.dst) : tree2' = Without(tree2, p)
DownAdds ==
  \E first : CanAdd(tree2, first) /\ tree2' = With(tree2, first, Dir(Down!Mark(item2.src)))
DownCreates ==
  /\ step2 = "create" /\ (CanAdd(tree2, item2.dst) \/ IsFile(tree2, item2.dst))
  /\ tree2' = With(tree2, item2.dst, File(Down!Mark(item2.src), 0))
DownFills ==
  /\ step2 = "copy" /\ IsFile(tree2, item2.dst) /\ tree2[item2.dst].of = Down!Mark(item2.src)
  /\ tree2' = With(tree2, item2.dst, File(Down!Mark(item2.src), source2[item2.src].size))
DownActs == UNCHANGED tree2 \/ DownTakes \/ DownAdds \/ DownCreates \/ DownFills

\* What a step does to the call and to what has been placed.
DownGoes ==
  /\ SameCall2 /\ step2 # "done" /\ DOMAIN placed2 \subseteq DOMAIN placed2'
  /\ \/ result2' = result2
     \/ /\ UNCHANGED <<tree2, placed2>>
        /\ \/ result2' = "error"
           \/ result2' = "ok" /\ step2 = "next" /\ stack2 = <<>>

\* A step that goes on in the same directories.
LEMMA DownGoesOn ==
  ASSUME NEW next, Down!GoOn(next), step2 # "done", DOMAIN placed2 \subseteq DOMAIN placed2'
  PROVE  DownGoes
BY DEF Down!GoOn, Down!call, DownGoes, SameCall2

LEMMA DownResolves ==
  ASSUME DownInv, Down!Resolve
  PROVE  DownActs /\ DownGoes
<1>1. step2 = "resolve" /\ step2 # "done"
  BY DownResolveKinds
<1>2. CASE Down!Destined(item2.dst) /\ UNCHANGED <<tree2, placed2>>
  BY <1>1, <1>2, DownGoesOn DEF Down!Destined, DownActs
<1>3. CASE \E next : Down!Look(next)
  BY <1>1, <1>3, DownGoesOn DEF Down!Look, DownActs
<1>4. CASE Down!Skip
  <2>1. DOMAIN placed2 \subseteq DOMAIN placed2'
    BY <1>4, DownTrees DEF Down!Skip
  <2> QED BY <1>1, <1>4, <2>1, DownGoesOn DEF Down!Skip, DownActs
<1> QED BY <1>2, <1>3, <1>4, DownResolveKinds

LEMMA DownRemoves ==
  ASSUME DownInv, Down!RemoveLocal
  PROVE  DownActs /\ DownGoes
<1>1. DownTakes /\ UNCHANGED placed2 /\ (Down!Destined(item2.dst) \/ Down!GoOn("remove"))
  BY DownTrees DEF Down!RemoveLocal, DownTakes
<1> QED BY <1>1, DownGoesOn DEF Down!Destined, DownActs, DownTakes

LEMMA DownMakesMissing ==
  ASSUME DownInv, Down!MakeDirectory \/ Down!MakeParents
  PROVE  DownActs /\ DownGoes
<1>1. PICK path : /\ IsSequence(path) /\ Down!MakeMissing(path) /\ step2 # "done"
  <2>1. Named(item2.dst)
    BY DEF DownInv, ItemPlaced2
  <2>2. IsSequence(item2.dst) /\ item2.dst # Root /\ item2.dst \in Seq(ToSet(item2.dst))
    BY <2>1 DEF Named, IsSequence
  <2>3. Parent(item2.dst) \in Seq(ToSet(item2.dst))
    BY <2>2, ParentAndLast
  <2>4. IsSequence(Parent(item2.dst))
    BY <2>3, InSeqIsSequence
  <2> QED BY <2>2, <2>4, DownTrees DEF Down!MakeDirectory, Down!MakeParents
<1>2. PICK first : /\ CanAdd(tree2, first)
                   /\ tree2' = With(tree2, first, Dir(Down!Mark(item2.src)))
                   /\ UNCHANGED <<item2, placed2>> /\ Down!GoOn(step2)
  BY <1>1, DownMakes
<1> QED BY <1>1, <1>2, DownGoesOn DEF DownActs, DownAdds

LEMMA DownReads ==
  ASSUME DownInv, Down!ReadDirectory
  PROVE  DownActs /\ DownGoes
<1>1. /\ step2 = "mkdir" /\ placed2' = With(placed2, item2.src, item2.dst)
      /\ SameCall2 /\ UNCHANGED <<tree2, result2>>
  BY DownTrees DEF Down!ReadDirectory, Down!call, SameCall2
<1>2. DOMAIN placed2 \subseteq DOMAIN placed2'
  BY <1>1 DEF With
<1> QED BY <1>1, <1>2 DEF DownActs, DownGoes

LEMMA DownCopies ==
  ASSUME DownInv, Down!CreateLocal \/ Down!Copy
  PROVE  DownActs /\ DownGoes
<1>1. CASE Down!CreateLocal
  <2>1. DownCreates /\ Down!GoOn("copy") /\ UNCHANGED placed2 /\ step2 # "done"
    BY <1>1, DownTrees DEF Down!CreateLocal, Down!MayCreate, DownCreates
  <2> QED BY <2>1, DownGoesOn DEF DownActs
<1>2. CASE Down!Copy
  <2>1. /\ step2 = "copy" /\ placed2' = With(placed2, item2.src, item2.dst)
        /\ SameCall2 /\ UNCHANGED result2
    BY <1>2, DownTrees DEF Down!Copy, Down!call, SameCall2
  <2>2. DOMAIN placed2 \subseteq DOMAIN placed2'
    BY <2>1 DEF With
  <2>3. DownFills \/ UNCHANGED tree2
    BY <1>2, DownTrees DEF Down!Copy, DownFills
  <2> QED BY <2>1, <2>2, <2>3 DEF DownActs, DownGoes
<1> QED BY <1>1, <1>2

LEMMA DownUsActs ==
  ASSUME DownInv, Down!Us
  PROVE  DownActs /\ DownGoes
<1>1. CASE Down!CallFails
  BY <1>1 DEF Down!CallFails, Down!call, DownActs, DownGoes, SameCall2
<1>2. CASE Down!StatSource \/ Down!ListSource \/ Down!TakeForFile \/ Down!Measure \/ Down!OpenRemote
  <2>1. PICK next : Down!Look(next) /\ step2 # "done"
    BY <1>2 DEF Down!StatSource, Down!ListSource, Down!TakeForFile, Down!Measure, Down!OpenRemote
  <2> QED BY <2>1, DownGoesOn DEF Down!Look, DownActs
<1>3. CASE Down!NumberLocal
  <2>1. PICK next : Down!GoOn(next) /\ UNCHANGED <<tree2, placed2>> /\ step2 # "done"
    BY <1>3 DEF Down!NumberLocal, Down!Look, Down!Destined
  <2> QED BY <2>1, DownGoesOn DEF DownActs
<1>4. CASE (\E s \in DOMAIN source2 : Down!Enter(s)) \/ Down!Leave
  <2>1. UNCHANGED <<tree2, placed2>> /\ SameCall2 /\ step2 = "next"
    BY <1>4 DEF Down!Enter, Down!Leave, Down!call, SameCall2
  <2>2. result2' = result2 \/ (result2' = "ok" /\ stack2 = <<>>)
    BY <1>4 DEF Down!Enter, Down!Leave
  <2> QED BY <2>1, <2>2 DEF DownActs, DownGoes
<1> QED BY <1>1, <1>2, <1>3, <1>4, DownResolves, DownRemoves, DownMakesMissing, DownReads, DownCopies
        DEF Down!Us

LEMMA DownMarks == \A s \in DOMAIN source2 : DownInv => Down!Mark(s) # Theirs
<1>1. SUFFICES ASSUME DownInv, NEW s \in DOMAIN source2
               PROVE  Down!Mark(s) # Theirs
  OBVIOUS
<1>2. s \in Seq(ToSet(s))
  BY <1>1, TransfersAssumption DEF DownInv, Walk2, Call2, IsSequence
<1> DEFINE x == <<"new">>
<1>3. x # <<"-">>
  OBVIOUS
<1> HIDE DEF x
<1>4. Last(Append(s, x)) = x
  BY <1>2, LastAdded
<1>5. Last(Theirs) = <<"-">>
  BY DEF Theirs, Last
<1>6. Down!Mark(s) = Append(s, x)
  BY DEF Down!Mark, x
<1> QED BY <1>3, <1>4, <1>5, <1>6, Zenon

\* What the item gives way to, under Replace: never a directory for a directory.
LEMMA DownMayTake ==
  ASSUME DownInv, step2 = "remove", ~MayMistake
  PROVE  /\ policy2 = "replace" /\ item2.dst = Given \o item2.src /\ item2.src \in DOMAIN source2
         /\ ~(IsDir(source2, item2.src) /\ IsDir(tree2, item2.dst))
<1>1. policy2 = "replace" /\ Busy2 /\ Walk2 /\ ItemPlaced2 /\ DownItem
  BY DEF DownInv, DownItem, Busy2
<1>2. item2.isDir = IsDir(source2, item2.src) /\ ~(item2.isDir /\ IsDir(tree2, item2.dst))
  BY <1>1 DEF DownItem
<1> QED BY <1>1, <1>2, ReplacedIsNotPlaced2 DEF ItemPlaced2

DownRewrites2(p) ==
  IsFile(tree2, p) /\ tree2[p].of # Theirs /\ tree2' = With(tree2, p, tree2'[p])
DownWrites2 ==
  \/ UNCHANGED tree2
  \/ \E p \in DOMAIN tree2' : (Adds2(p) \/ DownRewrites2(p)) /\ tree2'[p].of # Theirs
  \/ \E p \in DOMAIN tree2 : Takes2(p)

LEMMA DownWriteIsPromised ==
  ASSUME SameCall2, DownWrites2, result2 = "none", result2' = "none",
         DOMAIN placed2 \subseteq DOMAIN placed2', DOMAIN placed2' \subseteq DOMAIN source2
  PROVE  Down!Promised!Next
<1>1. \A p : /\ Adds2(p) => Down!Promised!Add(p)
             /\ DownRewrites2(p) => Down!Promised!Rewrite(p)
             /\ Takes2(p) => Down!Promised!Take(p)
  <2>1. \A p : MayTake2(p) => Down!Promised!MayTake(p)
    BY DownPromisedTrees DEF MayTake2, Down!Promised!MayTake
  <2>4. \A p : MayClear2(p) => Down!Promised!MayClear(p)
    BY <2>1 DEF MayClear2, Down!Promised!MayClear, IsPrefix, Down!Promised!IsPrefix
  <2>2. \A p : DownRewrites2(p) => Down!Promised!Ours(p)
    BY DownPromisedTrees DEF DownRewrites2, Down!Promised!Ours, IsFile
  <2>3. \A p : DownRewrites2(p) => Down!Promised!Rewrite(p)
    BY <2>2, DownPromisedTrees DEF DownRewrites2, Down!Promised!Rewrite
  <2> QED BY <2>3, <2>4, DownPromisedTrees DEF Adds2, Takes2, Down!Promised!Add, Down!Promised!Take
<1>2. \/ UNCHANGED tree2
      \/ \E p \in DOMAIN tree2' : (Down!Promised!Add(p) \/ Down!Promised!Rewrite(p)) /\ tree2'[p].of # Theirs
      \/ \E p \in DOMAIN tree2 : Down!Promised!Take(p)
  BY <1>1 DEF DownWrites2
<1>3. Down!Promised!Write
  BY <1>2, DownPromisedTrees DEF Down!Promised!Write, SameCall2
<1> QED BY <1>3 DEF Down!Promised!Next

LEMMA DownWrites ==
  ASSUME DownInv, DownActs, others2 = 0, ~MayMistake
  PROVE  DownWrites2
<1>1. item2.src \in DOMAIN source2 /\ Down!Mark(item2.src) # Theirs
  BY DownMarks DEF DownInv, ItemPlaced2
<1>2. CASE UNCHANGED tree2
  BY <1>2 DEF DownWrites2
<1>3. CASE DownTakes
  <2>1. PICK p \in Below(tree2, item2.dst) : step2 = "remove" /\ tree2' = Without(tree2, p)
    BY <1>3 DEF DownTakes
  <2>2. Walk2 /\ ItemPlaced2 /\ Busy2 /\ TreeOK(tree2)
    BY <2>1 DEF DownInv, Busy2
  <2>3. p \in DOMAIN tree2 /\ Takes2(p)
    BY <2>1, <2>2, DownMayTake, ClearsItem2
  <2> QED BY <2>3 DEF DownWrites2
<1>4. CASE DownAdds
  <2>1. PICK first : CanAdd(tree2, first) /\ tree2' = With(tree2, first, Dir(Down!Mark(item2.src)))
    BY <1>4 DEF DownAdds
  <2>2. first \in DOMAIN tree2' /\ tree2'[first] = Dir(Down!Mark(item2.src))
    BY <2>1 DEF With
  <2>3. tree2'[first].of # Theirs
    BY <1>1, <2>2, EntriesAre
  <2> QED BY <2>1, <2>2, <2>3 DEF DownWrites2, Adds2
<1>5. CASE DownCreates
  <2>1. CanAdd(tree2, item2.dst)
    BY <1>5 DEF DownCreates, DownInv, DownRelies, IsFile
  <2>2. /\ tree2' = With(tree2, item2.dst, File(Down!Mark(item2.src), 0))
        /\ item2.dst \in DOMAIN tree2' /\ tree2'[item2.dst] = File(Down!Mark(item2.src), 0)
    BY <1>5 DEF DownCreates, With
  <2>3. tree2'[item2.dst].of # Theirs
    BY <1>1, <2>2, EntriesAre
  <2> QED BY <2>1, <2>2, <2>3 DEF DownWrites2, Adds2
<1>6. CASE DownFills
  <2>1. source2[item2.src].size \in Nat
    BY <1>1, SizeIsNat DEF DownInv, Walk2, Call2
  <2>2. /\ tree2' = With(tree2, item2.dst, File(Down!Mark(item2.src), source2[item2.src].size))
        /\ item2.dst \in DOMAIN tree2'
        /\ tree2'[item2.dst] = File(Down!Mark(item2.src), source2[item2.src].size)
    BY <1>6 DEF DownFills, With
  <2>3. tree2'[item2.dst].of # Theirs
    BY <1>1, <2>1, <2>2, EntriesAre
  <2>4. DownRewrites2(item2.dst)
    BY <1>1, <1>6, <2>2 DEF DownFills, DownRewrites2
  <2> QED BY <2>2, <2>3, <2>4 DEF DownWrites2
<1> QED BY <1>2, <1>3, <1>4, <1>5, <1>6 DEF DownActs

LEMMA DownStepIsPromised ==
  DownInv /\ DownInv' /\ (Down!Us \/ Down!Other) /\ ~MayMistake => Down!StepPromised
<1>1. SUFFICES ASSUME DownInv, DownInv', Down!Us \/ Down!Other, others2' = 0, ~MayMistake
               PROVE  [Down!Promised!Next]_(Down!Promised!vars)
  BY DEF Down!StepPromised
<1>2. Down!Us
  BY <1>1 DEF Down!Other, DownInv, Walk2, Call2
<1>3. DownActs /\ DownGoes
  BY <1>1, <1>2, DownUsActs
<1>4. SameCall2 /\ result2 = "none" /\ others2 = 0
  BY <1>1, <1>3 DEF DownGoes, SameCall2, DownInv, Walk2, Call2
<1>5. CASE result2' = "none"
  <2>1. DOMAIN placed2 \subseteq DOMAIN placed2'
    BY <1>3 DEF DownGoes
  <2>2. DOMAIN placed2' \subseteq DOMAIN source2
    BY <1>1, <1>4 DEF DownInv, Walk2, PlacedTogether2, SameCall2
  <2>3. DownWrites2
    BY <1>1, <1>3, <1>4, DownWrites
  <2> QED BY <1>4, <1>5, <2>1, <2>2, <2>3, DownWriteIsPromised
<1>6. CASE result2' # "none"
  <2>1. /\ UNCHANGED <<tree2, placed2>>
        /\ \/ result2' = "error"
           \/ result2' = "ok" /\ step2 = "next" /\ stack2 = <<>>
    BY <1>3, <1>4, <1>6 DEF DownGoes
  <2>2. result2' = "ok" => DOMAIN placed2 = DOMAIN source2
    BY <1>1, <1>6, <2>1, EndsWithAll2 DEF DownInv
  <2>3. Down!Promised!Finish
    BY <1>4, <2>1, <2>2 DEF Down!Promised!Finish, SameCall2
  <2> QED BY <2>3 DEF Down!Promised!Next
<1> QED BY <1>5, <1>6

\* A directory stays if what is written over is a file.
LEMMA DirsStay ==
  ASSUME NEW tree, NEW p, NEW entry, ~IsDir(tree, p), NEW q, IsDir(tree, q)
  PROVE  IsDir(With(tree, p, entry), q)
BY DEF With, IsDir, Exists

\* What goes with the item is below it; a directory of the source that is below
\* it, and is a directory here, would make both of them directories.
LEMMA DownKeepsDirs ==
  ASSUME DownInv, DownTakes, ~MayMistake,
         NEW s \in DOMAIN source2, IsDir(source2, s), IsDir(tree2, Given \o s)
  PROVE  IsDir(tree2', Given \o s)
<1>1. /\ item2.dst = Given \o item2.src /\ item2.src \in DOMAIN source2 /\ source2 \in Sources
      /\ ~(IsDir(source2, item2.src) /\ IsDir(tree2, item2.dst)) /\ TreeOK(tree2) /\ Named(item2.dst)
  BY DownMayTake DEF DownTakes, DownInv, Walk2, Call2, ItemPlaced2
<1>2. ~IsPrefix(item2.dst, Given \o s)
  <2>1. SUFFICES ASSUME IsPrefix(Given \o item2.src, Given \o s)
                 PROVE  FALSE
    BY <1>1
  <2>2. IsSequence(item2.src) /\ IsSequence(s) /\ IsSequence(Given)
    BY <1>1, TransfersAssumption
  <2> DEFINE S == ToSet(Given) \cup ToSet(item2.src) \cup ToSet(s)
  <2>3. Given \in Seq(S) /\ item2.src \in Seq(S) /\ s \in Seq(S)
    BY <2>2 DEF IsSequence
  <2> HIDE DEF S
  <2>4. IsPrefix(item2.src, s)
    BY <2>1, <2>3, PrefixInPlace
  <2>5. IsDir(source2, item2.src)
    <3>1. s \in Below(source2, item2.src)
      BY <2>4 DEF Below
    <3>2. ~IsDir(source2, item2.src) => s = item2.src
      BY <1>1, <3>1, BelowAFile
    <3> QED BY <3>2
  <2>6. IsDir(tree2, item2.dst)
    <3>1. item2.dst # Given \o s => IsDir(tree2, item2.dst)
      BY <1>1, <2>1, AboveIsDir DEF IsDir, Exists, Named
    <3> QED BY <3>1
  <2> QED BY <1>1, <2>5, <2>6
<1>3. PICK p \in Below(tree2, item2.dst) : tree2' = Without(tree2, p)
  BY DEF DownTakes
<1>4. ~IsPrefix(p, Given \o s)
  <2>1. p \in DOMAIN tree2 /\ IsPrefix(item2.dst, p) /\ Given \o s \in DOMAIN tree2
    BY <1>3 DEF Below, IsDir, Exists
  <2>2. IsSequence(p) /\ IsSequence(Given \o s) /\ IsSequence(item2.dst)
    BY <1>1, <2>1 DEF TreeOK, Named
  <2> DEFINE S == ToSet(p) \cup ToSet(Given \o s) \cup ToSet(item2.dst)
  <2>3. p \in Seq(S) /\ Given \o s \in Seq(S) /\ item2.dst \in Seq(S)
    BY <2>2 DEF IsSequence
  <2> HIDE DEF S
  <2> QED BY <1>2, <2>1, <2>3, PrefixTrans
<1>5. Given \o s \in DOMAIN Without(tree2, p)
  BY <1>4, WithoutFacts DEF IsDir, Exists
<1>6. Without(tree2, p)[Given \o s] = tree2[Given \o s]
  BY <1>5, WithoutFacts
<1> QED BY <1>3, <1>5, <1>6 DEF IsDir, Exists

LEMMA DownKeepsMatching ==
  DownInv /\ (Down!Us \/ Down!Other) /\ ~MayMistake => Down!MatchingDirectoryKept
<1>1. SUFFICES ASSUME DownInv, Down!Us, ~MayMistake,
                      NEW s \in DOMAIN source2, IsDir(source2, s), IsDir(tree2, Given \o s)
               PROVE  IsDir(tree2', Given \o s)
  <2>1. Down!Other => others2' # others2
    BY DEF Down!Other, DownInv, Walk2, Call2
  <2> QED BY <2>1, DownTrees DEF Down!MatchingDirectoryKept
<1>2. DownActs
  BY <1>1, DownUsActs
<1>3. \A p : CanAdd(tree2, p) \/ IsFile(tree2, p) => ~IsDir(tree2, p)
  BY DEF CanAdd, IsFile, IsDir
<1>4. CASE DownTakes
  BY <1>1, <1>4, DownKeepsDirs
<1>5. CASE DownAdds
  BY <1>1, <1>3, <1>5, DirsStay DEF DownAdds
<1>6. CASE DownCreates \/ DownFills
  BY <1>1, <1>3, <1>6, DirsStay DEF DownCreates, DownFills
<1> QED BY <1>1, <1>2, <1>4, <1>5, <1>6 DEF DownActs

-----------------------------------------------------------------------------

\* A name has another spelling under every number.
LEMMA NumbersApart ==
  ASSUME NEW p, Named(p), NEW m \in Nat, NEW n \in Nat, m # n
  PROVE  Numbered(p, m) # Numbered(p, n)
<1>1. p \in Seq(ToSet(p)) /\ p # Root /\ Last(p) \in Seq(ToSet(Last(p)))
  BY DEF Named, IsSequence
<1> DEFINE x == Last(p)
           S == ToSet(x)
           len == Len(x)
<1>2. x \in Seq(S) /\ len \in Nat
  BY <1>1
<1>3. Numbered(p, 0) = p
  BY DEF Numbered
<1> HIDE DEF x, S
<1>4. ASSUME NEW k \in Nat, k # 0
      PROVE  Last(Numbered(p, k)) = Append(x, k)
  <2>1. Numbered(p, k) = Append(Parent(p), Append(x, k))
    BY <1>4 DEF Numbered, Parent, x
  <2>2. Parent(p) \in Seq(ToSet(p))
    BY <1>1, ParentAndLast
  <2> QED BY <2>1, <2>2, LastAdded
<1>5. ASSUME NEW k \in Nat
      PROVE  Last(Append(x, k)) = k /\ Len(Append(x, k)) = len + 1
  BY <1>2, LastAdded
<1>6. ASSUME NEW k \in Nat, k # 0
      PROVE  Numbered(p, k) # p
  <2>1. Len(Append(x, k)) # len
    BY <1>2, <1>5
  <2>2. Append(x, k) # x
    BY <2>1
  <2> QED BY <1>4, <1>6, <2>2 DEF x
<1>7. CASE m = 0 \/ n = 0
  BY <1>3, <1>6, <1>7
<1>8. CASE m # 0 /\ n # 0
  <2>1. Append(x, m) # Append(x, n)
    BY <1>5
  <2> QED BY <1>4, <1>8, <2>1
<1> QED BY <1>7, <1>8

\* A finite tree has no more numbered names than paths.
LEMMA NumbersFit ==
  ASSUME NEW tree, TreeOK(tree), NEW p, Named(p), NEW n \in Nat,
         \A m \in 0..n : Exists(tree, Numbered(p, m))
  PROVE  n \in 0..Cardinality(DOMAIN tree)
<1> DEFINE f == [m \in 0..n |-> Numbered(p, m)]
<1>1. f \in Injection(0..n, DOMAIN tree)
  <2>1. f \in [0..n -> DOMAIN tree]
    BY DEF Exists
  <2>2. \A i, j \in 0..n : f[i] = f[j] => i = j
    BY NumbersApart
  <2> QED BY <2>1, <2>2 DEF Injection, IsInjective
<1>2. IsFiniteSet(DOMAIN tree)
  BY DEF TreeOK
<1>3. Cardinality(0..n) <= Cardinality(DOMAIN tree)
  BY <1>1, <1>2, FS_Injection
<1>4. Cardinality(0..n) = n + 1
  BY FS_Interval
<1>5. Cardinality(DOMAIN tree) \in Nat
  BY <1>2, FS_CardinalityType
<1> QED BY <1>3, <1>4, <1>5

\* What a source path is asked to be called has a name.
LEMMA AskedIsNamed2 ==
  ASSUME Walk2, NEW s \in DOMAIN placed2, placed2[s] # Theirs
  PROVE  Named(Asked2(s))
<1>1. CASE s = Root
  BY <1>1, GivensAreNamed DEF Asked2
<1>2. CASE s # Root
  <2>1. s \in DOMAIN source2 /\ source2 \in Sources /\ Parent(s) \in DOMAIN placed2
        /\ placed2[Parent(s)] # Theirs
    BY <1>2 DEF Walk2, Call2, PlacedTogether2
  <2>2. Named(placed2[Parent(s)]) /\ Parent(s) \in DOMAIN source2
    BY <2>1 DEF Walk2, PlacedTogether2
  <2>3. s \in Children(source2, Parent(s))
    <3>1. s \in Seq(ToSet(s))
      BY <2>1, SourceIsSequence DEF IsSequence
    <3>2. Len(Parent(s)) = Len(s) - 1 /\ IsPrefix(Parent(s), s) /\ Len(s) \in Nat
      BY <1>2, <3>1, ParentAndLast
    <3> QED BY <2>1, <3>2 DEF Children, Below
  <2>4. Named(Append(placed2[Parent(s)], Last(s)))
    BY <2>1, <2>2, <2>3, ChildIsNamed
  <2> QED BY <1>2, <2>4 DEF Asked2
<1> QED BY <1>1, <1>2

LEMMA DownInvShows ==
  ASSUME DownInv
  PROVE  Down!TypeOK /\ Down!DeliveredIfUndisturbed /\ Down!NumberedOnce
<1>1. Walk2 /\ ItemPlaced2 /\ TreeOK(tree2) /\ DownItem /\ Undisturbed2 /\ Todo2
  BY DEF DownInv
<1>2. Down!TypeOK
  <2>1. IsTree(tree2) /\ Down!IsTree(tree2) = IsTree(tree2)
    BY <1>1, DownTrees DEF TreeOK
  <2> QED BY <1>1, <2>1 DEF Down!TypeOK, Walk2, Call2, ItemPlaced2, DownItem, PlacedTogether2, Todo2
<1>3. Down!DeliveredIfUndisturbed
  <2>1. SUFFICES ASSUME result2 = "ok", others2 = 0
                 PROVE  /\ DOMAIN placed2 = DOMAIN source2
                        /\ \A s \in DOMAIN source2 :
                             IF placed2[s] = Theirs
                               THEN policy2 = "keep_existing"
                               ELSE /\ Exists(tree2, placed2[s])
                                    /\ tree2[placed2[s]].kind = source2[s].kind
                                    /\ tree2[placed2[s]].size = source2[s].size
    BY DownTrees DEF Down!DeliveredIfUndisturbed
  <2>2. DOMAIN placed2 = DOMAIN source2
    BY <1>1, <2>1, EndsWithAll2
  <2> QED BY <1>1, <2>1, <2>2 DEF Undisturbed2, Whole, SkippedIfTold2, Exists
<1>4. Down!NumberedOnce
  <2>1. SUFFICES ASSUME others2 = 0, policy2 = "keep_both", NEW s \in DOMAIN placed2
                 PROVE  \E n \in 0..Cardinality(DOMAIN tree2) :
                          /\ placed2[s] = Numbered(Asked2(s), n)
                          /\ \A m \in 0..n : Exists(tree2, Numbered(Asked2(s), m))
    <3>1. Down!Root = Root /\ \A p : Down!Parent(p) = Parent(p) /\ Down!Last(p) = Last(p)
      BY DownTrees DEF Down!Last, Last
    <3>2. Down!Cardinality(DOMAIN tree2) = Cardinality(DOMAIN tree2)
      BY DEF Down!Cardinality, Cardinality
    <3>3. /\ \A p, n : Down!Numbered(p, n) = Numbered(p, n)
          /\ \A p : Down!Exists(tree2, p) = Exists(tree2, p)
      BY DownTrees
    <3> QED BY <2>1, <3>1, <3>2, <3>3 DEF Down!NumberedOnce, Asked2
  <2>2. PICK n \in Nat : placed2[s] = Numbered(Asked2(s), n) /\ Taken2(Asked2(s), n + 1)
    BY <2>1 DEF DownInv, DownNumbered
  <2>3. placed2[s] # Theirs
    BY <1>1, <2>1 DEF Undisturbed2, SkippedIfTold2
  <2>4. Named(Asked2(s))
    BY <1>1, <2>1, <2>3, AskedIsNamed2
  <2>5. \A m \in 0..n : m \in Nat /\ m < n + 1
    OBVIOUS
  <2>6. \A m \in 0..n : Exists(tree2, Numbered(Asked2(s), m))
    BY <2>2, <2>5 DEF Taken2
  <2>7. n \in 0..Cardinality(DOMAIN tree2)
    BY <1>1, <2>4, <2>6, NumbersFit
  <2> QED BY <2>2, <2>6, <2>7
<1> QED BY <1>2, <1>3, <1>4

-----------------------------------------------------------------------------
(***************************************************************************)
(* 4. The upload over SFTP once more: where each path of the source goes.  *)
(***************************************************************************)

Now == IF Busy THEN {item.local} ELSE {}

\* What is in a directory goes where that went, or under a number beside it.
Asked(s) == Append(placed[Parent(s)], Last(s))
GoesTo(asked, p) ==
  \/ p = asked
  \/ policy = "keep_both" /\ \E n \in Nat \ {0} : p = Numbered(asked, n)

Walking ==
  /\ result \in {"none", "ok", "error"}
  /\ result # "error" => Walks(source, Now, stack, placed)
  /\ result = "ok" => stack = <<>>

PlacedTogether ==
  \A s \in DOMAIN placed :
    placed[s] # Theirs =>
      /\ Named(placed[s])
      /\ s # Root => Parent(s) \in DOMAIN placed /\ placed[Parent(s)] # Theirs /\ GoesTo(Asked(s), placed[s])

PlacedInPlace == policy = "replace" => \A s \in DOMAIN placed : placed[s] = destination \o s

ItemGoes ==
  Busy /\ step # "start" =>
    /\ Named(item.path)
    /\ item.local # Root =>
         /\ \E d \in DOMAIN placed : placed[d] # Theirs /\ item.local \in Children(source, d)
         /\ GoesTo(Asked(item.local), item.path)
         /\ step \in {"resolve", "number"} \cup FileSteps => item.path = Asked(item.local)

Goes == Walking /\ PlacedTogether /\ PlacedInPlace /\ ItemGoes

\* What a step relies on that looks at the item.
StepFits ==
  /\ item.n \in Nat
  /\ step \in DirSteps \cup {"resolve", "number"} => IsDir(source, item.local)
  /\ step = "number" => policy = "keep_both"
  /\ step \in FileSteps /\ policy # "keep_both" => item.n = 0
  /\ step \in {"probe", "mkdir"} => item.n \in 1..Len(item.path)

LEMMA NothingPlaced ==
  ASSUME NEW tree, NEW frames, NEW went, Walks(tree, {Root}, frames, went)
  PROVE  DOMAIN went = {}
<1>1. \A s \in DOMAIN went : s \in DOMAIN tree /\ ~IsPrefix(Root, s)
  BY DEF Walks, Pending
<1>2. \A s \in DOMAIN tree : s \in Seq(NamesOf(tree))
  BY WalkPaths
<1> QED BY <1>1, <1>2, PrefixRefl

\* Where the source itself is the item, nothing has been placed.
LEMMA RootIsFirst ==
  ASSUME Inv, Goes, Busy, item.local = Root
  PROVE  DOMAIN placed = {}
<1>1. Walks(source, {Root}, stack, placed)
  BY DEF Goes, Walking, Now, Inv, CallOK, Busy
<1> QED BY <1>1, NothingPlaced

LEMMA GoesStays ==
  ASSUME Inv, Goes, Stays
  PROVE  Goes'
<1>1. Busy /\ Busy' /\ step # "start" /\ UNCHANGED <<policy, source, stack, placed, result, destination>>
  BY DEF Stays, call, Busy
<1>2. item'.local = item.local /\ item'.path = item.path
  BY DEF Stays
<1>3. Walking'
  BY <1>1, <1>2 DEF Goes, Walking, Now
<1>5. PlacedTogether'
  BY <1>1 DEF Goes, PlacedTogether, GoesTo, Asked
<1>6. PlacedInPlace'
  BY <1>1 DEF Goes, PlacedInPlace
<1>7. ItemGoes'
  <2>1. /\ step' \in FileSteps => step \in FileSteps
        /\ step' \in {"resolve", "number"} => step \in {"resolve", "number"}
    BY DEF Stays
  <2> QED BY <1>1, <1>2, <2>1 DEF Goes, ItemGoes, GoesTo, Asked
<1> QED BY <1>3, <1>5, <1>6, <1>7 DEF Goes

LEMMA GoesFails ==
  ASSUME Inv, Goes, Fails
  PROVE  Goes'
<1>1. /\ UNCHANGED <<policy, placed, destination>>
      /\ result' = "error" /\ step' = "done"
  BY DEF Fails, call
<1> QED BY <1>1 DEF Goes, Walking, PlacedTogether, GoesTo, Asked, PlacedInPlace, ItemGoes, Busy

LEMMA GoesSkips ==
  ASSUME Inv, Goes, Busy, policy = "keep_existing", SkipItem("next")
  PROVE  Goes'
<1>1. /\ step' = "next" /\ UNCHANGED <<policy, source, item, stack, result, destination>>
      /\ placed' = [s \in DOMAIN placed \cup Below(source, item.local) |->
                      IF s \in DOMAIN placed THEN placed[s] ELSE Theirs]
  BY DEF SkipItem, call, Skipped
<1>2. /\ DOMAIN placed' = DOMAIN placed \cup Below(source, item.local)
      /\ \A s \in DOMAIN placed : placed'[s] = placed[s]
      /\ \A s \in DOMAIN placed' : s \notin DOMAIN placed => placed'[s] = Theirs
  BY <1>1
<1>3. result = "none" /\ Walks(source, {item.local}, stack, placed)
  BY DEF Goes, Walking, Now, Inv, CallOK, Busy
<1>4. Walks(source, {}, stack, placed')
  BY <1>2, <1>3, WalkSkips
<1>5. Walking'
  BY <1>1, <1>3, <1>4 DEF Walking, Now, Busy
<1>6. PlacedTogether'
  BY <1>1, <1>2 DEF Goes, PlacedTogether, GoesTo, Asked
<1>7. PlacedInPlace' /\ ItemGoes'
  BY <1>1 DEF PlacedInPlace, ItemGoes, Busy
<1> QED BY <1>5, <1>6, <1>7 DEF Goes

\* The item has been placed: what was placed before stays where it is.
LEMMA GoesPlaces ==
  ASSUME Goes, item.local \notin DOMAIN placed, NEW p, placed' = With(placed, item.local, p),
         UNCHANGED <<policy, source>>, Named(p), item.local \in DOMAIN source,
         item.local # Root =>
           /\ \E d \in DOMAIN placed : placed[d] # Theirs /\ item.local \in Children(source, d)
           /\ GoesTo(Asked(item.local), p),
         source \in Sources, DOMAIN placed \subseteq DOMAIN source
  PROVE  PlacedTogether'
<1>1. /\ DOMAIN placed' = DOMAIN placed \cup {item.local} /\ placed'[item.local] = p
      /\ \A s \in DOMAIN placed : placed'[s] = placed[s]
  BY DEF With
<1>2. SUFFICES ASSUME NEW s \in DOMAIN placed', placed'[s] # Theirs
               PROVE  /\ Named(placed'[s])
                      /\ s # Root => /\ Parent(s) \in DOMAIN placed' /\ placed'[Parent(s)] # Theirs
                                     /\ GoesTo(Append(placed'[Parent(s)], Last(s)), placed'[s])
  BY DEF PlacedTogether, GoesTo, Asked
<1>3. CASE s \in DOMAIN placed
  BY <1>1, <1>2, <1>3 DEF Goes, PlacedTogether, GoesTo, Asked
<1>4. CASE s = item.local
  <2>1. CASE s = Root
    BY <1>1, <1>4, <2>1
  <2>2. CASE s # Root
    <3>1. PICK d \in DOMAIN placed : placed[d] # Theirs /\ item.local \in Children(source, d)
      BY <1>4, <2>2
    <3>2. Parent(s) = d
      BY <1>4, <3>1, ParentOfChild
    <3>3. GoesTo(Append(placed[d], Last(s)), p)
      BY <1>4, <2>2, <3>2 DEF Asked
    <3> QED BY <1>1, <1>4, <3>1, <3>2, <3>3
  <2> QED BY <2>1, <2>2
<1> QED BY <1>1, <1>3, <1>4

LEMMA GoesFirst == Init => Goes /\ StepFits
<1>1. SUFFICES ASSUME Init
               PROVE  Goes /\ StepFits
  OBVIOUS
<1>2. /\ source \in Sources /\ step = "start" /\ item = NoItem /\ stack = <<>> /\ placed = <<>> /\ result = "none"
  BY <1>1 DEF Init
<1>3. Now = {Root}
  BY <1>2 DEF Now, Busy, NoItem
<1>4. Walks(source, Now, stack, placed)
  BY <1>2, <1>3, WalkStarts
<1>5. Goes
  BY <1>2, <1>4 DEF Goes, Walking, PlacedTogether, PlacedInPlace, ItemGoes
<1>6. StepFits
  BY <1>2 DEF StepFits, NoItem, DirSteps, FileSteps
<1> QED BY <1>5, <1>6

LEMMA GoesFromStart ==
  ASSUME Inv, Goes, Start
  PROVE  Goes' /\ StepFits'
<1>1. /\ step = "start" /\ UNCHANGED <<policy, source, given, stack, placed, result>>
      /\ step' = IF IsDir(source, Root) THEN "resolve" ELSE "file"
      /\ item.local = Root /\ Busy
  BY DEF Start, call, Inv, TopIsFirst, Busy
<1>2. PICK path \in {given, Append(given, Name)} :
        item' = [NoItem EXCEPT !.path = path, !.top = TRUE] /\ destination' = path
  BY DEF Start
<1>3. item'.local = Root /\ item'.path = path /\ item'.n = 0
  BY <1>2 DEF NoItem
<1>4. Named(path)
  <2>1. Named(given) /\ IsSequence(given) /\ given # Root
    BY GivensAreNamed DEF Inv, CallOK, Named
  <2>2. given \in Seq(ToSet(given))
    BY <2>1 DEF IsSequence
  <2> DEFINE c == Append(given, Name)
  <2>3. Last(c) = Name /\ c \in Seq(ToSet(given) \cup {Name}) /\ Len(c) = Len(given) + 1
    BY <2>2, LastAdded
  <2>4. Len(given) \in Nat /\ Len(given) > 0
    <3>1. Len(given) \in Nat
      BY <2>2
    <3> QED BY <2>1, <2>2, <3>1, ParentAndLast
  <2> HIDE DEF c
  <2>5. c # Theirs /\ c # Root
    BY <2>3, <2>4, LongIsNotTheirs
  <2>6. IsSequence(c)
    BY <2>3, InSeqIsSequence
  <2>7. Named(c)
    BY <2>3, <2>5, <2>6, TransfersAssumption DEF Named
  <2> QED BY <2>1, <2>7 DEF c
<1>5. DOMAIN placed = {}
  BY <1>1, RootIsFirst
<1>6. Walking'
  BY <1>1, <1>3 DEF Goes, Walking, Now, Busy
<1>7. PlacedTogether' /\ PlacedInPlace'
  BY <1>1, <1>5 DEF PlacedTogether, PlacedInPlace
<1>8. ItemGoes'
  BY <1>3, <1>4 DEF ItemGoes
<1>9. StepFits'
  BY <1>1, <1>3 DEF StepFits, DirSteps, FileSteps
<1> QED BY <1>6, <1>7, <1>8, <1>9 DEF Goes

LEMMA GoesDestined ==
  ASSUME Inv, Goes, step \in {"resolve", "number"}, NEW path, Destined(path),
         \/ path = item.path
         \/ policy = "keep_both" /\ \E n \in Nat \ {0} : path = Numbered(item.path, n)
  PROVE  Goes'
<1>1. /\ item' = [item EXCEPT !.path = path, !.n = 0, !.top = FALSE]
      /\ destination' = IF item.top THEN path ELSE destination
      /\ step' = IF item.top THEN "resolve" ELSE IF policy = "replace" THEN "clear" ELSE "ensure"
      /\ UNCHANGED <<policy, source, stack, placed, result>> /\ Busy /\ Busy'
  BY DEF Destined, call, Busy
<1>2. item'.local = item.local /\ item'.path = path
  BY <1>1 DEF Inv, ItemOK
<1>3. Walking'
  BY <1>1, <1>2 DEF Goes, Walking, Now
<1>4. PlacedTogether'
  BY <1>1 DEF Goes, PlacedTogether, GoesTo, Asked
<1>5. item.top => item.local = Root
  BY <1>1 DEF Inv, ItemOK, TopIsFirst, Busy
<1>6. PlacedInPlace'
  <2>1. item.top => DOMAIN placed = {}
    BY <1>1, <1>5, RootIsFirst
  <2> QED BY <1>1, <2>1 DEF Goes, PlacedInPlace
<1>7. ItemGoes'
  <2>1. Named(item.path)
    BY <1>1 DEF Goes, ItemGoes
  <2>2. Named(path)
    BY <2>1, NumberedIsNamed
  <2>3. ASSUME item.local # Root
        PROVE  /\ \E d \in DOMAIN placed : placed[d] # Theirs /\ item.local \in Children(source, d)
               /\ GoesTo(Asked(item.local), path)
               /\ step' \notin {"resolve", "number"} \cup FileSteps
    <3>1. /\ \E d \in DOMAIN placed : placed[d] # Theirs /\ item.local \in Children(source, d)
          /\ item.path = Asked(item.local)
      BY <1>1, <2>3 DEF Goes, ItemGoes
    <3>2. ~item.top
      BY <1>5, <2>3
    <3> QED BY <1>1, <3>1, <3>2 DEF GoesTo, FileSteps
  <2> QED BY <1>1, <1>2, <2>2, <2>3 DEF ItemGoes, GoesTo, Asked
<1> QED BY <1>3, <1>4, <1>6, <1>7 DEF Goes

LEMMA GoesReads ==
  ASSUME Inv, Goes, StepFits, ReadDirectory
  PROVE  Goes' /\ item.local \notin DOMAIN placed
<1>1. /\ step = "read" /\ step' = "next" /\ Busy
      /\ stack' = Append(stack, [path |-> item.path, todo |-> Children(source, item.local)])
      /\ placed' = With(placed, item.local, item.path)
      /\ UNCHANGED <<policy, source, item, result, destination>>
  BY DEF ReadDirectory, call, Busy
<1>2. Named(item.path)
  BY <1>1 DEF Goes, ItemGoes, Busy
<1>3. Walks(source, {item.local}, stack, placed) /\ item.path # Theirs /\ result = "none"
  BY <1>1, <1>2 DEF Goes, Walking, Now, Inv, CallOK, Busy, Named
<1>4. /\ Walks(source, {}, stack', placed') /\ item.local \notin DOMAIN placed
  BY <1>1, <1>3, WalkEnters
<1>5. Walking'
  BY <1>1, <1>3, <1>4 DEF Walking, Now, Busy
<1>6. PlacedTogether'
  BY <1>1, <1>2, <1>4, GoesPlaces DEF Goes, ItemGoes, Inv, ItemOK, CallOK, PlacedOK
<1>7. PlacedInPlace'
  BY <1>1 DEF Goes, PlacedInPlace, Inv, InPlace, With
<1>8. ItemGoes'
  BY <1>1 DEF ItemGoes, Busy
<1> QED BY <1>4, <1>5, <1>6, <1>7, <1>8 DEF Goes

LEMMA GoesCopies ==
  ASSUME Inv, Goes, StepFits, Copy
  PROVE  Goes' /\ item.local \notin DOMAIN placed /\ Named(Target)
<1>1. /\ step = "copy" /\ step' = "next" /\ Busy /\ step \in FileSteps
      /\ placed' = With(placed, item.local, Target)
      /\ destination' = IF stack = <<>> THEN Target ELSE destination
      /\ UNCHANGED <<policy, source, item, stack, result>>
  BY DEF Copy, call, Busy, FileSteps
<1>2. Named(item.path) /\ item.n \in Nat
  BY <1>1 DEF Goes, ItemGoes, Busy, StepFits
<1>3. Named(Target)
  BY <1>2, NumberedIsNamed DEF Target
<1>4. Walks(source, {item.local}, stack, placed) /\ result = "none" /\ ~IsDir(source, item.local)
  BY <1>1 DEF Goes, Walking, Now, Inv, CallOK, ItemOK, Busy
<1>5. Walks(source, {}, stack, placed') /\ item.local \notin DOMAIN placed
  BY <1>1, <1>4, WalkPlacesFile
<1>6. Walking'
  BY <1>1, <1>4, <1>5 DEF Walking, Now, Busy
<1>7. item.n = 0 => Target = item.path
  BY DEF Target, Numbered
<1>8. PlacedTogether'
  <2>1. item.local # Root =>
          /\ \E d \in DOMAIN placed : placed[d] # Theirs /\ item.local \in Children(source, d)
          /\ item.path = Asked(item.local)
    BY <1>1 DEF Goes, ItemGoes, Busy
  <2>2. item.path = Asked(item.local) => GoesTo(Asked(item.local), Target)
    <3>1. CASE item.n = 0
      BY <1>7, <3>1 DEF GoesTo
    <3>2. CASE item.n # 0
      <4>1. policy = "keep_both" /\ item.n \in Nat \ {0}
        BY <1>1, <1>2, <3>2 DEF StepFits
      <4> QED BY <4>1 DEF GoesTo, Target
    <3> QED BY <3>1, <3>2
  <2> QED BY <1>1, <1>3, <1>5, <2>1, <2>2, GoesPlaces DEF Inv, ItemOK, CallOK, PlacedOK
<1>9. PlacedInPlace'
  <2>1. SUFFICES ASSUME policy = "replace"
                 PROVE  \A s \in DOMAIN placed' : placed'[s] = destination' \o s
    BY <1>1 DEF PlacedInPlace
  <2>2. Target = destination \o item.local
    BY <1>1, <1>7, <2>1 DEF Inv, InPlace, StepFits, Busy
  <2>3. destination' = destination
    <3>1. PICK Parts : destination \in Seq(Parts)
      BY <2>1 DEF Inv, InPlace
    <3>2. stack = <<>> => item.local = Root
      BY <1>1 DEF Inv, TopIsFirst
    <3>3. destination \o Root = destination
      BY <3>1, EmptyPlace
    <3> QED BY <1>1, <2>2, <3>2, <3>3
  <2> QED BY <1>1, <2>1, <2>2, <2>3 DEF Goes, PlacedInPlace, With
<1>10. ItemGoes'
  BY <1>1 DEF ItemGoes, Busy
<1> QED BY <1>3, <1>5, <1>6, <1>8, <1>9, <1>10 DEF Goes

LEMMA GoesEnters ==
  ASSUME Inv, Goes, StepFits, NEW s \in DOMAIN source, Enter(s)
  PROVE  Goes' /\ StepFits' /\ s # Root
<1>1. /\ step = "next" /\ stack # <<>> /\ s \in Last(stack).todo
      /\ stack' = Append(Front(stack), [Last(stack) EXCEPT !.todo = @ \ {s}])
      /\ item'.local = s /\ item'.path = Append(Last(stack).path, Last(s)) /\ item'.n = 0
      /\ step' = IF IsDir(source, s) THEN "resolve" ELSE "file"
      /\ UNCHANGED <<policy, source, placed, result, destination>>
  BY DEF Enter, call, NoItem, Into
<1>2. result = "none" /\ Walks(source, {}, stack, placed)
  BY <1>1 DEF Goes, Walking, Now, Inv, CallOK, Busy
<1>3. /\ Walks(source, {s}, stack', placed)
      /\ \E d \in DOMAIN placed : Last(stack).path = placed[d] /\ placed[d] # Theirs /\ s \in Children(source, d)
  <2>1. /\ stack # <<>> /\ s \in Last(stack).todo
        /\ stack' = Append(Front(stack), [Last(stack) EXCEPT !.todo = @ \ {s}])
    BY <1>1
  <2> QED BY ONLY <1>2, <2>1, WalkGoesOn
<1>4. PICK d \in DOMAIN placed : Last(stack).path = placed[d] /\ placed[d] # Theirs /\ s \in Children(source, d)
  BY <1>3
<1>5. s # Root /\ Parent(s) = d /\ Named(item'.path) /\ item'.path = Asked(s)
  <2>1. source \in Sources /\ d \in DOMAIN source /\ Named(placed[d])
    BY <1>4 DEF Inv, CallOK, PlacedOK, Goes, PlacedTogether
  <2>2. s # Root /\ Parent(s) = d
    BY <1>4, <2>1, ParentOfChild
  <2>3. Named(Append(placed[d], Last(s)))
    BY <1>4, <2>1, ChildIsNamed
  <2> QED BY <1>1, <1>4, <2>2, <2>3 DEF Asked
<1>6. Walking'
  BY <1>1, <1>2, <1>3 DEF Walking, Now, Busy
<1>7. PlacedTogether' /\ PlacedInPlace'
  BY <1>1 DEF Goes, PlacedTogether, PlacedInPlace, GoesTo, Asked
<1>8. ItemGoes'
  BY <1>1, <1>4, <1>5 DEF ItemGoes, GoesTo, Asked
<1>9. StepFits'
  BY <1>1 DEF StepFits, DirSteps, FileSteps
<1> QED BY <1>5, <1>6, <1>7, <1>8, <1>9 DEF Goes

LEMMA GoesLeaves ==
  ASSUME Inv, Goes, StepFits, Leave
  PROVE  Goes' /\ StepFits'
<1>1. /\ step = "next" /\ UNCHANGED <<policy, source, item, placed, destination>>
      /\ \/ stack # <<>> /\ Last(stack).todo = {} /\ stack' = Front(stack) /\ UNCHANGED <<step, result>>
         \/ stack = <<>> /\ step' = "done" /\ result' = "ok" /\ UNCHANGED stack
  BY DEF Leave, call
<1>2. result = "none" /\ Walks(source, {}, stack, placed)
  BY <1>1 DEF Goes, Walking, Now, Inv, CallOK, Busy
<1>3. Walks(source, {}, stack', placed)
  BY <1>1, <1>2, WalkLeaves
<1>4. Walking'
  BY <1>1, <1>2, <1>3 DEF Walking, Now, Busy
<1>5. PlacedTogether' /\ PlacedInPlace'
  BY <1>1 DEF Goes, PlacedTogether, PlacedInPlace, GoesTo, Asked
<1>6. ItemGoes' /\ StepFits'
  BY <1>1 DEF ItemGoes, StepFits, Busy, DirSteps, FileSteps
<1> QED BY <1>4, <1>5, <1>6 DEF Goes

LEMMA GoesUndisturbed ==
  ASSUME Goes, StepFits, UNCHANGED <<policy, source, step, item, stack, placed, result, destination>>
  PROVE  Goes' /\ StepFits'
<1>1. Walking'
  BY DEF Goes, Walking, Now, Busy
<1>2. PlacedTogether' /\ PlacedInPlace'
  BY DEF Goes, PlacedTogether, PlacedInPlace, GoesTo, Asked
<1>3. ItemGoes'
  BY DEF Goes, ItemGoes, Busy, GoesTo, Asked
<1>4. StepFits'
  BY DEF StepFits
<1> QED BY <1>1, <1>2, <1>3, <1>4 DEF Goes

-----------------------------------------------------------------------------
\* What a step that looks for the place of a directory may do.
LEMMA ResolveKinds ==
  ASSUME Inv, StepFits, Resolve \/ NumberDirectory
  PROVE  /\ step \in {"resolve", "number"}
         /\ \/ /\ Resolve /\ Destined(item.path)
            \/ /\ NumberDirectory /\ Destined(Numbered(item.path, item.n)) /\ policy = "keep_both"
            \/ /\ Resolve /\ policy = "keep_existing" /\ SkipItem("next")
            \/ /\ item' = [item EXCEPT !.n = 1] \/ item' = [item EXCEPT !.n = item.n + 1]
               /\ policy = "keep_both" /\ Look("number") /\ Stays
<1>1. /\ DOMAIN item = {"local", "path", "n", "top"}
      /\ policy \in {"keep_existing", "replace", "keep_both"}
  BY TreesAssumption DEF Inv, ItemOK, CallOK
<1>2. ASSUME NEW m
      PROVE  LET other == [item EXCEPT !.n = m]
             IN /\ DOMAIN other = DOMAIN item
                /\ other.local = item.local /\ other.path = item.path /\ other.top = item.top
  BY <1>1
<1>3. CASE Resolve
  <2>1. \/ Destined(item.path)
        \/ policy = "keep_existing" /\ SkipItem("next")
        \/ policy = "keep_both" /\ item' = [item EXCEPT !.n = 1] /\ Look("number")
    BY <1>1, <1>3 DEF Resolve, Merges
  <2>2. step = "resolve"
    BY <1>3 DEF Resolve
  <2>3. CASE policy = "keep_both" /\ item' = [item EXCEPT !.n = 1] /\ Look("number")
    BY <1>2, <2>2, <2>3 DEF Stays, ReplaceSteps, DirSteps, FileSteps, GoOn, Look, Steps, Busy
  <2> QED
    BY <1>3, <2>1, <2>2, <2>3
<1>4. CASE NumberDirectory
  <2>1. \/ Destined(Numbered(item.path, item.n))
        \/ item' = [item EXCEPT !.n = item.n + 1] /\ Look("number")
    BY <1>4 DEF NumberDirectory
  <2>2. step = "number" /\ policy = "keep_both"
    BY <1>4 DEF NumberDirectory, StepFits
  <2>3. CASE item' = [item EXCEPT !.n = item.n + 1] /\ Look("number")
    BY <1>2, <2>2, <2>3 DEF Stays, ReplaceSteps, DirSteps, FileSteps, GoOn, Look, Steps, Busy
  <2> QED
    BY <1>4, <2>1, <2>2, <2>3
<1> QED BY <1>3, <1>4

LEMMA FitsNumbered ==
  ASSUME Inv, StepFits, Resolve \/ NumberDirectory
  PROVE  StepFits'
<1>1. /\ step \in {"resolve", "number"} /\ IsDir(source, item.local)
      /\ DOMAIN item = {"local", "path", "n", "top"} /\ item.n \in Nat
  BY ResolveKinds DEF StepFits, Inv, ItemOK
<1>2. CASE \E path : Destined(path)
  <2>1. PICK path : Destined(path)
    BY <1>2
  <2>2. /\ item'.n = 0 /\ item'.local = item.local /\ source' = source /\ policy' = policy
        /\ step' \in {"resolve", "clear", "ensure"}
    BY <1>1, <2>1 DEF Destined, call
  <2> QED BY <1>1, <2>2 DEF StepFits, FileSteps
<1>3. CASE SkipItem("next")
  BY <1>1, <1>3 DEF SkipItem, StepFits, DirSteps, FileSteps, call
<1>4. CASE /\ item' = [item EXCEPT !.n = 1] \/ item' = [item EXCEPT !.n = item.n + 1]
           /\ policy = "keep_both" /\ Look("number")
  BY <1>1, <1>4 DEF Look, GoOn, StepFits, DirSteps, FileSteps, call
<1> QED BY <1>2, <1>3, <1>4, ResolveKinds

LEMMA FitsDirectory ==
  ASSUME Inv, Goes, StepFits, LookForFile \/ Unlink \/ Ensure \/ Probe \/ Mkdir
  PROVE  StepFits' /\ Stays
<1>1. /\ step \in DirSteps /\ IsDir(source, item.local) /\ Busy /\ step \notin {"resolve", "number"}
      /\ DOMAIN item = {"local", "path", "n", "top"} /\ item.n \in Nat
  BY DEF StepFits, Inv, ItemOK, DirSteps, LookForFile, Unlink, Ensure, Probe, Mkdir, Busy
<1>2. Named(item.path) /\ Len(item.path) \in Nat /\ Len(item.path) > 0
  <2>1. Named(item.path)
    BY <1>1 DEF Goes, ItemGoes, DirSteps
  <2>2. item.path \in Seq(ToSet(item.path)) /\ item.path # Root
    BY <2>1 DEF Named, IsSequence
  <2>3. Len(item.path) \in Nat
    BY <2>2
  <2> QED BY <2>1, <2>2, <2>3, ParentAndLast
<1>3. Stays
  <2>1. \/ Stays
        \/ step' = "next"
        \/ step \in {"resolve", "number"}
    BY DirectoryStepKinds DEF DirectoryStep, SkipItem
  <2>2. step' # "next"
    BY DEF LookForFile, Unlink, Ensure, Probe, Mkdir, AfterPrefix, GoOn, Look
  <2> QED BY <1>1, <2>1, <2>2
<1>4. source' = source /\ policy' = policy /\ item'.local = item.local /\ item'.path = item.path
  BY <1>3 DEF Stays, call
<1>5. /\ item'.n \in Nat /\ step' \notin FileSteps \cup {"number"}
      /\ step' \in {"probe", "mkdir"} => item'.n \in 1..Len(item.path)
  <2>1. CASE LookForFile \/ Unlink
    BY <1>1, <2>1 DEF LookForFile, Unlink, GoOn, Look, FileSteps
  <2>2. CASE Ensure
    BY <1>1, <1>2, <2>2 DEF Ensure, GoOn, Look, FileSteps
  <2>3. CASE Probe \/ Mkdir
    <3>1. item.n \in 1..Len(item.path)
      BY <2>3 DEF Probe, Mkdir, StepFits
    <3>2. \/ item' = item /\ step' \in {"mkdir", "read"}
          \/ item.n < Len(item.path) /\ item' = [item EXCEPT !.n = item.n + 1] /\ step' = "probe"
      BY <2>3 DEF Probe, Mkdir, AfterPrefix, GoOn
    <3>3. step' \notin FileSteps \cup {"number"}
      BY <3>2 DEF FileSteps
    <3>4. item'.n \in 1..Len(item.path)
      BY <1>1, <1>2, <3>1, <3>2
    <3> QED BY <3>3, <3>4
  <2> QED BY <2>1, <2>2, <2>3
<1>6. step' \in DirSteps \cup {"resolve", "number"} => IsDir(source, item.local)
  BY <1>1
<1> QED BY <1>3, <1>4, <1>5, <1>6 DEF StepFits

LEMMA FitsFile ==
  ASSUME Inv, StepFits, FileStep
  PROVE  StepFits'
<1>1. /\ step \in FileSteps /\ item.n \in Nat
      /\ DOMAIN item = {"local", "path", "n", "top"}
      /\ policy \in {"keep_existing", "replace", "keep_both"}
      /\ policy # "keep_both" => item.n = 0
  BY TreesAssumption
  DEF StepFits, Inv, ItemOK, CallOK, FileSteps, FileStep, LookAtFile, CreateExclusive,
      SomeoneWasFaster, OpenTruncated, OpenFails, UnlinkOld, CreateAgain
<1>2. /\ source' = source /\ policy' = policy
      /\ step' \in FileSteps \cup {"next", "done"}
      /\ item'.local = item.local
      /\ \/ item' = item
         \/ item' = [item EXCEPT !.n = item.n + 1] /\ policy = "keep_both"
  <2>1. CASE LookAtFile
    <3>1. \/ Fails
          \/ SkipItem("next")
          \/ Look("open") /\ UNCHANGED item
          \/ Look("exclusive") /\ UNCHANGED item
          \/ policy = "keep_both" /\ NextNumber
      BY <1>1, <2>1 DEF LookAtFile, Refused
    <3> QED BY <1>1, <3>1 DEF Fails, SkipItem, Look, GoOn, call, FileSteps, NextNumber
  <2>2. CASE SomeoneWasFaster
    <3>1. step = "exclusive" /\ ((policy = "keep_existing" /\ SkipItem("next")) \/ (policy # "keep_existing" /\ NextNumber))
      BY <2>2 DEF SomeoneWasFaster
    <3>2. policy # "replace"
      BY <3>1 DEF Inv, CallOK
    <3> QED BY <1>1, <3>1, <3>2 DEF SkipItem, Look, GoOn, call, FileSteps, NextNumber
  <2>3. CASE CreateExclusive \/ OpenTruncated \/ CreateAgain
    BY <2>3 DEF CreateExclusive, OpenTruncated, CreateAgain, Opened, GoOn, call, FileSteps
  <2>4. CASE OpenFails \/ UnlinkOld
    BY <2>4 DEF OpenFails, UnlinkOld, Look, GoOn, Fails, call, FileSteps
  <2> QED BY <2>1, <2>2, <2>3, <2>4 DEF FileStep
<1>3. item'.n \in Nat /\ (policy # "keep_both" => item'.n = 0)
  BY <1>1, <1>2
<1>4. step' \notin DirSteps \cup {"resolve", "number", "probe", "mkdir"}
  BY <1>2 DEF FileSteps, DirSteps
<1> QED BY <1>2, <1>3, <1>4 DEF StepFits

-----------------------------------------------------------------------------
LEMMA GoesInv == Inv /\ Goes /\ StepFits /\ Next => Goes' /\ StepFits'
<1> SUFFICES ASSUME Inv, Goes, StepFits, Next
             PROVE  Goes' /\ StepFits'
  OBVIOUS
<1>1. CASE CallFails
  <2>1. Fails
    BY <1>1 DEF CallFails
  <2>2. StepFits'
    BY <2>1 DEF Fails, StepFits, call, DirSteps, FileSteps
  <2> QED BY <2>1, <2>2, GoesFails
<1>2. CASE Resolve \/ NumberDirectory
  <2>1. /\ step \in {"resolve", "number"} /\ item.n \in Nat /\ Busy
    BY <1>2, ResolveKinds DEF StepFits, Busy
  <2>2. Goes'
    <3>1. CASE Resolve /\ Destined(item.path)
      BY <2>1, <3>1, GoesDestined
    <3>2. CASE NumberDirectory /\ Destined(Numbered(item.path, item.n)) /\ policy = "keep_both"
      <4>1. CASE item.n = 0
        BY <2>1, <3>2, <4>1, GoesDestined DEF Numbered
      <4>2. CASE item.n # 0
        <5>1. item.n \in Nat \ {0}
          BY <2>1, <4>2
        <5> QED BY <2>1, <3>2, <5>1, GoesDestined
      <4> QED BY <4>1, <4>2
    <3>3. CASE policy = "keep_existing" /\ SkipItem("next")
      BY <2>1, <3>3, GoesSkips
    <3>4. CASE Stays
      BY <3>4, GoesStays
    <3> QED BY <1>2, <3>1, <3>2, <3>3, <3>4, ResolveKinds
  <2> QED BY <1>2, <2>2, FitsNumbered
<1>3. CASE LookForFile \/ Unlink \/ Ensure \/ Probe \/ Mkdir
  BY <1>3, FitsDirectory, GoesStays
<1>4. CASE FileStep
  <2>1. Goes'
    BY <1>4, FileStepKinds, GoesStays, GoesSkips, GoesFails
  <2> QED BY <1>4, <2>1, FitsFile
<1>5. CASE Start
  BY <1>5, GoesFromStart
<1>6. CASE ReadDirectory
  <2>1. StepFits'
    BY <1>6 DEF ReadDirectory, StepFits, DirSteps, FileSteps, call
  <2> QED BY <1>6, <2>1, GoesReads
<1>7. CASE \E s \in DOMAIN source : Enter(s)
  BY <1>7, GoesEnters
<1>8. CASE Leave
  BY <1>8, GoesLeaves
<1>9. CASE Copy
  <2>1. StepFits'
    BY <1>9 DEF Copy, StepFits, DirSteps, FileSteps, call
  <2> QED BY <1>9, <2>1, GoesCopies
<1>10. CASE Other
  BY <1>10, GoesUndisturbed DEF Other, call
<1> QED
  BY <1>1, <1>2, <1>3, <1>4, <1>5, <1>6, <1>7, <1>8, <1>9, <1>10 DEF Next, Us, Walk, FileStep

-----------------------------------------------------------------------------
(***************************************************************************)
(* What an upload that nobody disturbs may rely on.                        *)
(***************************************************************************)

SkippedIfTold == \A s \in DOMAIN placed : placed[s] = Theirs => policy = "keep_existing"
InDestination ==
  \A s \in DOMAIN placed : placed[s] # Theirs => Root \in DOMAIN placed /\ placed[Root] = destination

DirectoryRelies ==
  /\ step \in {"ensure", "probe", "mkdir"} => ~IsFile(remote, item.path)
  /\ step = "read" => IsDir(remote, item.path)
FileRelies ==
  step = "copy" => IsOpen /\ \A s \in DOMAIN placed : placed[s] # Target
\* A destination that has been numbered is free when it is looked at again.
RootRelies ==
  Busy /\ step # "start" /\ item.local = Root =>
    /\ item.path = destination
    /\ policy = "keep_both" /\ step = "resolve" /\ ~item.top => ~ThereIs
    /\ step = "number" => item.top

Undisturbed ==
  /\ Whole(source, placed, remote) /\ SkippedIfTold /\ InDestination
  /\ DirectoryRelies /\ FileRelies /\ RootRelies

Fits == Inv /\ Goes /\ StepFits /\ TreeOK(remote)

LEMMA ItemNames ==
  ASSUME Fits, Busy, step # "start"
  PROVE  /\ Named(item.path) /\ Named(Target) /\ IsSequence(item.path) /\ IsSequence(Target)
         /\ item.path # Root /\ Target # Root /\ Target # Theirs /\ item.path # Theirs
<1>1. Named(item.path) /\ item.n \in Nat
  BY DEF Fits, Goes, ItemGoes, StepFits
<1>2. Named(Target)
  BY <1>1, NumberedIsNamed DEF Target
<1> QED BY <1>1, <1>2 DEF Named

LEMMA PrefixFacts ==
  ASSUME Fits, step \in {"probe", "mkdir"}
  PROVE  /\ IsSequence(Prefix)
         /\ item.n \in Nat /\ Len(item.path) \in Nat /\ item.n <= Len(item.path)
         /\ ~(item.n < Len(item.path)) => Prefix = item.path
<1>1. item.n \in 1..Len(item.path) /\ Busy /\ step # "start"
  BY DEF Fits, StepFits, Busy
<1>2. item.path \in Seq(ToSet(item.path)) /\ item.path # Root
  BY <1>1, ItemNames DEF IsSequence
<1>3. Len(item.path) \in Nat
  BY <1>2
<1>4. item.n \in Nat /\ item.n <= Len(item.path)
  BY <1>1, <1>3
<1>5. Prefix \in Seq(ToSet(item.path))
  BY <1>1, <1>2, <1>3, SubSeqProperties DEF Prefix
<1>6. IsSequence(Prefix)
  BY <1>5, InSeqIsSequence
<1>7. ~(item.n < Len(item.path)) => Prefix = item.path
  <2>1. SUFFICES ASSUME ~(item.n < Len(item.path))
                 PROVE  Prefix = item.path
    OBVIOUS
  <2>2. item.n = Len(item.path)
    BY <1>3, <1>4, <2>1
  <2>3. SubSeq(item.path, 1, Len(item.path)) = item.path
    BY <1>2
  <2> QED BY <2>2, <2>3 DEF Prefix
<1> QED BY <1>3, <1>4, <1>6, <1>7

\* Under Replace nothing has been placed where the item goes, or below.
LEMMA NotPlacedYet ==
  ASSUME Fits, Busy, step # "start", policy = "replace"
  PROVE  \A s \in DOMAIN placed : ~IsPrefix(item.path, placed[s]) /\ item.path # placed[s]
<1>1. PICK Parts : destination \in Seq(Parts)
  BY DEF Fits, Inv, InPlace
<1>2. IsSequence(destination)
  BY <1>1, InSeqIsSequence
<1>3. item.path = destination \o item.local
  BY DEF Fits, Inv, InPlace
<1>4. Walks(source, {item.local}, stack, placed)
  BY DEF Fits, Goes, Walking, Now, Inv, CallOK, Busy
<1>5. \A s \in DOMAIN placed : placed[s] = destination \o s
  BY DEF Fits, Goes, PlacedInPlace
<1>6. ASSUME NEW src, src = item.local
      PROVE  \A s \in DOMAIN placed :
               ~IsPrefix(destination \o src, placed[s]) /\ destination \o src # placed[s]
  <2>1. Walks(source, {src}, stack, placed)
    BY <1>4, <1>6
  <2> QED BY <1>2, <1>5, <2>1, PlacesApart
<1> QED BY <1>3, <1>6

LEMMA TargetInPlace ==
  ASSUME Fits, step \in FileSteps, policy = "replace"
  PROVE  Target = item.path
<1>1. item.n = 0
  BY DEF Fits, StepFits
<1> QED BY <1>1 DEF Target, Numbered

\* What there is on the server is a tree after each step of the upload.
LEMMA TreeKept == Fits /\ Next => TreeOK(remote')
<1> SUFFICES ASSUME Fits, Next
             PROVE  TreeOK(remote')
  OBVIOUS
<1>1. TreeOK(remote) /\ Inv
  BY DEF Fits
<1>2. CASE UNCHANGED remote
  BY <1>1, <1>2
<1>3. CASE Mkdir
  <2>1. /\ step = "mkdir" /\ CanAdd(remote, Prefix)
        /\ remote' = With(remote, Prefix, Dir(MarkOf(item.local)))
    BY <1>3 DEF Mkdir
  <2>2. IsSequence(Prefix) /\ IsEntry(Dir(MarkOf(item.local)))
    BY <2>1, PrefixFacts, EntriesAre
  <2> QED BY <1>1, <2>1, <2>2, WithKeeps
<1>4. CASE CreateExclusive \/ OpenTruncated \/ CreateAgain
  <2>1. /\ step \in {"exclusive", "open", "create"}
        /\ CanAdd(remote, Target) \/ IsFile(remote, Target)
        /\ remote' = With(remote, Target, File(MarkOf(item.local), 0))
    BY <1>4 DEF CreateExclusive, CanCreate, OpenTruncated, CreateAgain, Opened, NewFile
  <2>2. IsSequence(Target) /\ IsEntry(File(MarkOf(item.local), 0))
    BY <2>1, ItemNames, EntriesAre DEF Busy
  <2> QED BY <1>1, <2>1, <2>2, WithKeeps
<1>5. CASE Unlink \/ UnlinkOld
  <2>1. /\ step \in {"unlink", "unlink_old"}
        /\ \/ remote' = Without(remote, item.path)
           \/ remote' = Without(remote, Target)
           \/ remote' = remote
    BY <1>5 DEF Unlink, UnlinkOld
  <2>2. IsSequence(Target) /\ Target # Root /\ IsSequence(item.path) /\ item.path # Root
    BY <2>1, ItemNames DEF Busy
  <2> QED BY <1>1, <2>1, <2>2, WithoutKeeps
<1>6. CASE Copy
  <2>1. /\ step = "copy"
        /\ \/ remote' = remote
           \/ /\ IsFile(remote, Target)
              /\ remote' = With(remote, Target, File(MarkOf(item.local), source[item.local].size))
    BY <1>6 DEF Copy, IsOpen
  <2>2. source[item.local].size \in Nat
    BY <1>1, SizeIsNat DEF Inv, CallOK, ItemOK
  <2>3. IsSequence(Target) /\ IsEntry(File(MarkOf(item.local), source[item.local].size))
    BY <2>1, <2>2, ItemNames, EntriesAre DEF Busy
  <2> QED BY <1>1, <2>1, <2>3, WithKeeps
<1>7. CASE Other
  <2>1. \E p \in Contested : OtherCreates(p) \/ OtherRemoves(p)
    BY <1>7 DEF Other
  <2>2. PICK p \in Contested : OtherCreates(p) \/ OtherRemoves(p)
    BY <2>1
  <2>3. IsSequence(p) /\ p # Root
    BY TransfersAssumption
  <2>4. CASE OtherCreates(p)
    <3>1. PICK entry \in {File(Theirs, 0), Dir(Theirs)} : remote' = With(remote, p, entry) /\ CanAdd(remote, p)
      BY <2>4 DEF OtherCreates
    <3>2. IsEntry(entry)
      BY <3>1, EntriesAre
    <3> QED BY <1>1, <2>3, <3>1, <3>2, WithKeeps
  <2>5. CASE OtherRemoves(p)
    BY <1>1, <2>3, <2>5, WithoutKeeps DEF OtherRemoves
  <2> QED BY <2>2, <2>4, <2>5
<1>8. CASE CallFails \/ Start \/ ReadDirectory \/ Leave \/ \E s \in DOMAIN source : Enter(s)
  BY <1>2, <1>8 DEF CallFails, Fails, Start, ReadDirectory, Leave, Enter
<1>9. CASE Resolve \/ NumberDirectory \/ LookForFile \/ Ensure
  <2>1. CASE Resolve \/ NumberDirectory
    BY <1>1, <1>2, <2>1, ResolveKinds DEF Fits, Destined, SkipItem, Look
  <2>2. CASE LookForFile \/ Ensure
    BY <1>2, <2>2 DEF LookForFile, Ensure, Look
  <2> QED BY <1>9, <2>1, <2>2
<1>10. CASE Probe \/ LookAtFile \/ SomeoneWasFaster \/ OpenFails
  <2>1. CASE Probe
    BY <1>2, <2>1 DEF Probe
  <2>2. CASE LookAtFile
    <3>1. \/ Fails
          \/ SkipItem("next")
          \/ \E next : Look(next)
      BY <1>1, <2>2, TreesAssumption DEF LookAtFile, Refused, NextNumber, Inv, CallOK
    <3> QED
      BY <1>2, <3>1 DEF Fails, SkipItem, Look
  <2>3. CASE SomeoneWasFaster
    BY <1>2, <2>3 DEF SomeoneWasFaster, NextNumber, SkipItem, Look
  <2>4. CASE OpenFails
    BY <1>2, <2>4 DEF OpenFails, Fails, Look
  <2> QED
    BY <1>10, <2>1, <2>2, <2>3, <2>4
<1> QED
  BY <1>3, <1>4, <1>5, <1>6, <1>7, <1>8, <1>9, <1>10 DEF Next, Us, Walk

\* A step that goes on with the same item, and may change the server.
LEMMA UndisturbedStays ==
  ASSUME Undisturbed, Stays, Whole(source, placed, remote'), DirectoryRelies', FileRelies',
         step' \notin {"resolve", "number"}
  PROVE  Undisturbed'
<1>1. /\ UNCHANGED <<policy, source, placed, destination>> /\ Busy /\ step # "start"
      /\ item'.local = item.local /\ item'.path = item.path
  BY DEF Stays, call
<1>2. SkippedIfTold' /\ InDestination'
  BY <1>1 DEF Undisturbed, SkippedIfTold, InDestination
<1>3. RootRelies'
  BY <1>1 DEF Undisturbed, RootRelies
<1> QED BY <1>1, <1>2, <1>3 DEF Undisturbed

LEMMA UndisturbedSkips ==
  ASSUME Undisturbed, SkipItem("next"), policy = "keep_existing"
  PROVE  Undisturbed'
<1>1. /\ step' = "next" /\ UNCHANGED <<policy, source, remote, destination>>
      /\ placed' = [s \in DOMAIN placed \cup Below(source, item.local) |->
                      IF s \in DOMAIN placed THEN placed[s] ELSE Theirs]
  BY DEF SkipItem, call, Skipped
<1>2. Whole(source, placed', remote)
  BY <1>1, WholeIfSkipped DEF Undisturbed
<1>3. SkippedIfTold' /\ InDestination'
  BY <1>1 DEF Undisturbed, SkippedIfTold, InDestination
<1>4. DirectoryRelies' /\ FileRelies' /\ RootRelies'
  BY <1>1 DEF DirectoryRelies, FileRelies, RootRelies, Busy
<1> QED BY <1>1, <1>2, <1>3, <1>4 DEF Undisturbed

LEMMA UndisturbedFails ==
  ASSUME Undisturbed, Fails
  PROVE  Undisturbed'
<1>1. step' = "done" /\ UNCHANGED <<policy, source, remote, placed, destination>>
  BY DEF Fails, call
<1> QED
  BY <1>1 DEF Undisturbed, SkippedIfTold, InDestination, DirectoryRelies, FileRelies, RootRelies, Busy

LEMMA UndisturbedStarts ==
  ASSUME Fits, Undisturbed, Start
  PROVE  Undisturbed'
<1>1. /\ step = "start" /\ UNCHANGED <<policy, source, remote, placed>> /\ item.local = Root /\ Busy
      /\ step' \in {"resolve", "file"}
      /\ item'.path = destination' /\ item'.top = TRUE
  BY DEF Start, call, NoItem, Fits, Inv, TopIsFirst, Busy
<1>2. DOMAIN placed = {}
  BY <1>1, RootIsFirst DEF Fits
<1>3. SkippedIfTold' /\ InDestination'
  BY <1>1, <1>2 DEF SkippedIfTold, InDestination
<1>4. DirectoryRelies' /\ FileRelies' /\ RootRelies'
  BY <1>1 DEF DirectoryRelies, FileRelies, RootRelies
<1> QED BY <1>1, <1>3, <1>4 DEF Undisturbed

\* Where a directory goes has been decided, and whatever is there is one.
LEMMA UndisturbedDestined ==
  ASSUME Fits, Undisturbed, step \in {"resolve", "number"}, NEW p, Destined(p),
         policy # "replace" => ~IsFile(remote, p),
         policy = "keep_both" => ~Exists(remote, p),
         p = item.path \/ step = "number"
  PROVE  Undisturbed'
<1>1. /\ item'.local = item.local /\ item'.path = p /\ item'.top = FALSE
      /\ destination' = IF item.top THEN p ELSE destination
      /\ step' = IF item.top THEN "resolve" ELSE IF policy = "replace" THEN "clear" ELSE "ensure"
      /\ UNCHANGED <<policy, source, remote, placed>> /\ Busy /\ step # "start"
  BY DEF Destined, call, Fits, Inv, ItemOK, Busy
<1>2. item.top => DOMAIN placed = {}
  <2>1. item.top => item.local = Root
    BY <1>1 DEF Fits, Inv, ItemOK, TopIsFirst
  <2> QED BY <1>1, <2>1, RootIsFirst DEF Fits
<1>3. SkippedIfTold' /\ InDestination'
  <2>1. SkippedIfTold'
    BY <1>1 DEF Undisturbed, SkippedIfTold
  <2>2. CASE item.top
    BY <1>1, <1>2, <2>2, <2>1 DEF InDestination
  <2>3. CASE ~item.top
    BY <1>1, <2>3, <2>1 DEF Undisturbed, InDestination
  <2> QED BY <2>1, <2>2, <2>3
<1>4. DirectoryRelies' /\ FileRelies'
  BY <1>1 DEF DirectoryRelies, FileRelies
<1>5. RootRelies'
  <2>1. SUFFICES ASSUME item.local = Root
                 PROVE  /\ item'.path = destination'
                        /\ policy = "keep_both" => ~Exists(remote, p)
    BY <1>1 DEF RootRelies, ThereIs
  <2>2. CASE item.top
    BY <1>1, <2>2
  <2>3. CASE ~item.top
    <3>1. item.path = destination /\ step # "number"
      BY <1>1, <2>1, <2>3 DEF Undisturbed, RootRelies
    <3> QED BY <1>1, <2>3, <3>1
  <2> QED BY <2>2, <2>3
<1> QED BY <1>1, <1>3, <1>4, <1>5 DEF Undisturbed

LEMMA UndisturbedResolves ==
  ASSUME Fits, Undisturbed, Resolve \/ NumberDirectory
  PROVE  Undisturbed'
<1>1. /\ step \in {"resolve", "number"} /\ TreeOK(remote)
      /\ policy \in {"keep_existing", "replace", "keep_both"}
  BY ResolveKinds, TreesAssumption DEF Fits, Inv, CallOK
<1>2. CASE Resolve /\ Destined(item.path)
  <2>1. ThereIs /\ policy # "replace" => policy = "keep_existing" /\ IsDir(remote, item.path)
    <3>1. CASE ~ThereIs \/ Merges
      BY <3>1 DEF Merges
    <3>2. CASE ThereIs /\ ~Merges
      <4>1. SkipItem("next") \/ Look("number")
        BY <1>1, <1>2, <3>2 DEF Resolve, Merges
      <4>2. step' \in {"next", "number"}
        BY <4>1 DEF SkipItem, Look, GoOn
      <4> QED BY <1>2, <4>2 DEF Destined
    <3> QED BY <3>1, <3>2
  <2>2. policy # "replace" => ~IsFile(remote, item.path)
    BY <2>1 DEF ThereIs, IsFile, IsDir
  <2> QED BY <1>1, <1>2, <2>1, <2>2, UndisturbedDestined DEF ThereIs
<1>3. CASE NumberDirectory /\ Destined(Numbered(item.path, item.n)) /\ policy = "keep_both"
  <2>1. ~Exists(remote, Numbered(item.path, item.n)) /\ step = "number"
    <3>1. CASE Exists(remote, Numbered(item.path, item.n))
      <4>1. Look("number") /\ item' = [item EXCEPT !.n = @ + 1]
        BY <1>3, <3>1 DEF NumberDirectory
      <4>2. step' = "number"
        BY <4>1 DEF Look, GoOn
      <4> QED BY <1>3, <4>2 DEF Destined
    <3> QED BY <1>3, <3>1 DEF NumberDirectory
  <2>2. ~IsFile(remote, Numbered(item.path, item.n))
    BY <2>1 DEF IsFile
  <2> QED BY <1>1, <1>3, <2>1, <2>2, UndisturbedDestined
<1>4. CASE policy = "keep_existing" /\ SkipItem("next")
  BY <1>4, UndisturbedSkips
<1>5. CASE /\ item' = [item EXCEPT !.n = 1] \/ item' = [item EXCEPT !.n = item.n + 1]
           /\ policy = "keep_both" /\ Look("number") /\ Stays
  <2>1. /\ UNCHANGED <<policy, source, remote, placed, destination>> /\ Busy /\ step # "start"
        /\ item'.local = item.local /\ item'.path = item.path /\ item'.top = item.top
        /\ step' = "number"
    BY <1>5 DEF Stays, call, Look, GoOn
  <2>2. SkippedIfTold' /\ InDestination' /\ DirectoryRelies' /\ FileRelies'
    BY <2>1 DEF Undisturbed, SkippedIfTold, InDestination, DirectoryRelies, FileRelies
  <2>3. step = "resolve" => ThereIs
    <3>1. SUFFICES ASSUME step = "resolve", ~ThereIs
                   PROVE  FALSE
      OBVIOUS
    <3>2. Resolve
      BY <3>1 DEF NumberDirectory
    <3>3. Destined(item.path)
      BY <3>1, <3>2 DEF Resolve
    <3> QED BY <2>1, <3>3 DEF Destined
  <2>4. RootRelies'
    BY <1>1, <1>5, <2>1, <2>3 DEF Undisturbed, RootRelies
  <2> QED BY <2>1, <2>2, <2>4 DEF Undisturbed
<1> QED BY <1>2, <1>3, <1>4, <1>5, ResolveKinds DEF Fits

LEMMA UndisturbedLooks ==
  ASSUME Fits, Undisturbed, LookForFile \/ Ensure \/ Probe
  PROVE  Undisturbed'
<1>1. /\ Stays /\ remote' = remote /\ step' \notin {"resolve", "number"} \cup FileSteps
      /\ step' \in {"read", "unlink", "ensure", "probe", "mkdir"}
  <2>1. Stays
    BY FitsDirectory DEF Fits
  <2> QED BY <2>1 DEF LookForFile, Ensure, Probe, AfterPrefix, GoOn, Look, FileSteps
<1>2. item'.path = item.path /\ placed' = placed /\ TreeOK(remote)
  BY <1>1 DEF Stays, Fits
<1>3. DirectoryRelies'
  <2>1. CASE LookForFile
    BY <1>2, <2>1 DEF LookForFile, Look, GoOn, DirectoryRelies, ThereIs, IsFile
  <2>2. CASE Ensure
    BY <1>2, <2>2 DEF Ensure, Look, GoOn, DirectoryRelies, Undisturbed
  <2>3. CASE Probe
    <3>1. ~IsFile(remote, item.path) /\ step = "probe"
      BY <2>3 DEF Probe, Undisturbed, DirectoryRelies
    <3>2. step' = "read" => IsDir(remote, item.path)
      <4>1. SUFFICES ASSUME step' = "read"
                     PROVE  IsDir(remote, item.path)
        OBVIOUS
      <4>2. Exists(remote, Prefix) /\ ~(item.n < Len(item.path))
        BY <2>3, <4>1 DEF Probe, AfterPrefix, GoOn
      <4>3. Exists(remote, item.path)
        BY <3>1, <4>2, PrefixFacts
      <4>4. IsEntry(remote[item.path])
        BY <1>2, <4>3 DEF TreeOK, Exists
      <4> QED BY <3>1, <4>3, <4>4, EntryKinds
    <3> QED BY <1>1, <1>2, <3>1, <3>2 DEF DirectoryRelies
  <2> QED BY <2>1, <2>2, <2>3
<1>4. FileRelies'
  BY <1>1 DEF FileRelies
<1>5. Whole(source, placed, remote')
  BY <1>1 DEF Undisturbed
<1> QED BY <1>1, <1>3, <1>4, <1>5, UndisturbedStays

LEMMA UndisturbedUnlinks ==
  ASSUME Fits, Undisturbed, Unlink \/ UnlinkOld
  PROVE  Undisturbed'
<1>1. /\ step \in {"unlink", "unlink_old"} /\ policy = "replace" /\ Busy /\ step # "start"
  BY DEF Unlink, UnlinkOld, Busy, Fits, Inv, CallOK, ReplaceSteps
<1>2. step = "unlink_old" => Target = item.path
  BY <1>1, TargetInPlace DEF FileSteps
<1>3. /\ remote' = remote \/ remote' = Without(remote, item.path)
      /\ step = "unlink" => remote' = Without(remote, item.path)
      /\ step' \in {"ensure", "create"} /\ (step' = "ensure" => step = "unlink")
  BY <1>1, <1>2 DEF Unlink, UnlinkOld, GoOn
<1>4. \A s \in DOMAIN placed : ~IsPrefix(item.path, placed[s])
  BY <1>1, NotPlacedYet
<1>5. Whole(source, placed, remote')
  <2>1. Whole(source, placed, Without(remote, item.path))
    BY <1>4, WholeIfRemoved DEF Undisturbed
  <2> QED BY <1>3, <2>1 DEF Undisturbed
<1>6. Stays
  <2>1. CASE Unlink
    BY <2>1, FitsDirectory DEF Fits
  <2>2. CASE UnlinkOld
    <3>1. FileStep
      BY <2>2 DEF FileStep
    <3>2. ~Fails /\ ~SkipItem("next")
      BY <1>3 DEF Fails, SkipItem
    <3> QED BY <3>1, <3>2, FileStepKinds DEF Fits
  <2> QED BY <2>1, <2>2
<1>7. DirectoryRelies'
  <2>1. step' = "ensure" => ~Exists(remote', item.path)
    <3>1. SUFFICES ASSUME step' = "ensure"
                   PROVE  ~Exists(remote', item.path)
      OBVIOUS
    <3>2. DOMAIN remote' = {q \in DOMAIN remote : ~IsPrefix(item.path, q)}
      BY <1>3, <3>1 DEF Without, Below
    <3>3. IsPrefix(item.path, item.path)
      BY <1>1, ItemNames, PrefixRefl DEF IsSequence
    <3> QED BY <3>2, <3>3 DEF Exists
  <2> QED BY <1>3, <1>6, <2>1 DEF DirectoryRelies, Stays, IsFile
<1>8. FileRelies' /\ step' \notin {"resolve", "number"}
  BY <1>3 DEF FileRelies
<1> QED BY <1>5, <1>6, <1>7, <1>8, UndisturbedStays

LEMMA UndisturbedMakes ==
  ASSUME Fits, Undisturbed, Mkdir
  PROVE  Undisturbed'
<1>1. /\ step = "mkdir" /\ CanAdd(remote, Prefix) /\ placed' = placed
      /\ remote' = With(remote, Prefix, Dir(MarkOf(item.local)))
      /\ step' \in {"probe", "read"} /\ (step' = "read" => ~(item.n < Len(item.path)))
  BY DEF Mkdir, AfterPrefix, GoOn
<1>2. Stays /\ item'.path = item.path
  <2>1. Stays
    BY FitsDirectory DEF Fits
  <2> QED BY <2>1 DEF Stays
<1>3. Whole(source, placed, remote')
  BY <1>1, WholeIfAdded DEF CanAdd, Exists, Undisturbed
<1>4. /\ DOMAIN remote' = DOMAIN remote \cup {Prefix}
      /\ remote'[Prefix] = Dir(MarkOf(item.local))
      /\ \A q \in DOMAIN remote : q # Prefix => remote'[q] = remote[q]
  BY <1>1 DEF With
<1>5. remote'[Prefix].kind = "dir"
  BY <1>4 DEF Dir
<1>6. ~IsFile(remote', item.path)
  BY <1>1, <1>4, <1>5 DEF IsFile, Exists, Undisturbed, DirectoryRelies
<1>7. step' = "read" => IsDir(remote', item.path)
  BY <1>1, <1>4, <1>5, PrefixFacts DEF IsDir, Exists
<1>8. DirectoryRelies' /\ FileRelies'
  BY <1>1, <1>2, <1>6, <1>7 DEF DirectoryRelies, FileRelies
<1> QED BY <1>1, <1>2, <1>3, <1>8, UndisturbedStays

\* The file is there, is the upload's own, and is none that has been placed.
LEMMA UndisturbedOpens ==
  ASSUME Fits, Undisturbed, CreateExclusive \/ OpenTruncated \/ CreateAgain
  PROVE  Undisturbed'
<1>1. /\ step \in {"exclusive", "open", "create"} /\ step \in FileSteps /\ Busy /\ step # "start"
      /\ CanAdd(remote, Target) \/ (policy = "replace" /\ IsFile(remote, Target))
      /\ remote' = With(remote, Target, File(MarkOf(item.local), 0))
      /\ step' = "copy" /\ item' = item /\ placed' = placed
  BY DEF CreateExclusive, CanCreate, OpenTruncated, CreateAgain, Opened, NewFile, GoOn, FileSteps, Busy,
         Fits, Inv, CallOK, ReplaceSteps
<1>2. Stays
  <2>1. FileStep
    BY DEF FileStep
  <2>2. ~Fails /\ ~SkipItem("next")
    BY <1>1 DEF Fails, SkipItem
  <2> QED BY <2>1, <2>2, FileStepKinds DEF Fits
<1>3. \A s \in DOMAIN placed : placed[s] # Target
  <2>1. CASE policy = "replace"
    BY <1>1, <2>1, NotPlacedYet, TargetInPlace
  <2>2. CASE policy # "replace"
    <3>1. Target \notin DOMAIN remote /\ Target # Theirs
      BY <1>1, <2>2, ItemNames DEF CanAdd, Exists
    <3> QED BY <3>1 DEF Undisturbed, Whole
  <2> QED BY <2>1, <2>2
<1>4. Whole(source, placed, remote')
  BY <1>1, <1>3, WholeIfElsewhere DEF Undisturbed
<1>5. Target' = Target /\ MarkOf(item.local)' = MarkOf(item.local)
  BY <1>1 DEF Target, MarkOf
<1>6. IsOpen'
  <2>1. Target \in DOMAIN remote' /\ remote'[Target] = File(MarkOf(item.local), 0)
    BY <1>1 DEF With
  <2> QED BY <1>1, <1>5, <2>1, EntriesAre DEF IsOpen, IsFile, Exists
<1>7. FileRelies' /\ DirectoryRelies'
  BY <1>1, <1>3, <1>5, <1>6 DEF FileRelies, DirectoryRelies
<1> QED BY <1>1, <1>2, <1>4, <1>7, UndisturbedStays

LEMMA UndisturbedLooksAtFile ==
  ASSUME Fits, Undisturbed, LookAtFile \/ SomeoneWasFaster \/ OpenFails
  PROVE  Undisturbed'
<1>1. FileStep
  BY DEF FileStep
<1>2. CASE Stays
  <2>1. remote' = remote /\ step' \in {"file", "exclusive", "open", "unlink_old"}
    <3>1. ~Fails /\ ~SkipItem("next")
      BY <1>2 DEF Stays, Fails, SkipItem, Steps
    <3>2. CASE LookAtFile
      <4>1. policy \in {"keep_existing", "replace", "keep_both"}
        BY TreesAssumption DEF Fits, Inv, CallOK
      <4>2. \/ Look("open")
            \/ Look("exclusive")
            \/ Look("file")
        BY <3>1, <3>2, <4>1 DEF LookAtFile, Refused, NextNumber
      <4> QED BY <4>2 DEF Look, GoOn
    <3>3. CASE SomeoneWasFaster
      BY <3>1, <3>3 DEF SomeoneWasFaster, NextNumber, Look, GoOn
    <3>4. CASE OpenFails
      BY <3>1, <3>4 DEF OpenFails, Look, GoOn
    <3> QED BY <3>2, <3>3, <3>4
  <2>2. FileRelies' /\ DirectoryRelies'
    BY <2>1 DEF FileRelies, DirectoryRelies
  <2>3. Whole(source, placed, remote')
    BY <2>1 DEF Undisturbed
  <2> QED BY <1>2, <2>1, <2>2, <2>3, UndisturbedStays
<1> QED BY <1>1, <1>2, FileStepKinds, UndisturbedSkips, UndisturbedFails DEF Fits

-----------------------------------------------------------------------------
\* What has been placed is in the destination that the call will return.
LEMMA PlacedInDestination ==
  ASSUME Fits, Undisturbed, Busy, step # "start", NEW p, p # Theirs,
         placed' = With(placed, item.local, p),
         item.local = Root => destination' = p,
         item.local # Root => destination' = destination
  PROVE  InDestination'
<1>1. /\ DOMAIN placed' = DOMAIN placed \cup {item.local} /\ placed'[item.local] = p
      /\ \A s \in DOMAIN placed : s # item.local => placed'[s] = placed[s]
  BY DEF With
<1>2. CASE item.local = Root
  <2>1. DOMAIN placed = {}
    BY <1>2, RootIsFirst DEF Fits
  <2> QED BY <1>1, <1>2, <2>1 DEF InDestination
<1>3. CASE item.local # Root
  <2>1. \E d \in DOMAIN placed : placed[d] # Theirs
    BY <1>3 DEF Fits, Goes, ItemGoes
  <2>2. Root \in DOMAIN placed /\ placed[Root] = destination
    BY <2>1 DEF Undisturbed, InDestination
  <2> QED BY <1>1, <1>3, <2>2 DEF InDestination
<1> QED BY <1>2, <1>3

LEMMA UndisturbedReads ==
  ASSUME Fits, Undisturbed, ReadDirectory
  PROVE  Undisturbed'
<1>1. /\ step = "read" /\ step' = "next" /\ Busy /\ step # "start"
      /\ placed' = With(placed, item.local, item.path)
      /\ UNCHANGED <<policy, source, remote, destination>>
  BY DEF ReadDirectory, call, Busy
<1>2. IsDir(remote, item.path) /\ IsDir(source, item.local) /\ source \in Sources /\ TreeOK(remote)
  BY <1>1 DEF Undisturbed, DirectoryRelies, Fits, StepFits, DirSteps, Inv, CallOK
<1>3. /\ item.path \in DOMAIN remote /\ remote[item.path].kind = source[item.local].kind
      /\ remote[item.path].size = source[item.local].size
  <2>1. item.path \in DOMAIN remote /\ remote[item.path].kind = "dir" /\ source[item.local].kind = "dir"
    BY <1>2 DEF IsDir, Exists
  <2>2. remote[item.path].size = 0
    BY <1>2, <2>1, DirHasNoSize DEF TreeOK
  <2>3. source[item.local].size = 0
    BY <1>2, SizeIsNat DEF IsDir, Exists
  <2> QED BY <2>1, <2>2, <2>3
<1>4. Whole(source, placed', remote)
  BY <1>1, <1>3, WholeIfPlaced DEF Undisturbed
<1>5. item.path # Theirs
  BY <1>1, ItemNames
<1>6. SkippedIfTold'
  BY <1>1, <1>5 DEF Undisturbed, SkippedIfTold, With
<1>7. InDestination'
  <2>1. item.local = Root => destination' = item.path
    BY <1>1 DEF Undisturbed, RootRelies
  <2> QED BY <1>1, <1>5, <2>1, PlacedInDestination
<1>8. DirectoryRelies' /\ FileRelies' /\ RootRelies'
  BY <1>1 DEF DirectoryRelies, FileRelies, RootRelies, Busy
<1> QED BY <1>1, <1>4, <1>6, <1>7, <1>8 DEF Undisturbed

\* The source itself is walked before any directory is.
LEMMA RootHasNoFrames ==
  ASSUME Fits, Busy, item.local = Root
  PROVE  stack = <<>>
<1>1. DOMAIN placed = {}
  BY RootIsFirst DEF Fits
<1>2. Walks(source, {Root}, stack, placed)
  BY DEF Fits, Goes, Walking, Now, Inv, CallOK, Busy
<1>3. \A i \in DOMAIN stack : FALSE
  BY <1>1, <1>2 DEF Walks, FramePlaced
<1>4. PICK Fs : stack \in Seq(Fs)
  BY <1>2 DEF Walks
<1> QED BY <1>3, <1>4

LEMMA UndisturbedCopies ==
  ASSUME Fits, Undisturbed, Copy
  PROVE  Undisturbed'
<1>1. /\ step = "copy" /\ step' = "next" /\ Busy /\ step # "start" /\ step \in FileSteps
      /\ placed' = With(placed, item.local, Target)
      /\ destination' = IF stack = <<>> THEN Target ELSE destination
      /\ UNCHANGED <<policy, source>>
  BY DEF Copy, call, Busy, FileSteps
<1>2. IsOpen /\ \A s \in DOMAIN placed : placed[s] # Target
  BY <1>1 DEF Undisturbed, FileRelies
<1>3. remote' = With(remote, Target, File(MarkOf(item.local), source[item.local].size))
  BY <1>2 DEF Copy
<1>4. source[item.local].kind = "file" /\ source[item.local].size \in Nat
  BY <1>1, SizeIsNat DEF Fits, Inv, ItemOK, CallOK
<1>5. /\ Target \in DOMAIN remote' /\ remote'[Target].kind = source[item.local].kind
      /\ remote'[Target].size = source[item.local].size
  <2>1. Target \in DOMAIN remote' /\ remote'[Target] = File(MarkOf(item.local), source[item.local].size)
    BY <1>3 DEF With
  <2> QED BY <1>4, <2>1, EntriesAre
<1>6. Whole(source, placed, remote')
  BY <1>2, <1>3, WholeIfElsewhere DEF Undisturbed
<1>7. Whole(source, placed', remote')
  BY <1>1, <1>5, <1>6, WholeIfPlaced
<1>8. Target # Theirs
  BY <1>1, ItemNames
<1>9. SkippedIfTold'
  BY <1>1, <1>8 DEF Undisturbed, SkippedIfTold, With
<1>10. InDestination'
  <2>1. stack = <<>> <=> item.local = Root
    BY <1>1, RootHasNoFrames DEF Fits, Inv, TopIsFirst
  <2> QED BY <1>1, <1>8, <2>1, PlacedInDestination
<1>11. DirectoryRelies' /\ FileRelies' /\ RootRelies'
  BY <1>1 DEF DirectoryRelies, FileRelies, RootRelies, Busy
<1> QED BY <1>1, <1>7, <1>9, <1>10, <1>11 DEF Undisturbed

LEMMA UndisturbedWalks ==
  ASSUME Fits, Undisturbed, Leave \/ \E s \in DOMAIN source : Enter(s)
  PROVE  Undisturbed'
<1>1. /\ UNCHANGED <<policy, source, remote, placed, destination>>
      /\ step' \in {"next", "done", "resolve", "file"}
  BY DEF Leave, Enter, call
<1>2. SkippedIfTold' /\ InDestination' /\ DirectoryRelies' /\ FileRelies'
  BY <1>1 DEF Undisturbed, SkippedIfTold, InDestination, DirectoryRelies, FileRelies
<1>3. RootRelies'
  <2>1. CASE Leave
    BY <2>1 DEF Leave, RootRelies, Busy
  <2>2. ASSUME NEW s \in DOMAIN source, Enter(s)
        PROVE  RootRelies'
    <3>1. s # Root /\ item'.local = s
      BY <2>2, GoesEnters DEF Enter, NoItem, Fits
    <3> QED BY <3>1 DEF RootRelies
  <2> QED BY <2>1, <2>2
<1> QED BY <1>1, <1>2, <1>3 DEF Undisturbed

-----------------------------------------------------------------------------
\* The state of an upload over SFTP.
UploadInv == Inv /\ Goes /\ StepFits /\ TreeOK(remote) /\ (others = 0 => Undisturbed)

LEMMA UndisturbedKept == Fits /\ Undisturbed /\ Us => Undisturbed'
<1> SUFFICES ASSUME Fits, Undisturbed, Us
             PROVE  Undisturbed'
  OBVIOUS
<1>1. CASE CallFails
  BY <1>1, UndisturbedFails DEF CallFails
<1>2. CASE Start
  BY <1>2, UndisturbedStarts
<1>3. CASE Resolve \/ NumberDirectory
  BY <1>3, UndisturbedResolves
<1>4. CASE LookForFile \/ Ensure \/ Probe
  BY <1>4, UndisturbedLooks
<1>5. CASE Unlink \/ UnlinkOld
  BY <1>5, UndisturbedUnlinks
<1>6. CASE Mkdir
  BY <1>6, UndisturbedMakes
<1>7. CASE ReadDirectory
  BY <1>7, UndisturbedReads
<1>8. CASE CreateExclusive \/ OpenTruncated \/ CreateAgain
  BY <1>8, UndisturbedOpens
<1>9. CASE LookAtFile \/ SomeoneWasFaster \/ OpenFails
  BY <1>9, UndisturbedLooksAtFile
<1>10. CASE Copy
  BY <1>10, UndisturbedCopies
<1>11. CASE Leave \/ \E s \in DOMAIN source : Enter(s)
  BY <1>11, UndisturbedWalks
<1> QED BY <1>1, <1>2, <1>3, <1>4, <1>5, <1>6, <1>7, <1>8, <1>9, <1>10, <1>11 DEF Us, Walk

LEMMA UploadInitInv == Init => UploadInv
<1> SUFFICES ASSUME Init
             PROVE  UploadInv
  OBVIOUS
<1>1. /\ placed = <<>> /\ step = "start" /\ remote \in Remotes
  BY DEF Init
<1>2. TreeOK(remote)
  BY <1>1, InitialTreesOK
<1>3. Undisturbed
  BY <1>1 DEF Undisturbed, Whole, SkippedIfTold, InDestination, DirectoryRelies, FileRelies, RootRelies
<1> QED BY <1>2, <1>3, InitInv, GoesFirst DEF UploadInv

LEMMA UploadNextInv == UploadInv /\ Next => UploadInv'
<1> SUFFICES ASSUME UploadInv, Next
             PROVE  UploadInv'
  OBVIOUS
<1>1. Fits
  BY DEF UploadInv, Fits
<1>2. Inv' /\ Goes' /\ StepFits' /\ TreeOK(remote')
  BY <1>1, NextInv, GoesInv, TreeKept DEF Fits
<1>3. others' = 0 => Undisturbed'
  <2>1. CASE Us
    BY <1>1, <2>1, OnlyOthersCount, UndisturbedKept DEF UploadInv, Fits
  <2>2. CASE Other
    BY <2>2 DEF Other, UploadInv, Inv, CallOK
  <2> QED BY <2>1, <2>2 DEF Next
<1> QED BY <1>2, <1>3 DEF UploadInv

-----------------------------------------------------------------------------
(***************************************************************************)
(* 5. Sizes.  SizeBelow adds up the sizes of a set of paths one by one:    *)
(* the function that does is there, and does not depend on the order.      *)
(***************************************************************************)

Some(T) == CHOOSE q \in T : TRUE
AddsUp(B, tree, f) ==
  f = [T \in SUBSET B |-> IF T = {} THEN 0 ELSE tree[Some(T)].size + f[T \ {Some(T)}]]
SizesIn(B, tree) == CHOOSE f : AddsUp(B, tree, f)

LEMMA SizeBelowIs ==
  ASSUME NEW tree, NEW p
  PROVE  SizeBelow(tree, p) = SizesIn(Below(tree, p), tree)[Below(tree, p)]
BY DEF SizeBelow, SizesIn, AddsUp, Some

LEMMA SmallerWithoutSome ==
  ASSUME NEW T, IsFiniteSet(T), T # {}
  PROVE  /\ Some(T) \in T /\ IsFiniteSet(T \ {Some(T)})
         /\ Cardinality(T) \in Nat /\ Cardinality(T) > 0
         /\ Cardinality(T \ {Some(T)}) = Cardinality(T) - 1
<1>1. Some(T) \in T
  BY DEF Some
<1>2. Cardinality(T) \in Nat /\ Cardinality(T) # 0
  BY FS_CardinalityType, FS_EmptySet
<1>3. IsFiniteSet(T \ {Some(T)}) /\ Cardinality(T \ {Some(T)}) = Cardinality(T) - 1
  BY <1>1, FS_RemoveElement
<1> QED BY <1>1, <1>2, <1>3

LEMMA SizesAddUp ==
  ASSUME NEW B, IsFiniteSet(B), NEW tree
  PROVE  AddsUp(B, tree, SizesIn(B, tree))
<1> DEFINE Small(n) == {T \in SUBSET B : Cardinality(T) <= n}
           Next1(f, T) == IF T = {} THEN 0 ELSE tree[Some(T)].size + f[T \ {Some(T)}]
           Adds(n, f) == f = [T \in Small(n) |-> Next1(f, T)]
           S == {n \in Nat : \E f : Adds(n, f)}
<1>1. \A T \in SUBSET B : IsFiniteSet(T) /\ Cardinality(T) \in Nat /\ (Cardinality(T) = 0 <=> T = {})
  BY FS_Subset, FS_CardinalityType, FS_EmptySet
<1>2. 0 \in S
  <2>1. \A T \in Small(0) : T = {}
    BY <1>1
  <2>2. Adds(0, [T \in Small(0) |-> 0])
    BY <2>1
  <2> QED BY <2>2
<1>3. ASSUME NEW n \in Nat, n \in S
      PROVE  n + 1 \in S
  <2>1. PICK f : Adds(n, f)
    BY <1>3
  <2> DEFINE g == [T \in Small(n + 1) |-> Next1(f, T)]
  <2>2. \A T \in Small(n) : T \in Small(n + 1) /\ f[T] = Next1(f, T)
    <3>1. \A T \in Small(n) : T \in Small(n + 1)
      BY <1>1
    <3>2. \A T \in Small(n) : f[T] = Next1(f, T)
      <4> HIDE DEF Small, Next1
      <4> QED BY <2>1
    <3> QED BY <3>1, <3>2
  <2>3. \A T \in Small(n) : g[T] = f[T]
    BY <2>2
  <2>4. ASSUME NEW T \in Small(n + 1)
        PROVE  Next1(f, T) = Next1(g, T)
    <3>1. CASE T = {}
      BY <3>1
    <3>2. CASE T # {}
      <4>1. /\ Cardinality(T \ {Some(T)}) = Cardinality(T) - 1 /\ Cardinality(T) \in Nat
            /\ T \ {Some(T)} \in SUBSET B
        BY <1>1, <3>2, SmallerWithoutSome
      <4>2. Cardinality(T) <= n + 1
        OBVIOUS
      <4>3. Cardinality(T \ {Some(T)}) <= n
        BY <4>1, <4>2
      <4>4. T \ {Some(T)} \in Small(n)
        BY <4>1, <4>3
      <4>5. g[T \ {Some(T)}] = f[T \ {Some(T)}]
        BY <2>3, <4>4
      <4> QED BY <3>2, <4>5
    <3> QED BY <3>1, <3>2
  <2>5. Adds(n + 1, g)
    <3>1. g = [T \in Small(n + 1) |-> Next1(f, T)]
      OBVIOUS
    <3> HIDE DEF g, Next1, Small
    <3>2. [T \in Small(n + 1) |-> Next1(f, T)] = [T \in Small(n + 1) |-> Next1(g, T)]
      BY <2>4
    <3> QED BY <3>1, <3>2
  <2>6. \E h : Adds(n + 1, h)
    <3> HIDE DEF Adds, g
    <3> QED BY <2>5
  <2> HIDE DEF Adds
  <2> QED BY <2>6
<1>4. Cardinality(B) \in S
  <2>1. Nat \subseteq S
    <3> HIDE DEF S
    <3> QED BY <1>2, <1>3, InductionOverNat
  <2> QED BY <1>1, <2>1
<1>5. Small(Cardinality(B)) = SUBSET B
  <2>1. \A T \in SUBSET B : Cardinality(T) <= Cardinality(B)
    BY FS_Subset
  <2> QED BY <2>1
<1>6. \E f : AddsUp(B, tree, f)
  <2>1. PICK f : Adds(Cardinality(B), f)
    BY <1>4
  <2>2. f = [T \in SUBSET B |-> Next1(f, T)]
    BY <1>5, <2>1
  <2> QED BY <2>2 DEF AddsUp
<1> QED BY <1>6 DEF SizesIn

Sizable(B, tree) == IsFiniteSet(B) /\ \A p \in B : tree[p].size \in Nat

LEMMA SizesStep ==
  ASSUME NEW B, IsFiniteSet(B), NEW tree
  PROVE  /\ SizesIn(B, tree)[{}] = 0
         /\ \A T \in SUBSET B : T # {} =>
              SizesIn(B, tree)[T] = tree[Some(T)].size + SizesIn(B, tree)[T \ {Some(T)}]
<1> DEFINE f == SizesIn(B, tree)
<1>1. AddsUp(B, tree, f)
  BY SizesAddUp
<1> HIDE DEF f
<1>2. f[{}] = 0 /\ \A T \in SUBSET B : T # {} => f[T] = tree[Some(T)].size + f[T \ {Some(T)}]
  BY <1>1 DEF AddsUp
<1> QED BY <1>2 DEF f

LEMMA SizesAreNat ==
  ASSUME NEW B, NEW tree, Sizable(B, tree)
  PROVE  \A T \in SUBSET B : SizesIn(B, tree)[T] \in Nat
<1> DEFINE f == SizesIn(B, tree)
           Good == {T \in SUBSET B : f[T] \in Nat}
<1>1. f[{}] = 0 /\ \A T \in SUBSET B : T # {} => f[T] = tree[Some(T)].size + f[T \ {Some(T)}]
  BY SizesStep DEF Sizable
<1> HIDE DEF f
<1>2. {} \in Good
  BY <1>1
<1>3. ASSUME NEW T \in SUBSET B, T # {}, \A y \in T : T \ {y} \in Good
      PROVE  T \in Good
  <2>1. Some(T) \in T
    BY <1>3 DEF Some
  <2>2. f[T \ {Some(T)}] \in Nat /\ tree[Some(T)].size \in Nat
    BY <1>3, <2>1 DEF Sizable
  <2> QED BY <1>1, <1>3, <2>2
<1>4. SUBSET B \subseteq Good
  <2> HIDE DEF Good
  <2> QED BY <1>2, <1>3, OneByOne DEF Sizable
<1> QED BY <1>4 DEF f

\* The sizes of the same paths add up to the same, whichever set they are in.
LEMMA SizesAgree ==
  ASSUME NEW B, NEW tree, Sizable(B, tree), NEW A, NEW other, IsFiniteSet(A),
         A \subseteq B, \A p \in A : other[p].size = tree[p].size
  PROVE  \A T \in SUBSET A : SizesIn(A, other)[T] = SizesIn(B, tree)[T]
<1> DEFINE f == SizesIn(B, tree)
           g == SizesIn(A, other)
           Good == {T \in SUBSET A : g[T] = f[T]}
<1>1. f[{}] = 0 /\ \A T \in SUBSET B : T # {} => f[T] = tree[Some(T)].size + f[T \ {Some(T)}]
  BY SizesStep DEF Sizable
<1>2. g[{}] = 0 /\ \A T \in SUBSET A : T # {} => g[T] = other[Some(T)].size + g[T \ {Some(T)}]
  <2>1. /\ SizesIn(A, other)[{}] = 0
        /\ \A T \in SUBSET A : T # {} =>
             SizesIn(A, other)[T] = other[Some(T)].size + SizesIn(A, other)[T \ {Some(T)}]
    BY ONLY IsFiniteSet(A), SizesStep
  <2> QED BY <2>1
<1> HIDE DEF f, g
<1>3. {} \in Good
  BY <1>1, <1>2
<1>4. ASSUME NEW T \in SUBSET A, T # {}, \A y \in T : T \ {y} \in Good
      PROVE  T \in Good
  <2>1. Some(T) \in T
    BY <1>4 DEF Some
  <2>2. g[T \ {Some(T)}] = f[T \ {Some(T)}] /\ other[Some(T)].size = tree[Some(T)].size
    BY <1>4, <2>1
  <2> QED BY <1>1, <1>2, <1>4, <2>2
<1>5. SUBSET A \subseteq Good
  <2> HIDE DEF Good
  <2> QED BY <1>3, <1>4, OneByOne
<1> QED BY <1>5 DEF f, g

LEMMA SizeAdded ==
  ASSUME NEW B, NEW tree, Sizable(B, tree)
  PROVE  \A T \in SUBSET B : \A x \in B \ T :
           SizesIn(B, tree)[T \cup {x}] = SizesIn(B, tree)[T] + tree[x].size
<1> DEFINE f == SizesIn(B, tree)
           Good == {T \in SUBSET B : \A x \in B \ T : f[T \cup {x}] = f[T] + tree[x].size}
<1>1. f[{}] = 0 /\ \A T \in SUBSET B : T # {} => f[T] = tree[Some(T)].size + f[T \ {Some(T)}]
  BY SizesStep DEF Sizable
<1>2. /\ \A T \in SUBSET B : f[T] \in Nat
      /\ \A x \in B : tree[x].size \in Nat
  BY SizesAreNat DEF Sizable
<1> HIDE DEF f
<1>3. {} \in Good
  <2>1. SUFFICES ASSUME NEW x \in B
                 PROVE  f[{} \cup {x}] = f[{}] + tree[x].size
    OBVIOUS
  <2>2. {x} \in SUBSET B /\ Some({x}) = x /\ {x} \ {x} = {} /\ {} \cup {x} = {x}
    BY DEF Some
  <2> QED BY <1>1, <1>2, <2>2
<1>4. ASSUME NEW T \in SUBSET B, T # {}, \A y \in T : T \ {y} \in Good
      PROVE  T \in Good
  <2>1. SUFFICES ASSUME NEW x \in B \ T
                 PROVE  f[T \cup {x}] = f[T] + tree[x].size
    OBVIOUS
  <2> DEFINE U == T \cup {x}
             q == Some(U)
  <2>2. q \in U
    BY DEF Some
  <2>3. f[U] = tree[q].size + f[U \ {q}]
    BY <1>1
  <2> HIDE DEF q
  <2>4. CASE q = x
    <3>1. U \ {q} = T
      BY <2>4
    <3>2. f[T \cup {x}] = tree[x].size + f[T] /\ f[T] \in Nat /\ tree[x].size \in Nat
      BY <1>2, <2>3, <2>4, <3>1
    <3> QED BY <3>2
  <2>5. CASE q # x
    <3>1. q \in T /\ U \ {q} = (T \ {q}) \cup {x}
      BY <2>2, <2>5
    <3>2. T \ {q} \in Good /\ x \in B \ (T \ {q}) /\ q \in B \ (T \ {q})
      BY <1>4, <3>1
    <3>3. f[(T \ {q}) \cup {x}] = f[T \ {q}] + tree[x].size
      BY <3>2
    <3>4. f[(T \ {q}) \cup {q}] = f[T \ {q}] + tree[q].size
      BY <3>2
    <3>5. (T \ {q}) \cup {q} = T
      BY <3>1
    <3>6. f[T \ {q}] \in Nat /\ tree[x].size \in Nat /\ tree[q].size \in Nat
      BY <1>2, <3>1
    <3>7. f[U] = tree[q].size + (f[T \ {q}] + tree[x].size) /\ f[T] = f[T \ {q}] + tree[q].size
      BY <2>3, <3>1, <3>3, <3>4, <3>5
    <3> HIDE DEF U
    <3>8. f[U] = f[T] + tree[x].size
      BY <3>6, <3>7
    <3> QED BY <3>8 DEF U
  <2> QED BY <2>4, <2>5
<1>5. SUBSET B \subseteq Good
  <2> HIDE DEF Good
  <2> QED BY <1>3, <1>4, OneByOne DEF Sizable
<1> QED BY <1>5 DEF f

LEMMA SizesOfBoth ==
  ASSUME NEW B, NEW tree, Sizable(B, tree)
  PROVE  \A T, U \in SUBSET B : T \cap U = {} =>
           SizesIn(B, tree)[T \cup U] = SizesIn(B, tree)[T] + SizesIn(B, tree)[U]
<1> DEFINE f == SizesIn(B, tree)
           Good == {U \in SUBSET B : \A T \in SUBSET B : T \cap U = {} => f[T \cup U] = f[T] + f[U]}
<1>1. f[{}] = 0
  BY SizesStep DEF Sizable
<1>2. /\ \A T \in SUBSET B : f[T] \in Nat
      /\ \A x \in B : tree[x].size \in Nat
      /\ \A T \in SUBSET B : \A x \in B \ T : f[T \cup {x}] = f[T] + tree[x].size
  BY SizesAreNat, SizeAdded DEF Sizable
<1> HIDE DEF f
<1>3. {} \in Good
  <2>1. \A T \in SUBSET B : T \cup {} = T
    OBVIOUS
  <2> QED BY <1>1, <1>2, <2>1
<1>4. ASSUME NEW U \in SUBSET B, U # {}, \A y \in U : U \ {y} \in Good
      PROVE  U \in Good
  <2>1. SUFFICES ASSUME NEW T \in SUBSET B, T \cap U = {}
                 PROVE  f[T \cup U] = f[T] + f[U]
    OBVIOUS
  <2>2. PICK y \in U : TRUE
    BY <1>4
  <2> DEFINE V == U \ {y}
  <2>3. /\ V \in Good /\ V \in SUBSET B /\ V \cup {y} = U /\ T \cap V = {} /\ y \in B \ V
        /\ T \cup V \in SUBSET B /\ y \in B \ (T \cup V) /\ (T \cup V) \cup {y} = T \cup U
    BY <1>4, <2>1, <2>2
  <2> HIDE DEF V
  <2>4. f[T \cup V] = f[T] + f[V]
    BY <2>3
  <2>5. f[V \cup {y}] = f[V] + tree[y].size /\ f[(T \cup V) \cup {y}] = f[T \cup V] + tree[y].size
    BY <1>2, <2>3
  <2>6. f[T] \in Nat /\ f[V] \in Nat /\ tree[y].size \in Nat
    BY <1>2, <2>3
  <2>7. f[U] = f[V] + tree[y].size /\ f[T \cup U] = f[T \cup V] + tree[y].size
    BY <2>3, <2>5
  <2> QED BY <2>4, <2>6, <2>7
<1>5. SUBSET B \subseteq Good
  <2> HIDE DEF Good
  <2> QED BY <1>3, <1>4, OneByOne DEF Sizable
<1> QED BY <1>5 DEF f

SizeOf(tree, T) == SizesIn(DOMAIN tree, tree)[T]

LEMMA SourceSizes ==
  ASSUME NEW tree \in Sources
  PROVE  /\ Sizable(DOMAIN tree, tree) /\ SizeOf(tree, {}) = 0
         /\ \A T \in SUBSET DOMAIN tree : SizeOf(tree, T) \in Nat
         /\ \A T \in SUBSET DOMAIN tree : \A x \in DOMAIN tree \ T :
              SizeOf(tree, T \cup {x}) = SizeOf(tree, T) + tree[x].size
         /\ \A T, U \in SUBSET DOMAIN tree : T \cap U = {} =>
              SizeOf(tree, T \cup U) = SizeOf(tree, T) + SizeOf(tree, U)
<1>1. Sizable(DOMAIN tree, tree)
  BY SizeIsNat, TransfersAssumption DEF Sizable
<1>2. IsFiniteSet(DOMAIN tree)
  BY <1>1 DEF Sizable
<1>3. SizesIn(DOMAIN tree, tree)[{}] = 0
  BY <1>2, SizesStep
<1>4. \A T \in SUBSET DOMAIN tree : SizesIn(DOMAIN tree, tree)[T] \in Nat
  BY <1>1, SizesAreNat
<1>5. \A T \in SUBSET DOMAIN tree : \A x \in DOMAIN tree \ T :
        SizesIn(DOMAIN tree, tree)[T \cup {x}] = SizesIn(DOMAIN tree, tree)[T] + tree[x].size
  <2> DEFINE B == DOMAIN tree
  <2>1. Sizable(B, tree)
    BY <1>1
  <2> HIDE DEF B
  <2>2. \A T \in SUBSET B : \A x \in B \ T :
          SizesIn(B, tree)[T \cup {x}] = SizesIn(B, tree)[T] + tree[x].size
    <3>1. SUFFICES ASSUME NEW T \in SUBSET B, NEW x \in B \ T
                   PROVE  SizesIn(B, tree)[T \cup {x}] = SizesIn(B, tree)[T] + tree[x].size
      OBVIOUS
    <3> QED BY ONLY <2>1, SizeAdded
  <2> QED BY <2>2 DEF B
<1>6. \A T, U \in SUBSET DOMAIN tree : T \cap U = {} =>
        SizesIn(DOMAIN tree, tree)[T \cup U] = SizesIn(DOMAIN tree, tree)[T] + SizesIn(DOMAIN tree, tree)[U]
  BY <1>1, SizesOfBoth
<1> QED BY <1>1, <1>3, <1>4, <1>5, <1>6, Zenon DEF SizeOf

\* The size below a path, and of the whole source.
LEMMA SizeBelowAPath ==
  ASSUME NEW tree \in Sources, NEW p
  PROVE  SizeBelow(tree, p) = SizeOf(tree, Below(tree, p))
<1>1. Below(tree, p) \subseteq DOMAIN tree
  BY DEF Below
<1>2. Sizable(DOMAIN tree, tree) /\ IsFiniteSet(Below(tree, p))
  BY <1>1, SourceSizes, FS_Subset DEF Sizable
<1>3. \A T \in SUBSET Below(tree, p) : SizesIn(Below(tree, p), tree)[T] = SizesIn(DOMAIN tree, tree)[T]
  <2> DEFINE B == Below(tree, p)
  <2>1. B \subseteq DOMAIN tree /\ IsFiniteSet(B) /\ \A q \in B : tree[q].size = tree[q].size
    BY <1>1, <1>2
  <2> HIDE DEF B
  <2>2. \A T \in SUBSET B : SizesIn(B, tree)[T] = SizesIn(DOMAIN tree, tree)[T]
    BY <1>2, <2>1, SizesAgree
  <2> QED BY <2>2 DEF B
<1> QED BY <1>3, SizeBelowIs DEF SizeOf

LEMMA BelowRoot ==
  ASSUME NEW tree, \A p \in DOMAIN tree : IsSequence(p)
  PROVE  Below(tree, Root) = DOMAIN tree
<1>1. \A p \in DOMAIN tree : IsPrefix(Root, p)
  BY PrefixRefl DEF IsSequence
<1> QED BY <1>1 DEF Below

LEMMA TotalIs ==
  ASSUME NEW tree \in Sources
  PROVE  SizeBelow(tree, Root) = SizeOf(tree, DOMAIN tree)
BY SizeBelowAPath, BelowRoot, SourceIsSequence

LEMMA SizeAtMost ==
  ASSUME NEW tree \in Sources, NEW T \in SUBSET DOMAIN tree
  PROVE  SizeOf(tree, T) \in 0..SizeBelow(tree, Root)
<1>1. T \cup (DOMAIN tree \ T) = DOMAIN tree /\ T \cap (DOMAIN tree \ T) = {}
  OBVIOUS
<1>2. SizeOf(tree, DOMAIN tree) = SizeOf(tree, T) + SizeOf(tree, DOMAIN tree \ T)
  BY <1>1, SourceSizes
<1>3. SizeOf(tree, T) \in Nat /\ SizeOf(tree, DOMAIN tree \ T) \in Nat
  BY SourceSizes
<1> QED BY <1>2, <1>3, TotalIs

-----------------------------------------------------------------------------
(***************************************************************************)
(* FTP uploads and downloads report the size of what they have delivered.  *)
(***************************************************************************)

Delivered2 == {s \in DOMAIN placed2 : placed2[s] # Theirs}
Counted2 == bytes2 = SizeOf(source2, Delivered2)

LEMMA CountsSame ==
  ASSUME Counted2, UNCHANGED <<source2, bytes2>>,
         \/ UNCHANGED placed2
         \/ \E S : placed2' = [s \in DOMAIN placed2 \cup S |->
                                 IF s \in DOMAIN placed2 THEN placed2[s] ELSE Theirs]
  PROVE  Counted2'
<1>1. Delivered2' = Delivered2
  BY DEF Delivered2
<1> QED BY <1>1 DEF Counted2

LEMMA CountsPlaced ==
  ASSUME Counted2, source2 \in Sources, source2' = source2, DOMAIN placed2 \subseteq DOMAIN source2,
         item2.src \in DOMAIN source2 \ DOMAIN placed2, Named(item2.dst),
         placed2' = With(placed2, item2.src, item2.dst),
         bytes2' = bytes2 + source2[item2.src].size
  PROVE  Counted2'
<1>1. Delivered2' = Delivered2 \cup {item2.src}
  BY DEF Delivered2, With, Named
<1>2. Delivered2 \in SUBSET DOMAIN source2 /\ item2.src \in DOMAIN source2 \ Delivered2
  BY DEF Delivered2
<1>3. SizeOf(source2, Delivered2 \cup {item2.src}) = SizeOf(source2, Delivered2) + source2[item2.src].size
  BY <1>2, SourceSizes
<1> QED BY <1>1, <1>3 DEF Counted2

\* A directory has no size of its own.
LEMMA CountsDirectory ==
  ASSUME Counted2, Walk2, ItemPlaced2, source2' = source2, bytes2' = bytes2,
         IsDir(source2, item2.src), item2.src \notin DOMAIN placed2,
         placed2' = With(placed2, item2.src, item2.dst)
  PROVE  Counted2'
<1>1. /\ source2 \in Sources /\ DOMAIN placed2 \subseteq DOMAIN source2 /\ bytes2 \in Nat
      /\ item2.src \in DOMAIN source2 /\ Named(item2.dst)
  BY DEF Walk2, Call2, PlacedTogether2, ItemPlaced2
<1>2. source2[item2.src].size = 0
  BY <1>1, SizeIsNat
<1>3. bytes2' = bytes2 + source2[item2.src].size
  BY <1>1, <1>2
<1> QED BY <1>1, <1>3, CountsPlaced

LEMMA ItemPending2 ==
  ASSUME Walk2, ItemPlaced2, Busy2
  PROVE  item2.src \notin DOMAIN placed2
<1>1. result2 = "none"
  BY DEF Walk2, Call2, Busy2
<1>2. Walks(source2, {item2.src}, stack2, placed2)
  BY <1>1 DEF Walk2, Walking2, Now2
<1>3. \A s \in DOMAIN placed2 : ~IsPrefix(item2.src, s)
  BY <1>2 DEF Walks, Pending
<1>4. IsPrefix(item2.src, item2.src)
  <2>1. item2.src \in Seq(ToSet(item2.src))
    BY SourceIsSequence DEF ItemPlaced2, Walk2, Call2, IsSequence
  <2> QED BY <2>1, PrefixRefl
<1> QED BY <1>3, <1>4

LEMMA FtpCounts ==
  ASSUME FtpInv, Counted2, Ftp!Us \/ Ftp!Other
  PROVE  Counted2'
<1>1. Walk2 /\ ItemPlaced2 /\ FtpItem
  BY DEF FtpInv
<1>2. \A next : (Ftp!Look(next) \/ (Ftp!GoOn(next) /\ placed2' = placed2)) => Counted2'
  BY CountsSame DEF Ftp!Look, Ftp!GoOn, Ftp!call
<1>3. \A p : Ftp!Destined(p) => Counted2'
  BY <1>2 DEF Ftp!Destined
<1>4. Ftp!Skip => Counted2'
  <2>1. SUFFICES ASSUME Ftp!Skip
                 PROVE  Counted2'
    OBVIOUS
  <2>2. UNCHANGED <<source2, bytes2>>
    BY <2>1 DEF Ftp!Skip, Ftp!GoOn, Ftp!call
  <2>3. \E S : placed2' = [s \in DOMAIN placed2 \cup S |-> IF s \in DOMAIN placed2 THEN placed2[s] ELSE Theirs]
    BY <2>1, FtpTrees DEF Ftp!Skip
  <2> QED BY <2>2, <2>3, CountsSame
<1>5. Busy2 /\ IsDir(source2, item2.src) /\ Ftp!EnterDirectory => Counted2'
  <2>1. SUFFICES ASSUME Busy2, IsDir(source2, item2.src), Ftp!EnterDirectory
                 PROVE  Counted2'
    OBVIOUS
  <2>2. /\ source2' = source2 /\ bytes2' = bytes2
        /\ placed2' = With(placed2, item2.src, item2.dst)
    BY <2>1, FtpTrees DEF Ftp!EnterDirectory, Ftp!call
  <2>3. item2.src \notin DOMAIN placed2
    BY <1>1, <2>1, ItemPending2
  <2> QED BY <1>1, <2>1, <2>2, <2>3, CountsDirectory
<1>6. Ftp!CallFails \/ Ftp!Leave \/ Ftp!Other \/ (\E s \in DOMAIN source2 : Ftp!Enter(s)) => Counted2'
  BY CountsSame DEF Ftp!CallFails, Ftp!Leave, Ftp!Other, Ftp!Enter, Ftp!call
<1>7. Ftp!Resolve => Counted2'
  BY <1>2, <1>3, <1>4, FtpResolveKinds
<1>8. Ftp!NumberRemote => Counted2'
  BY <1>2, <1>3 DEF Ftp!NumberRemote
<1>9. Ftp!CheckDirectory => Counted2'
  <2>1. SUFFICES ASSUME Ftp!CheckDirectory
                 PROVE  Counted2'
    OBVIOUS
  <2>2. step2 = "check" /\ Busy2 /\ IsDir(source2, item2.src)
    BY <1>1, <2>1 DEF Ftp!CheckDirectory, FtpItem, Busy2
  <2>3. Ftp!IsDir(tree2, item2.dst) => Ftp!Exists(tree2, item2.dst)
    BY DEF Ftp!IsDir
  <2> QED BY <1>2, <1>4, <1>5, <2>1, <2>2, <2>3 DEF Ftp!CheckDirectory
<1>10. Ftp!DeleteForDirectory \/ Ftp!ClearDirectory \/ Ftp!EmptyDirectory => Counted2'
  BY <1>2 DEF Ftp!DeleteForDirectory, Ftp!ClearDirectory, Ftp!EmptyDirectory
<1>11. Ftp!MakeDirectory => Counted2'
  BY <1>1, <1>5 DEF Ftp!MakeDirectory, FtpItem, Busy2
<1>12. Ftp!PutBreaks => Counted2'
  BY CountsSame DEF Ftp!PutBreaks, Ftp!Store, Ftp!call
<1>13. Ftp!Put => Counted2'
  <2>1. SUFFICES ASSUME Ftp!Put
                 PROVE  Counted2'
    OBVIOUS
  <2>2. /\ Busy2 /\ source2' = source2 /\ placed2' = With(placed2, item2.src, item2.dst)
        /\ bytes2' = bytes2 + source2[item2.src].size
    BY <2>1, FtpTrees DEF Ftp!Put, Ftp!Store, Ftp!BytesAfter, Ftp!call, Busy2
  <2>3. item2.src \notin DOMAIN placed2
    BY <1>1, <2>2, ItemPending2
  <2>4. /\ source2 \in Sources /\ DOMAIN placed2 \subseteq DOMAIN source2
        /\ item2.src \in DOMAIN source2 /\ Named(item2.dst)
    BY <1>1 DEF Walk2, Call2, PlacedTogether2, ItemPlaced2
  <2> QED BY <2>2, <2>3, <2>4, CountsPlaced
<1> QED
  BY <1>6, <1>7, <1>8, <1>9, <1>10, <1>11, <1>12, <1>13 DEF Ftp!Us

LEMMA DownCounts ==
  ASSUME DownInv, Counted2, Down!Us \/ Down!Other
  PROVE  Counted2'
<1>1. Walk2 /\ ItemPlaced2 /\ DownItem
  BY DEF DownInv
<1>2. \A next : (Down!Look(next) \/ (Down!GoOn(next) /\ placed2' = placed2)) => Counted2'
  BY CountsSame DEF Down!Look, Down!GoOn, Down!call
<1>3. \A p : Down!Destined(p) /\ placed2' = placed2 => Counted2'
  BY <1>2 DEF Down!Destined
<1>4. Down!Skip => Counted2'
  <2>1. SUFFICES ASSUME Down!Skip
                 PROVE  Counted2'
    OBVIOUS
  <2>2. UNCHANGED <<source2, bytes2>>
    BY <2>1 DEF Down!Skip, Down!GoOn, Down!call
  <2>3. \E S : placed2' = [s \in DOMAIN placed2 \cup S |-> IF s \in DOMAIN placed2 THEN placed2[s] ELSE Theirs]
    BY <2>1, DownTrees DEF Down!Skip
  <2> QED BY <2>2, <2>3, CountsSame
<1>5. Down!CallFails \/ Down!Leave \/ Down!Other \/ (\E s \in DOMAIN source2 : Down!Enter(s)) => Counted2'
  BY CountsSame DEF Down!CallFails, Down!Leave, Down!Other, Down!Enter, Down!call
<1>6. Down!StatSource \/ Down!ListSource \/ Down!TakeForFile \/ Down!Measure \/ Down!OpenRemote => Counted2'
  BY <1>2 DEF Down!StatSource, Down!ListSource, Down!TakeForFile, Down!Measure, Down!OpenRemote
<1>7. Down!Resolve => Counted2'
  BY <1>2, <1>3, <1>4, DownResolveKinds
<1>8. Down!RemoveLocal \/ Down!NumberLocal => Counted2'
  BY <1>2, <1>3 DEF Down!RemoveLocal, Down!NumberLocal
<1>9. Down!MakeDirectory \/ Down!MakeParents => Counted2'
  BY <1>2 DEF Down!MakeDirectory, Down!MakeParents, Down!MakeMissing
<1>10. Down!CreateLocal => Counted2'
  BY <1>2 DEF Down!CreateLocal
<1>11. Down!ReadDirectory => Counted2'
  <2>1. SUFFICES ASSUME Down!ReadDirectory
                 PROVE  Counted2'
    OBVIOUS
  <2>2. /\ Busy2 /\ source2' = source2 /\ bytes2' = bytes2 /\ IsDir(source2, item2.src)
        /\ placed2' = With(placed2, item2.src, item2.dst)
    BY <2>1, DownTrees DEF Down!ReadDirectory, Down!call, Busy2
  <2>3. item2.src \notin DOMAIN placed2
    BY <1>1, <2>2, ItemPending2
  <2> QED BY <1>1, <2>2, <2>3, CountsDirectory
<1>12. Down!Copy => Counted2'
  <2>1. SUFFICES ASSUME Down!Copy
                 PROVE  Counted2'
    OBVIOUS
  <2>2. /\ Busy2 /\ source2' = source2 /\ placed2' = With(placed2, item2.src, item2.dst)
        /\ bytes2' = bytes2 + source2[item2.src].size
    BY <2>1, DownTrees DEF Down!Copy, Down!BytesAfter, Down!call, Busy2
  <2>3. item2.src \notin DOMAIN placed2
    BY <1>1, <2>2, ItemPending2
  <2>4. /\ source2 \in Sources /\ DOMAIN placed2 \subseteq DOMAIN source2
        /\ item2.src \in DOMAIN source2 /\ Named(item2.dst)
    BY <1>1 DEF Walk2, Call2, PlacedTogether2, ItemPlaced2
  <2> QED BY <2>2, <2>3, <2>4, CountsPlaced
<1> QED
  BY <1>5, <1>6, <1>7, <1>8, <1>9, <1>10, <1>11, <1>12 DEF Down!Us

LEMMA NothingCounted ==
  ASSUME source2 \in Sources, placed2 = <<>>, bytes2 = 0
  PROVE  Counted2
<1>1. Delivered2 = {}
  BY DEF Delivered2
<1> QED BY <1>1, SourceSizes DEF Counted2

\* Counted in the source is counted among what was delivered.
LEMMA CountedShows ==
  ASSUME Walk2, Counted2
  PROVE  bytes2 = SizeBelow([s \in Delivered2 |-> source2[s]], Root)
<1> DEFINE A == Delivered2
           other == [s \in A |-> source2[s]]
<1>1. source2 \in Sources /\ A \subseteq DOMAIN source2
  BY DEF Walk2, Call2, PlacedTogether2, Delivered2
<1>2. Sizable(DOMAIN source2, source2) /\ IsFiniteSet(A)
  BY <1>1, SourceSizes, FS_Subset DEF Sizable
<1>3. DOMAIN other = A /\ \A s \in A : other[s].size = source2[s].size
  OBVIOUS
<1>4. \A s \in DOMAIN other : IsSequence(s)
  BY <1>1, SourceIsSequence
<1> HIDE DEF A, other
<1>5. Below(other, Root) = A
  BY <1>3, <1>4, BelowRoot
<1>6. SizeBelow(other, Root) = SizesIn(A, other)[A]
  BY <1>5, SizeBelowIs
<1>7. SizesIn(A, other)[A] = SizesIn(DOMAIN source2, source2)[A]
  <2>1. \A T \in SUBSET A : SizesIn(A, other)[T] = SizesIn(DOMAIN source2, source2)[T]
    BY <1>1, <1>2, <1>3, SizesAgree
  <2> QED BY <2>1
<1>8. bytes2 = SizeBelow(other, Root)
  BY <1>6, <1>7 DEF Counted2, SizeOf, A
<1> QED BY <1>8 DEF A, other

LEMMA BytesOfDelivered2 ==
  ASSUME Walk2, Counted2
  PROVE  Ftp!BytesOfDelivered /\ Down!BytesOfDelivered
<1>1. \A tree, p : Ftp!SizeBelow(tree, p) = SizeBelow(tree, p)
  BY FtpTrees DEF Ftp!SizeBelow, SizeBelow
<1>2. \A tree, p : Down!SizeBelow(tree, p) = SizeBelow(tree, p)
  BY DownTrees DEF Down!SizeBelow, SizeBelow
<1>3. bytes2 = SizeBelow([s \in Delivered2 |-> source2[s]], Root)
  BY CountedShows
<1>4. bytes2 = Ftp!SizeBelow([s \in Delivered2 |-> source2[s]], Root)
  BY <1>1, <1>3
<1>5. bytes2 = Down!SizeBelow([s \in Delivered2 |-> source2[s]], Root)
  BY <1>2, <1>3
<1> QED BY <1>4, <1>5, FtpTrees, DownTrees DEF Ftp!BytesOfDelivered, Down!BytesOfDelivered, Delivered2

-----------------------------------------------------------------------------
(***************************************************************************)
(* The progress of an SFTP upload is the size of what it has dealt with,   *)
(* skipped or delivered.                                                   *)
(***************************************************************************)

Counted == processed = SizeOf(source, DOMAIN placed) /\ reported = processed

Quiet == UNCHANGED <<source, placed, processed, reported>>

LEMMA QuietSteps ==
  ASSUME Inv, Us, ~ReadDirectory, ~Copy
  PROVE  Quiet \/ (Busy /\ SkipItem("next"))
<1>1. \A next : Look(next) \/ (GoOn(next) /\ placed' = placed) => Quiet
  BY DEF Look, GoOn, Quiet, call, progress
<1>2. \A path : Destined(path) => Quiet
  BY DEF Destined, Quiet, call, progress
<1>3. Fails => Quiet
  BY DEF Fails, Quiet, call, progress
<1>4. policy \in {"keep_existing", "replace", "keep_both"}
  BY TreesAssumption DEF Inv, CallOK
<1>5. Start \/ Leave \/ (\E s \in DOMAIN source : Enter(s)) => Quiet
  BY DEF Start, Leave, Enter, Quiet, call, progress
<1>6. CallFails => Quiet
  BY <1>3 DEF CallFails
<1>7. Resolve \/ NumberDirectory => Quiet \/ (Busy /\ SkipItem("next"))
  BY <1>1, <1>2, <1>4 DEF Resolve, Merges, NumberDirectory, Busy
<1>8. LookForFile \/ Unlink \/ Ensure => Quiet
  BY <1>1 DEF LookForFile, Unlink, Ensure
<1>9. Probe \/ Mkdir => Quiet
  BY DEF Probe, Mkdir, AfterPrefix, GoOn, Quiet, call, progress
<1>10. LookAtFile => Quiet \/ (Busy /\ SkipItem("next"))
  BY <1>1, <1>3, <1>4 DEF LookAtFile, Refused, NextNumber, Busy
<1>11. CreateExclusive \/ OpenTruncated \/ CreateAgain \/ UnlinkOld => Quiet
  BY <1>1 DEF CreateExclusive, OpenTruncated, CreateAgain, UnlinkOld, Opened
<1>12. SomeoneWasFaster => Quiet \/ (Busy /\ SkipItem("next"))
  BY <1>1 DEF SomeoneWasFaster, NextNumber, Busy
<1>13. OpenFails => Quiet
  BY <1>1, <1>3 DEF OpenFails
<1> QED
  BY <1>5, <1>6, <1>7, <1>8, <1>9, <1>10, <1>11, <1>12, <1>13 DEF Us, Walk

\* The item waits: nothing of it or below it has been dealt with.
LEMMA ItemPending ==
  ASSUME Inv, Goes, Busy
  PROVE  /\ item.local \in DOMAIN source \ DOMAIN placed
         /\ \A s \in DOMAIN placed : ~IsPrefix(item.local, s)
<1>1. result = "none"
  BY DEF Inv, CallOK, Busy
<1>2. Walks(source, {item.local}, stack, placed)
  BY <1>1 DEF Goes, Walking, Now
<1>3. \A s \in DOMAIN placed : ~IsPrefix(item.local, s)
  BY <1>2 DEF Walks, Pending
<1>4. IsPrefix(item.local, item.local)
  <2>1. item.local \in Seq(ToSet(item.local))
    BY SourceIsSequence DEF Inv, ItemOK, CallOK, IsSequence
  <2> QED BY <2>1, PrefixRefl
<1> QED BY <1>3, <1>4 DEF Inv, ItemOK

LEMMA CountedSkips ==
  ASSUME Inv, Goes, Counted, Busy, SkipItem("next")
  PROVE  Counted' /\ reported' >= reported
<1> DEFINE old == DOMAIN placed
           new == Below(source, item.local)
<1>1. /\ source' = source /\ DOMAIN placed' = old \cup new
      /\ processed' = processed + SizeBelow(source, item.local) /\ reported' = processed'
  BY DEF SkipItem, call
<1>2. source \in Sources /\ old \in SUBSET DOMAIN source /\ new \in SUBSET DOMAIN source
  BY DEF Inv, CallOK, PlacedOK, Below
<1>3. old \cap new = {}
  BY ItemPending DEF Below
<1>4. SizeBelow(source, item.local) = SizeOf(source, new)
  BY <1>2, SizeBelowAPath
<1> HIDE DEF old, new
<1>5. SizeOf(source, old \cup new) = SizeOf(source, old) + SizeOf(source, new)
  BY <1>2, <1>3, SourceSizes
<1>6. SizeOf(source, old) \in Nat /\ SizeOf(source, new) \in Nat
  BY <1>2, SourceSizes
<1>7. processed = SizeOf(source, old) /\ reported = processed
  BY DEF Counted, old
<1>8. processed' = SizeOf(source, old \cup new)
  BY <1>1, <1>4, <1>5, <1>7
<1>9. Counted'
  BY <1>1, <1>8 DEF Counted
<1>10. reported' >= reported
  BY <1>1, <1>4, <1>6, <1>7
<1> QED BY <1>9, <1>10

LEMMA CountedPlaces ==
  ASSUME Inv, Counted, item.local \in DOMAIN source \ DOMAIN placed, source' = source,
         NEW p, placed' = With(placed, item.local, p), reported' = processed',
         processed' = processed + source[item.local].size
  PROVE  Counted' /\ reported' >= reported
<1> DEFINE old == DOMAIN placed
<1>1. source \in Sources /\ old \in SUBSET DOMAIN source /\ item.local \in DOMAIN source \ old
  BY DEF Inv, CallOK, PlacedOK
<1>2. DOMAIN placed' = old \cup {item.local}
  BY DEF With
<1>3. processed = SizeOf(source, old) /\ reported = processed
  BY DEF Counted
<1> HIDE DEF old
<1>4. SizeOf(source, old \cup {item.local}) = SizeOf(source, old) + source[item.local].size
  BY <1>1, SourceSizes
<1>5. SizeOf(source, old) \in Nat /\ source[item.local].size \in Nat
  BY <1>1, SourceSizes, SizeIsNat
<1>6. Counted'
  BY <1>2, <1>3, <1>4 DEF Counted
<1>7. reported' >= reported
  BY <1>3, <1>5
<1> QED BY <1>6, <1>7

LEMMA CountedInv ==
  ASSUME Inv, Goes, StepFits, Counted, Next
  PROVE  Counted' /\ reported' >= reported
<1>1. reported \in Nat /\ reported = processed
  BY SourceSizes DEF Counted, Inv, CallOK, PlacedOK
<1>2. CASE Quiet
  BY <1>1, <1>2 DEF Quiet, Counted
<1>3. CASE Busy /\ SkipItem("next")
  BY <1>3, CountedSkips
<1>4. CASE ReadDirectory
  <2>1. /\ source' = source /\ UNCHANGED <<processed, reported>> /\ step = "read"
        /\ placed' = With(placed, item.local, item.path)
    BY <1>4 DEF ReadDirectory, call, progress
  <2>2. item.local \in DOMAIN source \ DOMAIN placed
    BY <2>1, ItemPending DEF Busy
  <2>3. source[item.local].size = 0
    <3>1. IsDir(source, item.local) /\ source \in Sources
      BY <2>1 DEF StepFits, DirSteps, Inv, CallOK
    <3> QED BY <2>2, <3>1, SizeIsNat
  <2>4. processed' = processed + source[item.local].size /\ reported' = processed'
    BY <1>1, <2>1, <2>3
  <2> QED BY <2>1, <2>2, <2>4, CountedPlaces
<1>5. CASE Copy
  <2>1. /\ source' = source /\ step = "copy" /\ placed' = With(placed, item.local, Target)
        /\ processed' = processed + source[item.local].size /\ reported' = processed'
    BY <1>5 DEF Copy, Shown, call
  <2>2. item.local \in DOMAIN source \ DOMAIN placed
    BY <2>1, ItemPending DEF Busy
  <2> QED BY <2>1, <2>2, CountedPlaces
<1>6. CASE Other
  <2>1. Quiet
    BY <1>6 DEF Other, Quiet, call, progress
  <2> QED BY <1>2, <2>1
<1> QED BY <1>2, <1>3, <1>4, <1>5, <1>6, QuietSteps DEF Next

LEMMA CountedFirst == Init => Counted
<1>1. SUFFICES ASSUME Init
               PROVE  Counted
  OBVIOUS
<1>2. source \in Sources /\ DOMAIN placed = {} /\ processed = 0 /\ reported = 0
  BY <1>1 DEF Init
<1> QED BY <1>2, SourceSizes DEF Counted
-----------------------------------------------------------------------------
\* What the invariant of an SFTP upload says of its answer.
LEMMA EndsWithAll ==
  ASSUME Inv, Goes, result = "ok"
  PROVE  DOMAIN placed = DOMAIN source
<1>1. Walks(source, {}, stack, placed) /\ stack = <<>>
  BY DEF Goes, Walking, Now, Busy, Inv, CallOK
<1> QED BY <1>1, WalkEnds

LEMMA ProgressShows ==
  ASSUME Inv, Goes, Counted
  PROVE  processed \in 0..Total /\ reported \in 0..Total /\ ProgressEndsAtTotal
<1>1. source \in Sources /\ DOMAIN placed \in SUBSET DOMAIN source
  BY DEF Inv, CallOK, PlacedOK
<1>2. processed \in 0..Total /\ reported \in 0..Total
  BY <1>1, SizeAtMost DEF Counted, Total
<1>3. ProgressEndsAtTotal
  BY <1>1, EndsWithAll, TotalIs DEF Counted, Total, ProgressEndsAtTotal
<1> QED BY <1>2, <1>3

LEMMA SourceNames ==
  ASSUME NEW tree \in Sources, NEW s \in DOMAIN tree, s # Root
  PROVE  IsSequence(Last(s)) /\ Last(s) # <<>> /\ Parent(s) \in DOMAIN tree
<1>1. s \in Seq(ToSet(s)) /\ AreNames(s)
  BY SourceIsSequence, TransfersAssumption DEF IsSequence
<1>2. Len(s) \in DOMAIN s /\ Last(s) = s[Len(s)]
  <2>1. Len(s) \in Nat /\ Len(s) > 0
    BY <1>1, ParentAndLast
  <2> QED BY <1>1, <2>1 DEF Last
<1>3. Parent(s) \in DOMAIN tree
  <2>1. Len(s) - 1 \in 0..Len(s) - 1 /\ Parent(s) = SubSeq(s, 1, Len(s) - 1)
    <3>1. Len(s) \in Nat /\ Len(s) > 0
      BY <1>1, ParentAndLast
    <3> QED BY <3>1 DEF Parent, Front
  <2> QED BY <2>1, SourcePaths DEF IsDir, Exists
<1> QED BY <1>1, <1>2, <1>3 DEF AreNames

LEMMA TogetherShows ==
  ASSUME Inv, Goes
  PROVE  ArrivesTogether
<1>1. SUFFICES ASSUME NEW s \in DOMAIN placed \ {Root}, placed[s] # Theirs
               PROVE  /\ placed[Parent(s)] # Theirs
                      /\ \/ placed[s] = Asked(s)
                         \/ /\ policy = "keep_both" /\ Len(Last(placed[s])) = Len(Last(s)) + 1
                            /\ placed[s] = Numbered(Asked(s), Last(Last(placed[s])))
  BY DEF ArrivesTogether, Skipped, Asked
<1>2. Parent(s) \in DOMAIN placed /\ placed[Parent(s)] # Theirs /\ GoesTo(Asked(s), placed[s])
  BY <1>1 DEF Goes, PlacedTogether
<1>3. CASE policy = "keep_both" /\ \E n \in Nat \ {0} : placed[s] = Numbered(Asked(s), n)
  <2>1. PICK n \in Nat \ {0} : placed[s] = Numbered(Asked(s), n)
    BY <1>3
  <2>2. Named(placed[Parent(s)])
    BY <1>2 DEF Goes, PlacedTogether
  <2>3. IsSequence(Last(s)) /\ s \in DOMAIN source
    BY <1>1, SourceNames DEF Inv, CallOK, PlacedOK
  <2>4. Front(Asked(s)) = placed[Parent(s)] /\ Last(Asked(s)) = Last(s)
    BY <2>2, LastAdded DEF Asked, Named, IsSequence, Parent
  <2>5. placed[s] = Append(placed[Parent(s)], Append(Last(s), n))
    BY <2>1, <2>4 DEF Numbered
  <2>6. Last(placed[s]) = Append(Last(s), n)
    <3>1. placed[Parent(s)] \in Seq(ToSet(placed[Parent(s)]))
      BY <2>2 DEF Named, IsSequence
    <3>2. Last(Append(placed[Parent(s)], Append(Last(s), n))) = Append(Last(s), n)
      BY <3>1, LastAdded
    <3> QED BY <2>5, <3>2
  <2>7. Last(Append(Last(s), n)) = n /\ Len(Append(Last(s), n)) = Len(Last(s)) + 1
    BY <2>3, LastAdded DEF IsSequence
  <2> QED BY <1>2, <1>3, <2>1, <2>6, <2>7
<1> QED BY <1>2, <1>3 DEF GoesTo

LEMMA UploadShows ==
  ASSUME UploadInv, Counted
  PROVE  TypeOK /\ DeliveredIfUndisturbed /\ ArrivesTogether /\ ProgressEndsAtTotal
<1>1. Inv /\ Goes /\ StepFits /\ TreeOK(remote)
  BY DEF UploadInv
<1>2. TypeOK
  <2>1. processed \in 0..Total /\ reported \in 0..Total
    BY <1>1, ProgressShows
  <2>2. \A i \in DOMAIN stack : stack[i].todo \subseteq DOMAIN source
    BY <1>1 DEF Inv, StackOK, IsFrame
  <2> QED BY <1>1, <2>1, <2>2 DEF TypeOK, Inv, CallOK, ItemOK, PlacedOK, Goes, Walking, StepFits, TreeOK
<1>3. DeliveredIfUndisturbed
  <2>1. SUFFICES ASSUME result = "ok", others = 0
                 PROVE  /\ DOMAIN placed = DOMAIN source
                        /\ \A s \in DOMAIN source :
                             IF placed[s] = Theirs
                               THEN policy = "keep_existing"
                               ELSE /\ placed[Root] = destination
                                    /\ Exists(remote, placed[s])
                                    /\ remote[placed[s]].kind = source[s].kind
                                    /\ remote[placed[s]].size = source[s].size
    BY DEF DeliveredIfUndisturbed, Skipped
  <2>2. DOMAIN placed = DOMAIN source
    BY <1>1, <2>1, EndsWithAll
  <2>3. Whole(source, placed, remote) /\ SkippedIfTold /\ InDestination
    BY <2>1 DEF UploadInv, Undisturbed
  <2> QED BY <2>2, <2>3 DEF Whole, SkippedIfTold, InDestination, Exists
<1> QED BY <1>1, <1>2, <1>3, TogetherShows, ProgressShows

-----------------------------------------------------------------------------
(***************************************************************************)
(* 6. An upload over SCP: as long as nobody changes the file that is open, *)
(* the server's file is the beginning of it.                               *)
(***************************************************************************)

Bytes == UNION {ToSet(bytes) : bytes \in Contents}

ScpTypes ==
  /\ path2 \in Contents \cup {NoFile, Directory} /\ handle2 \in Contents \cup {NoFile}
  /\ step2 \in {"stat", "send", "open", "copy", "close", "end"}
  /\ result2 \in {"none", "ok", "error"} /\ (result2 = "none" <=> step2 # "end")
  /\ total2 \in Nat /\ done2 \in Nat /\ changed2 \in BOOLEAN /\ full2 \in BOOLEAN

ScpServer ==
  /\ step2 \in {"stat", "send", "open"} => done2 = 0
  /\ step2 = "stat" => tree2 \in Before \cup {NoFile}
  /\ path2 = Directory => step2 \in {"stat", "end"} /\ tree2 \in Before \cup {NoFile}
  /\ step2 = "open" => tree2 = <<>>
  /\ step2 \in {"copy", "close"} => /\ handle2 \in Contents
                                    /\ tree2 \in Seq(Bytes) /\ Len(tree2) <= total2

Beginning(n) == n \in 0..Len(path2) /\ tree2 = SubSeq(path2, 1, n)

ScpCopied ==
  ~changed2 =>
    /\ step2 \in {"send", "open", "copy", "close"} => path2 \in Contents /\ total2 = Len(path2)
    /\ step2 \in {"copy", "close"} =>
         /\ handle2 = path2 /\ done2 <= Len(path2)
         /\ \E n \in 0..done2 : Beginning(n) /\ (~full2 => n = done2)
    /\ step2 = "close" => done2 = Len(path2)
    /\ step2 = "end" /\ done2 > 0 => \E n \in Nat : Beginning(n)
    /\ result2 = "ok" /\ ~full2 => tree2 = path2

ScpInv == ScpTypes /\ ScpServer /\ ScpCopied

LEMMA ContentsAre ==
  /\ \A x \in Contents : /\ x \in Seq(Bytes) /\ x \notin {NoFile, Directory} /\ Len(x) \in Nat
                         /\ SubSeq(x, 1, Len(x)) = x /\ SubSeq(x, 1, 0) = <<>>
                         /\ \A n \in 0..Len(x) - 1 : /\ x[n + 1] \in Bytes
                                                     /\ Append(SubSeq(x, 1, n), x[n + 1]) = SubSeq(x, 1, n + 1)
                         /\ \A n \in 0..Len(x) : SubSeq(x, 1, n) \in Seq(Bytes) /\ Len(SubSeq(x, 1, n)) = n
  /\ <<>> \in Seq(Bytes) /\ NoFile # Directory
  /\ \A x \in Seq(Bytes) : x \notin {NoFile, Directory}
<1>1. ASSUME NEW x \in Contents
      PROVE  x \in Seq(Bytes)
  <2>1. x \in Seq(ToSet(x)) /\ ToSet(x) \subseteq Bytes
    BY TransfersAssumption DEF IsSequence, Bytes
  <2> QED BY <2>1
<1>2. \A x \in Seq(Bytes) : x \notin {NoFile, Directory}
  BY TransfersAssumption DEF Bytes
<1>3. <<>> \in Seq(Bytes) /\ NoFile # Directory
  BY TransfersAssumption
<1>4. ASSUME NEW x \in Seq(Bytes)
      PROVE  /\ Len(x) \in Nat /\ SubSeq(x, 1, Len(x)) = x /\ SubSeq(x, 1, 0) = <<>>
             /\ \A n \in 0..Len(x) : SubSeq(x, 1, n) \in Seq(Bytes) /\ Len(SubSeq(x, 1, n)) = n
  <2>1. Len(x) \in Nat
    OBVIOUS
  <2>2. \A n \in 0..Len(x) : SubSeq(x, 1, n) \in Seq(Bytes) /\ Len(SubSeq(x, 1, n)) = n
    BY <2>1
  <2>3. SubSeq(x, 1, 0) = <<>>
    BY <2>1, <2>2
  <2>4. SubSeq(x, 1, Len(x)) = x
    <3>1. Len(x) \in 0..Len(x)
      BY <2>1
    <3>2. \A i \in 1..Len(x) : SubSeq(x, 1, Len(x))[i] = x[i]
      BY <2>1
    <3> QED BY <2>2, <3>1, <3>2, SeqEqual
  <2> QED BY <2>1, <2>2, <2>3, <2>4
<1>5. ASSUME NEW x \in Seq(Bytes), NEW n \in 0..Len(x) - 1
      PROVE  x[n + 1] \in Bytes /\ Append(SubSeq(x, 1, n), x[n + 1]) = SubSeq(x, 1, n + 1)
  <2>1. Len(x) \in Nat /\ n \in 0..Len(x) /\ n + 1 \in 0..Len(x) /\ n + 1 \in 1..Len(x)
    OBVIOUS
  <2>2. x[n + 1] \in Bytes
    BY <2>1
  <2> DEFINE a == SubSeq(x, 1, n)
             b == SubSeq(x, 1, n + 1)
  <2>3. a \in Seq(Bytes) /\ Len(a) = n /\ b \in Seq(Bytes) /\ Len(b) = n + 1
    BY <1>4, <2>1
  <2>4. (\A i \in 1..n : a[i] = x[i]) /\ \A i \in 1..(n + 1) : b[i] = x[i]
    BY <2>1
  <2> HIDE DEF a, b
  <2>5. Append(a, x[n + 1]) = b
    <3> DEFINE c == Append(a, x[n + 1])
    <3>1. c \in Seq(Bytes) /\ Len(c) = n + 1
      BY <2>2, <2>3
    <3>2. \A i \in 1..(n + 1) : c[i] = b[i]
      BY <2>1, <2>2, <2>3, <2>4
    <3> HIDE DEF c
    <3>3. c = b
      BY <2>3, <3>1, <3>2, SeqEqual
    <3> QED BY <3>3 DEF c
  <2> QED BY <2>2, <2>5 DEF a, b
<1> QED BY <1>1, <1>2, <1>3, <1>4, <1>5

LEMMA ScpInitInv == Scp!Init => ScpInv
<1>1. Scp!Init => ScpTypes
  <2>1. SUFFICES ASSUME Scp!Init
                 PROVE  ScpTypes
    OBVIOUS
  <2>2. changed2 \in BOOLEAN /\ full2 \in BOOLEAN
    BY <2>1, Zenon DEF Scp!Init
  <2> QED BY <2>1, <2>2 DEF Scp!Init, ScpTypes
<1>2. Scp!Init => ScpServer
  BY DEF Scp!Init, ScpServer
<1>3. Scp!Init => ScpCopied
  BY DEF Scp!Init, ScpCopied
<1> QED BY <1>1, <1>2, <1>3 DEF ScpInv

LEMMA ScpCopyInv == ScpInv /\ Scp!CopyWithProgress => ScpInv'
<1>1. SUFFICES ASSUME ScpInv, Scp!CopyWithProgress
               PROVE  ScpInv'
  OBVIOUS
<1>2. /\ step2 = "copy" /\ handle2 \in Contents /\ tree2 \in Seq(Bytes) /\ Len(tree2) <= total2
      /\ total2 \in Nat /\ done2 \in Nat /\ result2 = "none" /\ path2 # Directory
      /\ UNCHANGED <<path2, handle2, total2, result2, changed2, full2>>
  BY <1>1 DEF Scp!CopyWithProgress, ScpInv, ScpTypes, ScpServer
<1>3. handle2 \in Seq(Bytes) /\ Len(handle2) \in Nat /\ Len(tree2) \in Nat
  BY <1>2, ContentsAre
<1>4. CASE done2 < Len(handle2)
  <2>1. done2' = done2 + 1 /\ step2' = step2 /\ handle2[done2 + 1] \in Bytes
        /\ tree2' = IF full2 \/ Len(tree2) >= total2 THEN tree2 ELSE Append(tree2, handle2[done2 + 1])
    BY <1>1, <1>2, <1>3, <1>4 DEF Scp!CopyWithProgress, Scp!Stored
  <2>2. tree2' \in Seq(Bytes) /\ Len(tree2') <= total2
    BY <1>2, <1>3, <2>1
  <2>3. ScpTypes' /\ ScpServer'
    BY <1>1, <1>2, <2>1, <2>2 DEF ScpInv, ScpTypes, ScpServer
  <2>4. ASSUME ~changed2
        PROVE  ScpCopied'
    <3>1. /\ path2 \in Contents /\ total2 = Len(path2) /\ handle2 = path2
      BY <1>1, <1>2, <2>4 DEF ScpInv, ScpCopied
    <3>2. PICK n \in 0..done2 : Beginning(n) /\ (~full2 => n = done2)
      BY <1>1, <1>2, <2>4 DEF ScpInv, ScpCopied
    <3>3. n \in Nat /\ Len(tree2) = n /\ tree2 = SubSeq(path2, 1, n) /\ n <= Len(path2)
      BY <1>2, <3>1, <3>2, ContentsAre DEF Beginning
    <3>4. CASE full2
      <4>1. tree2' = tree2 /\ n \in 0..done2' /\ n \in 0..Len(path2)
        BY <1>2, <1>3, <2>1, <3>1, <3>3, <3>4, <3>2
      <4>2. Beginning(n)'
        BY <1>2, <3>3, <4>1 DEF Beginning
      <4> QED BY <1>2, <1>3, <1>4, <2>1, <3>1, <3>4, <4>1, <4>2 DEF ScpCopied
    <3>5. CASE ~full2
      <4>1. n = done2 /\ tree2' = Append(tree2, path2[done2 + 1])
        BY <1>2, <1>3, <1>4, <2>1, <3>1, <3>2, <3>3, <3>5
      <4>2. done2 \in 0..Len(path2) - 1
        BY <1>2, <1>3, <1>4, <3>1
      <4>3. tree2' = SubSeq(path2, 1, done2 + 1)
        BY <3>1, <3>3, <4>1, <4>2, ContentsAre
      <4>4. PICK m \in Nat : m = done2 + 1
        BY <1>2
      <4>5. m \in 0..Len(path2) /\ m \in 0..done2' /\ m = done2' /\ done2' <= Len(path2)
        BY <1>2, <1>3, <1>4, <2>1, <3>1, <4>4
      <4>6. Beginning(m)'
        BY <1>2, <4>3, <4>4, <4>5 DEF Beginning
      <4>7. step2' = "copy" /\ path2' \in Contents /\ total2' = Len(path2') /\ handle2' = path2' /\ result2' = "none"
        BY <1>2, <2>1, <3>1
      <4> QED BY <1>2, <4>5, <4>6, <4>7 DEF ScpCopied
    <3> QED BY <3>4, <3>5
  <2>5. ScpCopied'
    BY <1>2, <2>4 DEF ScpCopied
  <2> QED BY <2>3, <2>5 DEF ScpInv
<1>5. CASE ~(done2 < Len(handle2))
  <2>1. UNCHANGED <<done2, tree2>> /\ step2' = "close"
    BY <1>1, <1>5 DEF Scp!CopyWithProgress
  <2>2. ScpTypes' /\ ScpServer'
    BY <1>1, <1>2, <2>1 DEF ScpInv, ScpTypes, ScpServer
  <2>3. ~changed2 => done2 = Len(path2)
    BY <1>1, <1>2, <1>3, <1>5 DEF ScpInv, ScpCopied
  <2>4. ScpCopied'
    BY <1>1, <1>2, <2>1, <2>3 DEF ScpInv, ScpCopied, Beginning
  <2> QED BY <2>2, <2>4 DEF ScpInv
<1> QED BY <1>4, <1>5

LEMMA ScpNextInv == ScpInv /\ Scp!Next => ScpInv'
<1>1. SUFFICES ASSUME ScpInv, Scp!Next
               PROVE  ScpInv'
  OBVIOUS
<1>2. ScpTypes /\ ScpServer /\ ScpCopied
  BY <1>1 DEF ScpInv
<1>3. CASE Scp!Stat
  BY <1>2, <1>3, ContentsAre DEF Scp!Stat, Scp!Fail, Scp!IsFile, ScpInv, ScpTypes, ScpServer, ScpCopied
<1>4. CASE Scp!ScpSend
  BY <1>2, <1>4, ContentsAre DEF Scp!ScpSend, ScpInv, ScpTypes, ScpServer, ScpCopied
<1>5. CASE Scp!OpenLocal
  <2>1. /\ step2 = "open" /\ tree2 = <<>> /\ done2 = 0 /\ path2 # Directory
        /\ UNCHANGED <<path2, tree2, total2, done2, changed2, full2>>
        /\ \/ path2 # NoFile /\ handle2' = path2 /\ step2' = "copy" /\ result2' = result2
           \/ step2' = "end" /\ result2' = "error" /\ handle2' = handle2
    BY <1>2, <1>5 DEF Scp!OpenLocal, Scp!Fail, Scp!IsFile, ScpServer
  <2>2. Len(tree2) = 0
    BY <2>1
  <2>3. ScpTypes' /\ ScpServer'
    BY <1>2, <2>1, <2>2, ContentsAre DEF ScpTypes, ScpServer
  <2>4. ASSUME ~changed2
        PROVE  ScpCopied'
    <3>1. path2 \in Contents /\ total2 = Len(path2)
      BY <1>2, <2>1, <2>4 DEF ScpCopied
    <3>2. Len(path2) \in Nat /\ SubSeq(path2, 1, 0) = <<>>
      BY <3>1, ContentsAre
    <3>3. Beginning(0)' /\ 0 \in 0..done2' /\ done2' = 0
      BY <2>1, <3>2 DEF Beginning
    <3>4. result2' # "ok" /\ step2' \in {"copy", "end"} /\ (step2' = "copy" => handle2' = path2')
      BY <1>2, <2>1 DEF ScpTypes
    <3>5. path2' \in Contents /\ total2' = Len(path2') /\ done2' <= Len(path2') /\ ~(done2' > 0)
      BY <2>1, <3>1, <3>2
    <3>6. \E n \in 0..done2' : Beginning(n)' /\ (~full2' => n = done2')
      BY <3>3
    <3> QED BY <3>4, <3>5, <3>6 DEF ScpCopied
  <2> QED BY <2>1, <2>3, <2>4 DEF ScpInv, ScpCopied
<1>6. CASE Scp!CopyWithProgress
  BY <1>1, <1>6, ScpCopyInv
<1>7. CASE Scp!CloseChannel
  <2>1. step2 = "close" /\ step2' = "end" /\ result2' = "ok"
        /\ UNCHANGED <<path2, handle2, tree2, total2, done2, changed2, full2>>
    BY <1>7 DEF Scp!CloseChannel
  <2>2. ScpTypes' /\ ScpServer'
    BY <1>2, <2>1 DEF ScpTypes, ScpServer
  <2>3. ASSUME ~changed2
        PROVE  (\E n \in Nat : Beginning(n)) /\ (~full2 => tree2 = path2)
    <3>1. PICK n \in 0..done2 : Beginning(n) /\ (~full2 => n = done2)
      BY <1>2, <2>1, <2>3 DEF ScpCopied
    <3>2. path2 \in Contents /\ done2 = Len(path2)
      BY <1>2, <2>1, <2>3 DEF ScpCopied
    <3> QED BY <3>1, <3>2, ContentsAre DEF Beginning
  <2>4. ScpCopied'
    BY <2>1, <2>3 DEF ScpCopied, Beginning
  <2> QED BY <2>2, <2>4 DEF ScpInv
<1>8. CASE Scp!CallFails
  <2>1. step2 \notin {"stat", "end"} /\ step2' = "end" /\ result2' = "error"
        /\ UNCHANGED <<path2, handle2, tree2, total2, done2, changed2, full2>>
    BY <1>8 DEF Scp!CallFails, Scp!Fail
  <2>2. ScpTypes' /\ ScpServer'
    BY <1>2, <2>1 DEF ScpTypes, ScpServer
  <2>3. ~changed2 /\ done2 > 0 => \E n \in Nat : Beginning(n)
    BY <1>2, <2>1 DEF ScpCopied, ScpServer, ScpTypes
  <2>4. ScpCopied'
    BY <2>1, <2>3 DEF ScpCopied, Beginning
  <2> QED BY <2>2, <2>4 DEF ScpInv
<1>9. CASE Scp!Other
  <2>1. PICK c \in Contents \cup {NoFile} :
          /\ path2' = c
          /\ handle2' \in {handle2} \cup (IF Scp!IsFile(handle2) /\ Scp!IsFile(c) THEN {c} ELSE {})
    BY <1>9 DEF Scp!Other
  <2>2. changed2' = TRUE /\ UNCHANGED <<tree2, step2, total2, done2, result2, full2>> /\ step2 # "end"
    BY <1>9 DEF Scp!Other
  <2>3. path2' # Directory /\ handle2' \in Contents \cup {NoFile} /\ (handle2 \in Contents => handle2' \in Contents)
    BY <1>2, <2>1, ContentsAre DEF Scp!IsFile, ScpTypes
  <2> QED BY <1>2, <2>1, <2>2, <2>3 DEF ScpInv, ScpTypes, ScpServer, ScpCopied
<1>10. CASE Scp!ServerFails
  <2>1. full2' = TRUE /\ step2 \in {"open", "copy"}
        /\ UNCHANGED <<path2, handle2, tree2, step2, total2, done2, result2, changed2>>
    BY <1>10 DEF Scp!ServerFails
  <2>2. ScpTypes' /\ ScpServer'
    BY <1>2, <2>1 DEF ScpTypes, ScpServer
  <2>3. ScpCopied'
    BY <1>2, <2>1 DEF ScpCopied, Beginning
  <2> QED BY <2>2, <2>3 DEF ScpInv
<1>11. CASE Scp!Stopped
  BY <1>2, <1>11 DEF Scp!Stopped, Scp!vars, ScpInv, ScpTypes, ScpServer, ScpCopied, Beginning
<1> QED BY <1>1, <1>3, <1>4, <1>5, <1>6, <1>7, <1>8, <1>9, <1>10, <1>11 DEF Scp!Next

LEMMA ScpInvShows ==
  ASSUME ScpInv
  PROVE  Scp!TypeOK /\ Scp!CompletedIsWhole /\ Scp!OnlyFilesAreSent /\ Scp!NoMixture
<1>1. ScpTypes /\ ScpServer /\ ScpCopied
  BY DEF ScpInv
<1>2. Scp!TypeOK /\ Scp!OnlyFilesAreSent /\ Scp!CompletedIsWhole
  BY <1>1, ContentsAre DEF ScpTypes, ScpServer, ScpCopied, Scp!TypeOK, Scp!OnlyFilesAreSent,
                           Scp!CompletedIsWhole, Scp!IsFile
<1>3. Scp!NoMixture
  BY <1>1 DEF Scp!NoMixture, ScpTypes, ScpServer, ScpCopied, Beginning
<1> QED BY <1>2, <1>3

-----------------------------------------------------------------------------
(***************************************************************************)
(* 7. All transfers.                                                       *)
(***************************************************************************)

TransferInv ==
  /\ kind \in {"sftp_upload", "ftp_upload", "scp_upload", "download"}
  /\ UploadInv /\ Counted
  /\ kind = "ftp_upload" => FtpInv /\ Counted2
  /\ kind = "download" => DownInv /\ Counted2
  /\ kind = "scp_upload" => ScpInv

LEMMA TransferInitInv == TransferInit => TransferInv
<1>1. SUFFICES ASSUME TransferInit
               PROVE  TransferInv
  OBVIOUS
<1>2. kind \in {"sftp_upload", "ftp_upload", "scp_upload", "download"}
  BY <1>1, TransfersAssumption DEF TransferInit
<1>3. /\ Init
      /\ kind = "ftp_upload" => Ftp!Init
      /\ kind = "download" => Down!Init
      /\ kind = "scp_upload" => Scp!Init
  BY <1>1, <1>2 DEF TransferInit, NoSftp
<1>4. UploadInv /\ Counted
  BY <1>3, UploadInitInv, CountedFirst
<1>5. ASSUME kind = "ftp_upload"
      PROVE  FtpInv /\ Counted2
  <2>1. source2 \in Sources /\ placed2 = <<>> /\ bytes2 = 0
    BY <1>3, <1>5 DEF Ftp!Init
  <2> QED BY <1>3, <1>5, <2>1, FtpInitInv, NothingCounted
<1>6. ASSUME kind = "download"
      PROVE  DownInv /\ Counted2
  <2>1. source2 \in Sources /\ placed2 = <<>> /\ bytes2 = 0
    BY <1>3, <1>6 DEF Down!Init
  <2> QED BY <1>3, <1>6, <2>1, DownInitInv, NothingCounted
<1> QED BY <1>2, <1>3, <1>4, <1>5, <1>6, ScpInitInv DEF TransferInv

LEMMA UploadRests ==
  ASSUME UploadInv, Counted, UNCHANGED vars
  PROVE  UploadInv' /\ Counted'
<1>1. /\ UNCHANGED <<policy, source, given, exact, remote, others, step, item, stack, placed>>
      /\ UNCHANGED <<processed, reported, result, destination>>
  BY DEF vars, call, progress
<1>2. Inv'
  BY UnchangedInv DEF UploadInv
<1>3. Goes' /\ StepFits'
  BY <1>1, GoesUndisturbed DEF UploadInv
<1>4. TreeOK(remote)'
  BY <1>1 DEF UploadInv
<1>5. Undisturbed => Undisturbed'
  BY <1>1 DEF Undisturbed, SkippedIfTold, InDestination, DirectoryRelies, FileRelies, RootRelies,
              Target, IsOpen, ThereIs, Busy
<1>6. Counted'
  BY <1>1 DEF Counted
<1> QED BY <1>1, <1>2, <1>3, <1>4, <1>5, <1>6 DEF UploadInv

Rests2 == UNCHANGED <<protocol2, policy2, source2, tree2, others2, step2, item2, stack2, placed2, bytes2, result2>>

LEMMA WalkRests2 ==
  ASSUME Walk2, ItemPlaced2, Undisturbed2, Counted2, Rests2
  PROVE  Walk2' /\ ItemPlaced2' /\ Undisturbed2' /\ Counted2'
<1>1. Call2' /\ Walking2'
  BY DEF Walk2, Call2, Walking2, Now2, Busy2, Rests2
<1>2. PlacedTogether2' /\ PlacedInPlace2'
  BY DEF Walk2, PlacedTogether2, PlacedInPlace2, Rests2
<1>3. ItemPlaced2'
  BY DEF ItemPlaced2, Busy2, Rests2
<1>4. Undisturbed2' /\ Counted2'
  BY DEF Undisturbed2, SkippedIfTold2, Counted2, Delivered2, Rests2
<1> QED BY <1>1, <1>2, <1>3, <1>4 DEF Walk2

LEMMA FtpRests ==
  ASSUME FtpInv, Counted2, Rests2
  PROVE  FtpInv' /\ Counted2'
<1>1. Walk2' /\ ItemPlaced2' /\ Undisturbed2' /\ Counted2'
  BY WalkRests2 DEF FtpInv
<1>2. FtpItem' /\ TreeOK(tree2)'
  BY DEF FtpInv, FtpItem, Rests2
<1>3. (others2 = 0 => FtpRelies)'
  BY DEF FtpInv, FtpRelies, Rests2
<1> QED BY <1>1, <1>2, <1>3 DEF FtpInv

LEMMA DownRests ==
  ASSUME DownInv, Counted2, Rests2
  PROVE  DownInv' /\ Counted2'
<1>1. Walk2' /\ ItemPlaced2' /\ Undisturbed2' /\ Counted2'
  BY WalkRests2 DEF DownInv
<1>2. DownItem' /\ TreeOK(tree2)' /\ Todo2'
  BY DEF DownInv, DownItem, Todo2, Busy2, Rests2
<1>3. (others2 = 0 => DownRelies)'
  BY DEF DownInv, DownRelies, Rests2
<1>4. DownNumbered => DownNumbered'
  BY DEF DownNumbered, Asked2, Taken2, Rests2
<1> QED BY <1>1, <1>2, <1>3, <1>4 DEF DownInv, Rests2

LEMMA ScpRests ==
  ASSUME ScpInv, UNCHANGED <<tree2, step2, result2, others3>>
  PROVE  ScpInv'
BY DEF ScpInv, ScpTypes, ScpServer, ScpCopied, Beginning, others3

Step == Transferring \/ Interference
Upload == Next \/ UNCHANGED vars

LEMMA StepIsUpload ==
  ASSUME Step \/ UNCHANGED allVars
  PROVE  Upload /\ kind' = kind
BY DEF Step, Upload, Transferring, Interference, SftpUploads, FtpUploads, ScpUploads, Downloads,
       Next, allVars

LEMMA StepOfKind ==
  ASSUME Step \/ UNCHANGED allVars
  PROVE  /\ kind = "ftp_upload" => Ftp!Us \/ Ftp!Other \/ Rests2
         /\ kind = "download" => Down!Us \/ (Down!Other /\ protocol2' = protocol2) \/ Rests2
         /\ kind = "scp_upload" => Scp!Next \/ UNCHANGED <<tree2, step2, result2, others3>>
<1>1. CASE UNCHANGED allVars
  BY <1>1 DEF allVars, second, walk2, Rests2
<1>2. CASE Transferring
  BY <1>2 DEF Transferring, SftpUploads, FtpUploads, ScpUploads, Downloads
<1>3. CASE Interference
  <2>1. CASE kind = "download" /\ Down!Other /\ UNCHANGED <<vars, kind, others3>>
    <3>1. protocol2' = protocol2
      BY <2>1 DEF Down!Other, Down!call
    <3> QED BY <2>1, <3>1
  <2> QED BY <1>3, <2>1 DEF Interference
<1> QED BY <1>1, <1>2, <1>3 DEF Step

LEMMA TransferNextInv == TransferInv /\ [Step]_allVars => TransferInv'
<1>1. SUFFICES ASSUME TransferInv, Step \/ UNCHANGED allVars
               PROVE  TransferInv'
  OBVIOUS
<1>2. kind' = kind /\ UploadInv' /\ Counted'
  <2>1. kind' = kind /\ UploadInv /\ Counted
    BY <1>1, StepIsUpload DEF TransferInv
  <2>2. CASE Next
    BY <2>1, <2>2, UploadNextInv, CountedInv DEF UploadInv
  <2>3. CASE UNCHANGED vars
    BY <2>1, <2>3, UploadRests
  <2> QED BY <1>1, <2>1, <2>2, <2>3, StepIsUpload DEF Upload
<1>3. kind = "ftp_upload" => (FtpInv /\ Counted2)'
  BY <1>1, StepOfKind, FtpUsInv, FtpOthersInv, FtpCounts, FtpRests DEF TransferInv
<1>4. kind = "download" => (DownInv /\ Counted2)'
  BY <1>1, StepOfKind, DownUsInv, DownOthersInv, DownCounts, DownRests DEF TransferInv
<1>5. kind = "scp_upload" => ScpInv'
  BY <1>1, StepOfKind, ScpNextInv, ScpRests DEF TransferInv
<1> QED BY <1>1, <1>2, <1>3, <1>4, <1>5 DEF TransferInv

LEMMA SpecSteps == TransferSpec => TransferInit /\ [][Step]_allVars
<1>1. [Transferring \/ Interference]_allVars => [Step]_allVars
  BY DEF Step
<1> QED BY <1>1, PTL DEF TransferSpec

\* Where each kind of transfer is, what it relies on and what it has counted.
THEOREM TransferInvHolds == TransferSpec => []TransferInv
BY SpecSteps, TransferInitInv, TransferNextInv, PTL

\* Every variable has its type, and without interference a transfer that
\* succeeds has left all that was not skipped, whole, where it says; over SCP
\* also what is there before the end is the beginning of the file.
THEOREM TransfersAreWhole == TransferSpec => []WholeIfUndisturbed
<1>1. TransferInv => WholeIfUndisturbed
  <2>1. TransferInv => TypeOK /\ DeliveredIfUndisturbed
    BY UploadShows DEF TransferInv
  <2> QED BY <2>1, FtpInvShows, DownInvShows, ScpInvShows DEF TransferInv, WholeIfUndisturbed
<1> QED BY <1>1, TransferInvHolds, PTL

\* Whatever others do meanwhile, what is in a directory arrives in the directory
\* it was put in, and a download that keeps both numbers each name once.
THEOREM TransfersKeepTogether == TransferSpec => []EntriesArriveTogether
<1>1. TransferInv => EntriesArriveTogether
  <2>1. TransferInv => ArrivesTogether
    BY UploadShows DEF TransferInv
  <2> QED BY <2>1, FtpInvShows, DownInvShows DEF TransferInv, EntriesArriveTogether
<1> QED BY <1>1, TransferInvHolds, PTL

\* As long as nobody interferes, every step of an FTP upload and of a download
\* is one of Destination, and a download that knows what is a directory never
\* takes away one that matches a directory of the source.
THEOREM TransfersKeepPromise == TransferSpec => PromiseKept
<1> DEFINE Kept ==
      /\ kind = "ftp_upload" => Ftp!StepPromised
      /\ kind = "download" /\ ~MayMistake => Down!StepPromised /\ Down!MatchingDirectoryKept
<1>1. TransferInv /\ TransferInv' /\ Step => Kept
  <2>1. SUFFICES ASSUME TransferInv, TransferInv', Step
                 PROVE  Kept
    OBVIOUS
  <2>2. kind' = kind
    BY <2>1, StepIsUpload
  <2>3. kind = "ftp_upload" => Ftp!StepPromised
    <3>1. kind = "ftp_upload" => Ftp!Us \/ Ftp!Other
      BY <2>1 DEF Step, Transferring, Interference, SftpUploads, FtpUploads, ScpUploads, Downloads
    <3> QED BY <2>1, <2>2, <3>1, FtpStepIsPromised DEF TransferInv
  <2>4. kind = "download" /\ ~MayMistake => Down!StepPromised /\ Down!MatchingDirectoryKept
    <3>1. kind = "download" => Down!Us \/ Down!Other
      BY <2>1 DEF Step, Transferring, Interference, SftpUploads, FtpUploads, ScpUploads, Downloads
    <3> QED BY <2>1, <2>2, <3>1, DownStepIsPromised, DownKeepsMatching DEF TransferInv
  <2> QED BY <2>3, <2>4
<1>2. TransferSpec => [][Kept]_allVars
  <2> HIDE DEF Kept
  <2> QED BY <1>1, SpecSteps, TransferInvHolds, PTL
<1> QED BY <1>2 DEF PromiseKept

\* Every byte is counted exactly once: an SFTP upload that succeeds has shown
\* the total and never gone back, FTP uploads and downloads report the size of
\* what they have delivered.
THEOREM TransfersCountBytes == TransferSpec => BytesAreCounted
<1>1. TransferInv => ProgressEndsAtTotal
  BY UploadShows DEF TransferInv
<1>2. TransferInv => (kind = "ftp_upload" => Ftp!BytesOfDelivered)
  BY BytesOfDelivered2 DEF TransferInv, FtpInv
<1>3. TransferInv => (kind = "download" => Down!BytesOfDelivered)
  BY BytesOfDelivered2 DEF TransferInv, DownInv
<1>4. TransferInv /\ [Step]_allVars => [reported' >= reported]_vars
  <2>1. SUFFICES ASSUME TransferInv, Step \/ UNCHANGED allVars
                 PROVE  reported' >= reported \/ UNCHANGED vars
    OBVIOUS
  <2>2. Upload
    BY <2>1, StepIsUpload
  <2> QED BY <2>1, <2>2, CountedInv DEF Upload, TransferInv, UploadInv
<1>5. TransferSpec => []ProgressEndsAtTotal
  BY <1>1, TransferInvHolds, PTL
<1>6. TransferSpec => [](kind = "ftp_upload" => Ftp!BytesOfDelivered)
  BY <1>2, TransferInvHolds, PTL
<1>7. TransferSpec => [](kind = "download" => Down!BytesOfDelivered)
  BY <1>3, TransferInvHolds, PTL
<1>8. TransferSpec => [][reported' >= reported]_vars
  <2> QED BY <1>4, SpecSteps, TransferInvHolds, PTL
<1> QED BY <1>5, <1>6, <1>7, <1>8 DEF BytesAreCounted, ProgressForward

\* What holds of an SFTP upload on its own holds of it among the others.
LEMMA UploadSteps == TransferSpec => Init /\ [][Next]_vars
<1>1. TransferInit => Init
  <2>1. TransferInit => kind \in {"sftp_upload", "ftp_upload", "scp_upload", "download"}
    BY TransfersAssumption DEF TransferInit
  <2> QED BY <2>1 DEF TransferInit, NoSftp
<1>2. [Step]_allVars => [Next]_vars
  BY StepIsUpload DEF Upload
<1> QED BY <1>1, <1>2, SpecSteps, PTL

\* Whatever other clients of the server do between two calls, an SFTP upload that
\* was not told to replace leaves every entry alone that it did not make.
THEOREM TransfersKeepOthersEntries == TransferSpec => OthersEntriesKept
<1>1. TransferInv /\ [Next]_vars =>
        [others' = others /\ policy # "replace" =>
           \A p \in DOMAIN remote : ~Ours(remote[p]) => Exists(remote', p) /\ remote'[p] = remote[p]]_vars
  BY KeepsOthersEntries DEF TransferInv, UploadInv
<1> QED BY <1>1, UploadSteps, TransferInvHolds, PTL DEF OthersEntriesKept

\* An SFTP upload implements Destination: it adds, rewrites only what it made or
\* may replace, takes away only files that are in the place of one of its own,
\* and answers with success only when all has arrived.
THEOREM TransfersImplementDestination == TransferSpec => ImplementsDestination
<1>1. TransferInv => Inv
  BY DEF TransferInv, UploadInv
<1> QED BY <1>1, UploadSteps, TransferInvHolds, PromisedInit, PromisedStep, PTL
        DEF ImplementsDestination, Promised!Spec
=============================================================================
