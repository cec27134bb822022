---------------------------- MODULE Files_proofs ----------------------------
(***************************************************************************)
(* Theorems about what needs no transfer: the recursive deletes on a       *)
(* server, and, without a server, the file masks, the queue of local       *)
(* copies and the calls of the local adapter.                              *)
(***************************************************************************)
EXTENDS RemoteDelete, Local, DataLemmas

-----------------------------------------------------------------------------
(***************************************************************************)
(* The recursive deletes, for every tree, every path and whatever another  *)
(* client does meanwhile: success means that the path is gone, and where   *)
(* no link leads out of it nothing outside is removed.                     *)
(*                                                                         *)
(* The first needs to know that the path is pending until it is removed    *)
(* (Pending).  The second needs that the walk is on real paths: every      *)
(* directory that is being emptied was reached over no link (Clean), which *)
(* stays so because nobody makes links.                                    *)
(***************************************************************************)
IsPath(p) == \E S : p \in Seq(S)
CleanWay(p) == \A i \in 1..Len(p) - 1 : ~IsLink(SubSeq(p, 1, i))
Clean(p) == \A i \in 1..Len(p) : ~IsLink(SubSeq(p, 1, i))

StackOK ==
  /\ \E Frames : stack \in Seq(Frames)
  /\ \A i \in DOMAIN stack : DOMAIN stack[i] = {"path", "todo", "dirs"}

\* Until it is removed, the path is about to be, or at the bottom of the stack.
Pending ==
  /\ result = "none" =>
       \/ Target \in removed
       \/ step.call # "next" /\ stack = <<>> /\ step.path = Target
       \/ stack # <<>> /\ stack[1].path = Target
  /\ result = "ok" => Target \in removed

NoLinks == \A p \in DOMAIN found : ~HasLink(found, p)

InPlace(p) == IsPath(p) /\ IsPrefix(Target, p)
FrameOK(frame) ==
  /\ InPlace(frame.path) /\ Clean(frame.path)
  /\ \A q \in frame.todo : \E x : q = Append(frame.path, x)
  /\ \A q \in frame.dirs : ~IsLink(q)

Inside ==
  Direct =>
    /\ \A p \in removed : IsPrefix(Target, p)
    /\ InPlace(step.path) /\ CleanWay(step.path)
    /\ step.call = "look" => ~IsLink(step.path)
    /\ \A i \in DOMAIN stack : FrameOK(stack[i])

Inv ==
  /\ protocol \in {"sftp", "ftp"}
  /\ CleanWay(Target)
  /\ \A p : IsLink(p) => HasLink(found, p)
  /\ StackOK /\ Pending /\ Inside

-----------------------------------------------------------------------------
(***************************************************************************)
(* Paths and links.                                                        *)
(***************************************************************************)

LEMMA TargetIsPath ==
  /\ InPlace(Target)
  /\ Target \in Seq(ToSet(Target))
BY TargetAssumption DEF InPlace, IsPath, IsPrefix, IsSequence

\* A path without links on the way is where it says.
LEMMA CleanWayIsReal ==
  ASSUME NEW p, CleanWay(p)
  PROVE  OnTheWay(p) = p
BY DEF CleanWay, OnTheWay

LEMMA CleanAppend ==
  ASSUME NEW p, InPlace(p), Clean(p), NEW x
  PROVE  InPlace(Append(p, x)) /\ CleanWay(Append(p, x))
<1> DEFINE q == Append(p, x)
<1>1. PICK S : p \in Seq(S)
  BY DEF InPlace, IsPath
<1>2. q \in Seq(S \cup {x}) /\ p \in Seq(S \cup {x}) /\ Len(q) = Len(p) + 1 /\ Len(p) \in Nat
      /\ \A i \in 1..Len(p) : q[i] = p[i]
  BY <1>1
<1> HIDE DEF q
<1>3. ASSUME NEW i \in 1..Len(p)
      PROVE  SubSeq(q, 1, i) = SubSeq(p, 1, i)
  BY <1>2
<1>4. CleanWay(q)
  <2>1. ASSUME NEW i \in 1..Len(q) - 1
        PROVE  ~IsLink(SubSeq(q, 1, i))
    <3>1. i \in 1..Len(p)
      BY <1>2
    <3>2. SubSeq(q, 1, i) = SubSeq(p, 1, i) /\ ~IsLink(SubSeq(p, 1, i))
      BY <1>3, <3>1 DEF Clean
    <3> QED
      BY <3>2
  <2> QED
    BY <2>1 DEF CleanWay
<1>5. IsPrefix(Target, q)
  <2>1. /\ Len(Target) \in Nat /\ Len(Target) <= Len(p)
        /\ \A i \in 1..Len(Target) : Target[i] = p[i]
    BY <1>2, TargetIsPath DEF InPlace, IsPrefix
  <2> QED
    BY <1>2, <2>1, TargetIsPath DEF IsPrefix
<1> QED
  BY <1>2, <1>4, <1>5 DEF InPlace, IsPath, q

LEMMA CleanIfNoLink ==
  ASSUME NEW p, IsPath(p), CleanWay(p), ~IsLink(p)
  PROVE  Clean(p)
<1>1. PICK S : p \in Seq(S)
  BY DEF IsPath
<1>2. Len(p) \in Nat
  BY <1>1
<1>3. ASSUME NEW i \in 1..Len(p)
      PROVE  ~IsLink(SubSeq(p, 1, i))
  <2>1. CASE i = Len(p)
    <3>1. SubSeq(p, 1, Len(p)) = p
      BY <1>1
    <3> QED
      BY <2>1, <3>1
  <2>2. CASE i # Len(p)
    <3>1. i \in 1..Len(p) - 1
      BY <1>2, <2>2
    <3> QED
      BY <3>1 DEF CleanWay
  <2> QED
    BY <2>1, <2>2
<1> QED
  BY <1>3 DEF Clean

\* Nobody makes links.
LEMMA LinksStay ==
  ASSUME [Next]_vars
  PROVE  /\ protocol' = protocol /\ found' = found
         /\ \A p : IsLink(p)' => IsLink(p)
<1>1. ASSUME NEW p, remote' = Without(remote, p)
      PROVE  \A q : IsLink(q)' => IsLink(q)
  BY <1>1 DEF IsLink, HasLink, Exists, Without
<1>2. ASSUME NEW p, NEW e \in {File(Theirs, 0), Dir(Theirs)}, remote' = With(remote, p, e)
      PROVE  \A q : IsLink(q)' => IsLink(q)
  BY <1>2 DEF IsLink, HasLink, Exists, With, File, Dir
<1>3. ASSUME UNCHANGED remote
      PROVE  \A q : IsLink(q)' => IsLink(q)
  BY <1>3 DEF IsLink, HasLink, Exists
<1>4. CASE Unlink \/ Rmdir
  BY <1>1, <1>4 DEF Unlink, Rmdir
<1>5. CASE Other
  <2>1. protocol' = protocol /\ found' = found
    BY <1>5 DEF Other
  <2>2. PICK p \in Contested :
          \/ \E e \in {File(Theirs, 0), Dir(Theirs)} : remote' = With(remote, p, e)
          \/ remote' = Without(remote, p)
    BY <1>5 DEF Other
  <2> QED
    BY <1>1, <1>2, <2>1, <2>2
<1>6. CASE \/ CallFails \/ EnterDirectory \/ LeaveDirectoryAlone \/ UnlinkFails
           \/ (\E i \in DOMAIN stack : \E p \in stack[i].todo : Child(p)) \/ Emptied \/ Done
           \/ UNCHANGED vars
  <2>1. protocol' = protocol /\ found' = found /\ UNCHANGED remote
    BY <1>6 DEF CallFails, EnterDirectory, LeaveDirectoryAlone, UnlinkFails, Child, Emptied,
                Done, Look, vars
  <2> QED
    BY <1>3, <2>1
<1> QED
  BY <1>4, <1>5, <1>6 DEF Next, Us

LEMMA CleanStays ==
  ASSUME [Next]_vars
  PROVE  /\ Direct' = Direct
         /\ \A p : InPlace(p)' = InPlace(p)
         /\ \A p : CleanWay(p) => CleanWay(p)'
         /\ \A p : Clean(p) => Clean(p)'
         /\ \A frame : FrameOK(frame) => FrameOK(frame)'
<1>1. protocol' = protocol /\ found' = found /\ \A p : IsLink(p)' => IsLink(p)
  BY LinksStay
<1>2. Direct' = Direct
  BY <1>1 DEF Direct, NoLinks
<1>3. \A p : Clean(p) => Clean(p)'
  BY <1>1 DEF Clean
<1>4. \A p : CleanWay(p) => CleanWay(p)'
  BY <1>1 DEF CleanWay
<1>5. \A frame : FrameOK(frame) => FrameOK(frame)'
  BY <1>1, <1>3 DEF FrameOK
<1> QED
  BY <1>2, <1>3, <1>4, <1>5

-----------------------------------------------------------------------------
(***************************************************************************)
(* The steps.                                                              *)
(***************************************************************************)

LEMMA InitInv == Init => Inv
<1> SUFFICES ASSUME Init
             PROVE  Inv
  OBVIOUS
<1>1. /\ stack = <<>> /\ step.path = Target /\ step.call = "look" /\ removed = {}
      /\ result = "none" /\ found = remote /\ remote \in Remotes /\ protocol \in Protocols
  BY DEF Init
<1>2. CleanWay(Target)
  BY <1>1, TargetAssumption DEF CleanWay, IsLink
<1>3. StackOK
  <2>1. stack \in Seq({}) /\ DOMAIN stack = {}
    BY <1>1, EmptySeq
  <2> QED
    BY <2>1 DEF StackOK
<1>4. Pending
  BY <1>1 DEF Pending
<1>5. Inside
  <2>1. Direct => ~IsLink(Target)
    BY <1>1 DEF Direct, NoLinks, IsLink, HasLink, Exists
  <2>2. DOMAIN stack = {}
    BY <1>1
  <2> QED
    BY <1>1, <1>2, <2>1, <2>2, TargetIsPath DEF Inside
<1>6. protocol \in {"sftp", "ftp"} /\ \A p : IsLink(p) => HasLink(found, p)
  BY <1>1, TargetAssumption DEF IsLink
<1> QED
  BY <1>2, <1>3, <1>4, <1>5, <1>6 DEF Inv

\* What every step needs of the invariant.
LEMMA StepInv ==
  ASSUME Inv, [Next]_vars, StackOK', Pending', Inside'
  PROVE  Inv'
<1>1. protocol' = protocol /\ found' = found /\ \A p : IsLink(p)' => IsLink(p)
  BY LinksStay
<1>2. CleanWay(Target)'
  BY CleanStays DEF Inv
<1>3. \A p : IsLink(p)' => HasLink(found, p)'
  BY <1>1 DEF Inv
<1> QED
  BY <1>1, <1>2, <1>3 DEF Inv

\* Steps that leave the stack and what was removed.
LEMMA CallInv ==
  ASSUME Inv, [Next]_vars, UNCHANGED <<stack, removed>>, result = "none",
         \/ /\ step'.path = step.path /\ step'.call \notin {"look", "next"}
            /\ step.call # "next" /\ result' = "none"
         \/ step' = step /\ result' = "error"
  PROVE  Inv'
<1>1. StackOK'
  BY DEF Inv, StackOK
<1>2. Pending'
  BY DEF Inv, Pending
<1>3. Inside'
  <2>1. step'.path = step.path /\ (step'.call = "look" => step' = step)
    OBVIOUS
  <2>2. \A p : IsLink(p)' => IsLink(p)
    BY LinksStay
  <2> QED
    BY <2>1, <2>2, CleanStays DEF Inv, Inside
<1> QED
  BY <1>1, <1>2, <1>3, StepInv

LEMMA EnterDirectoryInv ==
  ASSUME Inv, EnterDirectory
  PROVE  Inv'
<1> DEFINE frame == [path |-> step.path, todo |-> Entries(step.path),
                     dirs |-> {q \in Entries(step.path) : Listed(q)}]
<1>1. /\ [Next]_vars /\ result = "none" /\ result' = "none" /\ removed' = removed
      /\ step.call = "look" /\ stack' = Append(stack, frame)
      /\ step'.call = "next" /\ step'.path = Target
  BY DEF Next, Us, EnterDirectory, Doing, Look, Return
<1>2. PICK Frames : stack \in Seq(Frames)
  BY DEF Inv, StackOK
<1>3. frame.path = step.path /\ frame.todo = Entries(step.path)
      /\ frame.dirs = {q \in Entries(step.path) : Listed(q)}
      /\ DOMAIN frame = {"path", "todo", "dirs"}
  OBVIOUS
<1> HIDE DEF frame
<1>4. /\ stack' \in Seq(Frames \cup {frame}) /\ Len(stack') = Len(stack) + 1
      /\ Len(stack) \in Nat /\ DOMAIN stack = 1..Len(stack) /\ DOMAIN stack' = 1..Len(stack')
      /\ \A i \in DOMAIN stack : stack'[i] = stack[i]
      /\ stack'[Len(stack')] = frame
  BY <1>1, <1>2
<1>5. StackOK'
  <2>1. \A i \in DOMAIN stack' : DOMAIN stack'[i] = {"path", "todo", "dirs"}
    BY <1>3, <1>4 DEF Inv, StackOK
  <2> QED
    BY <1>4, <2>1 DEF StackOK
<1>6. Pending'
  <2>1. stack' # <<>> /\ (stack = <<>> => stack'[1] = frame)
        /\ (stack # <<>> => stack'[1] = stack[1])
    BY <1>4
  <2> QED
    BY <1>1, <1>3, <2>1 DEF Inv, Pending
<1>7. Inside'
  <2> SUFFICES ASSUME Direct
               PROVE  Inside'
    BY <1>1, CleanStays DEF Inside
  <2>1. FrameOK(frame)
    <3>1. InPlace(step.path) /\ CleanWay(step.path) /\ ~IsLink(step.path)
      BY <1>1 DEF Inv, Inside
    <3>2. Clean(step.path)
      BY <3>1, CleanIfNoLink DEF InPlace
    <3>3. \A q \in frame.todo : \E x : q = Append(step.path, x)
      BY <1>3 DEF Entries
    <3>4. ASSUME NEW q \in frame.dirs
          PROVE  ~IsLink(q)
      <4>1. PICK x : q = Append(step.path, x)
        BY <1>3 DEF Entries
      <4>2. OnTheWay(q) = q
        BY <3>1, <3>2, <4>1, CleanAppend, CleanWayIsReal
      <4> QED BY <1>3, <4>2 DEF Listed, IsDir, IsLink, HasLink
    <3> QED
      BY <1>3, <3>1, <3>2, <3>3, <3>4 DEF FrameOK
  <2>2. \A i \in DOMAIN stack' : FrameOK(stack'[i])
    BY <1>4, <2>1 DEF Inv, Inside
  <2>3. (\A i \in DOMAIN stack : FrameOK(stack[i]))'
    BY <1>1, <2>2, CleanStays
  <2>4. InPlace(Target) /\ CleanWay(Target)'
    BY <1>1, TargetIsPath, CleanStays DEF Inv
  <2> QED
    BY <1>1, <2>3, <2>4 DEF Inv, Inside
<1> QED
  BY <1>1, <1>5, <1>6, <1>7, StepInv

LEMMA ChildInv ==
  ASSUME Inv, NEW i \in DOMAIN stack, NEW q \in stack[i].todo, Child(q)
  PROVE  Inv'
<1> DEFINE frame == [Last(stack) EXCEPT !.todo = @ \ {q}]
<1>1. /\ [Next]_vars /\ result = "none" /\ result' = "none" /\ removed' = removed
      /\ stack # <<>> /\ q \in Last(stack).todo /\ step.call = "next"
      /\ stack' = Append(Front(stack), frame)
      /\ step'.call = (IF protocol = "ftp" /\ q \notin Last(stack).dirs THEN "unlink" ELSE "look")
      /\ step'.path = q
  BY DEF Next, Us, Child, Doing, Look, Call
<1>2. PICK Frames : stack \in Seq(Frames)
  BY DEF Inv, StackOK
<1>3. /\ Front(stack) \in Seq(Frames) /\ Len(Front(stack)) = Len(stack) - 1
      /\ \A j \in 1..Len(stack) - 1 : Front(stack)[j] = stack[j]
      /\ Last(stack) = stack[Len(stack)] /\ Len(stack) \in DOMAIN stack
      /\ Len(stack) \in Nat
  <2>1. Len(stack) \in Nat \ {0} /\ Len(stack) \in DOMAIN stack
    BY <1>1, <1>2
  <2> QED BY <1>1, <1>2, <2>1, FrontFacts DEF Last
<1>4. DOMAIN Last(stack) = {"path", "todo", "dirs"}
  BY <1>3 DEF Inv, StackOK
<1>5. /\ DOMAIN frame = {"path", "todo", "dirs"} /\ frame.path = Last(stack).path
      /\ frame.todo \subseteq Last(stack).todo /\ frame.dirs = Last(stack).dirs
  BY <1>4
<1> HIDE DEF frame
<1>6. /\ stack' \in Seq(Frames \cup {frame}) /\ Len(stack') = Len(stack)
      /\ DOMAIN stack' = 1..Len(stack) /\ DOMAIN stack = 1..Len(stack)
      /\ \A j \in 1..Len(stack) - 1 : stack'[j] = stack[j]
      /\ stack'[Len(stack)] = frame
  BY <1>1, <1>2, <1>3
<1>7. StackOK'
  <2>1. \A j \in DOMAIN stack' : DOMAIN stack'[j] = {"path", "todo", "dirs"}
    BY <1>3, <1>5, <1>6 DEF Inv, StackOK
  <2> QED
    BY <1>6, <2>1 DEF StackOK
<1>8. Pending'
  <2>1. stack' # <<>> /\ stack'[1].path = stack[1].path
    BY <1>1, <1>3, <1>5, <1>6
  <2> QED
    BY <1>1, <2>1 DEF Inv, Pending
<1>9. Inside'
  <2> SUFFICES ASSUME Direct
               PROVE  Inside'
    BY <1>1, CleanStays DEF Inside
  <2>1. FrameOK(Last(stack))
    BY <1>3 DEF Inv, Inside
  <2>2. FrameOK(frame)
    BY <1>5, <2>1 DEF FrameOK
  <2>3. InPlace(q) /\ CleanWay(q)
    <3>1. PICK x : q = Append(Last(stack).path, x)
      BY <1>1, <2>1 DEF FrameOK
    <3> QED
      BY <2>1, <3>1, CleanAppend DEF FrameOK
  <2>4. step'.call = "look" => ~IsLink(q)
    <3>1. CASE NoLinks
      BY <3>1 DEF Inv, NoLinks, IsLink, HasLink, Exists
    <3>2. CASE protocol = "ftp"
      <4>1. step'.call = "look" => q \in Last(stack).dirs
        BY <1>1, <3>2
      <4> QED
        BY <2>1, <4>1 DEF FrameOK
    <3> QED
      BY <3>1, <3>2 DEF Direct, NoLinks
  <2>5. \A j \in DOMAIN stack' : FrameOK(stack'[j])
    BY <1>6, <2>2 DEF Inv, Inside
  <2>6. (\A j \in DOMAIN stack : FrameOK(stack[j]))'
    BY <1>1, <2>5, CleanStays
  <2>7. CleanWay(q)' /\ (step'.call = "look" => ~IsLink(q)')
    BY <1>1, <2>3, <2>4, CleanStays, LinksStay
  <2> QED
    BY <1>1, <2>3, <2>6, <2>7 DEF Inv, Inside
<1> QED
  BY <1>1, <1>7, <1>8, <1>9, StepInv

LEMMA EmptiedInv ==
  ASSUME Inv, Emptied
  PROVE  Inv'
<1>1. /\ [Next]_vars /\ result = "none" /\ result' = "none" /\ removed' = removed
      /\ stack # <<>> /\ step.call = "next" /\ stack' = Front(stack)
      /\ step'.call = "rmdir" /\ step'.path = Last(stack).path
  BY DEF Next, Us, Emptied, Doing, Look, Call
<1>2. PICK Frames : stack \in Seq(Frames)
  BY DEF Inv, StackOK
<1>3. /\ stack' \in Seq(Frames) /\ Len(stack') = Len(stack) - 1
      /\ \A j \in 1..Len(stack) - 1 : stack'[j] = stack[j]
      /\ Last(stack) = stack[Len(stack)] /\ Len(stack) \in DOMAIN stack
      /\ Len(stack) \in Nat
  <2>1. Len(stack) \in Nat \ {0} /\ Len(stack) \in DOMAIN stack
    BY <1>1, <1>2
  <2> QED BY <1>1, <1>2, <2>1, FrontFacts DEF Last
<1>4. /\ DOMAIN stack' = 1..Len(stack) - 1 /\ DOMAIN stack = 1..Len(stack)
      /\ \A j \in DOMAIN stack' : j \in DOMAIN stack /\ stack'[j] = stack[j]
  BY <1>2, <1>3
<1>5. StackOK'
  BY <1>3, <1>4 DEF Inv, StackOK
<1>6. Pending'
  <2>1. CASE Len(stack) = 1
    <3>1. stack' = <<>> /\ Last(stack) = stack[1]
      BY <1>3, <2>1
    <3> QED
      BY <1>1, <3>1 DEF Inv, Pending
  <2>2. CASE Len(stack) # 1
    <3>1. stack' # <<>> /\ stack'[1] = stack[1]
      <4>1. 1 \in 1..Len(stack) - 1 /\ Len(stack') > 0
        BY <1>3, <2>2, <1>4
      <4> QED
        BY <1>3, <4>1
    <3> QED
      BY <1>1, <3>1 DEF Inv, Pending
  <2> QED
    BY <2>1, <2>2
<1>7. Inside'
  <2> SUFFICES ASSUME Direct
               PROVE  Inside'
    BY <1>1, CleanStays DEF Inside
  <2>1. PICK p : p = Last(stack).path
    OBVIOUS
  <2>2. InPlace(p) /\ CleanWay(p)
    <3>1. InPlace(p) /\ Clean(p)
      BY <1>3, <2>1 DEF Inv, Inside, FrameOK
    <3>2. PICK S : p \in Seq(S)
      BY <3>1 DEF InPlace, IsPath
    <3> QED
      BY <3>1, <3>2 DEF Clean, CleanWay
  <2>3. \A j \in DOMAIN stack' : FrameOK(stack'[j])
    BY <1>4 DEF Inv, Inside
  <2>4. (\A j \in DOMAIN stack : FrameOK(stack[j]))'
    BY <1>1, <2>3, CleanStays
  <2>5. CleanWay(p)'
    BY <1>1, <2>2, CleanStays
  <2> QED
    BY <1>1, <2>1, <2>2, <2>4, <2>5 DEF Inv, Inside
<1> QED
  BY <1>1, <1>5, <1>6, <1>7, StepInv

LEMMA RemovesInv ==
  ASSUME Inv, Unlink \/ Rmdir
  PROVE  Inv'
<1>1. /\ [Next]_vars /\ result = "none" /\ result' = "none" /\ stack' = stack
      /\ step.call # "next" /\ step'.call = "next" /\ step'.path = Target
      /\ removed' = removed \cup {OnTheWay(step.path)}
  BY DEF Next, Us, Unlink, Rmdir, Doing, Return
<1>2. StackOK'
  BY <1>1 DEF Inv, StackOK
<1>3. Pending'
  <2>1. step.path = Target => Target \in removed'
    BY <1>1, CleanWayIsReal DEF Inv
  <2> QED
    BY <1>1, <2>1 DEF Inv, Pending
<1>4. Inside'
  <2> SUFFICES ASSUME Direct
               PROVE  Inside'
    BY <1>1, CleanStays DEF Inside
  <2>1. IsPrefix(Target, OnTheWay(step.path))
    BY CleanWayIsReal DEF Inv, Inside, InPlace
  <2>2. \A p \in removed' : IsPrefix(Target, p)
    BY <1>1, <2>1 DEF Inv, Inside
  <2>3. (\A j \in DOMAIN stack : FrameOK(stack[j]))'
    BY <1>1, CleanStays DEF Inv, Inside
  <2>4. InPlace(Target) /\ CleanWay(Target)'
    BY <1>1, TargetIsPath, CleanStays DEF Inv
  <2> QED
    BY <1>1, <2>2, <2>3, <2>4 DEF Inv, Inside
<1> QED
  BY <1>1, <1>2, <1>3, <1>4, StepInv

\* Others, the answer, and nothing.
LEMMA RestsInv ==
  ASSUME Inv, Done \/ Other \/ UNCHANGED vars
  PROVE  Inv'
<1>1. [Next]_vars /\ UNCHANGED <<stack, removed, step>>
  BY DEF Next, Us, Done, Other, vars
<1>2. StackOK'
  BY <1>1 DEF Inv, StackOK
<1>3. Pending'
  BY <1>1 DEF Inv, Pending, Done, Doing, Other, vars
<1>4. Inside'
  <2> SUFFICES ASSUME Direct
               PROVE  Inside'
    BY <1>1, CleanStays DEF Inside
  <2>1. (\A j \in DOMAIN stack : FrameOK(stack[j]))'
    BY <1>1, CleanStays DEF Inv, Inside
  <2>2. CleanWay(step.path)' /\ (step.call = "look" => ~IsLink(step.path)')
    BY <1>1, CleanStays, LinksStay DEF Inv, Inside
  <2> QED
    BY <1>1, <2>1, <2>2, CleanStays DEF Inv, Inside
<1> QED
  BY <1>1, <1>2, <1>3, <1>4, StepInv

LEMMA NextInv == Inv /\ [Next]_vars => Inv'
<1> SUFFICES ASSUME Inv, [Next]_vars
             PROVE  Inv'
  OBVIOUS
<1>1. CASE CallFails \/ LeaveDirectoryAlone \/ UnlinkFails
  BY <1>1, CallInv DEF CallFails, LeaveDirectoryAlone, UnlinkFails, Doing, Look, Call
<1>2. CASE \E i \in DOMAIN stack : \E p \in stack[i].todo : Child(p)
  BY <1>2, ChildInv
<1> QED
  BY <1>1, <1>2, EnterDirectoryInv, EmptiedInv, RemovesInv, RestsInv DEF Next, Us

\* The path is pending until it is removed, and the walk is on real paths.
THEOREM InvHolds == Spec => []Inv
BY InitInv, NextInv, PTL DEF Spec

-----------------------------------------------------------------------------

\* A delete that reports success has removed the path itself, in any tree.
THEOREM DeletedIfOk == Spec => []GoneIfOk
<1>1. Inv => GoneIfOk
  BY DEF Inv, Pending, GoneIfOk
<1> QED
  BY <1>1, InvHolds, PTL

\* Without links a delete never leaves the directory it was given, whatever
\* others put there meanwhile, and with FTP also not over a link inside.
THEOREM DeleteStaysInside == Spec => []StaysInside
<1>1. Inv => StaysInside
  BY DEF Inv, Inside, StaysInside, DeletesOnlyThis
<1> QED
  BY <1>1, InvHolds, PTL

-----------------------------------------------------------------------------
(***************************************************************************)
(* What is removed was in its directory when that was first read.  What is *)
(* pending was (Waits), and since no directory is entered twice (ReadOnce: *)
(* what is pending is in none of those that were) there is no other        *)
(* reading.  The paths on the stack go down one name at a time.            *)
(***************************************************************************)
Waits(i, q) ==
  /\ \E x : q = Append(stack[i].path, x)
  /\ q \in seen[stack[i].path]
  /\ \A d \in DOMAIN seen : ~IsPrefix(q, d)
  /\ step.call = "look" => ~IsPrefix(q, step.path)

Entered(i) ==
  /\ stack[i].path \in DOMAIN seen /\ Seen(stack[i].path) /\ IsSequence(stack[i].path)
  /\ Len(stack[i].path) + 1 = Len(Target) + i

NextCall ==
  /\ IsSequence(step.path) /\ Seen(step.path)
  /\ step.call = "look" => /\ Len(step.path) = Len(Target) + Len(stack)
                           /\ \A d \in DOMAIN seen : ~IsPrefix(step.path, d)

ReadOnce ==
  /\ \A d \in DOMAIN seen : IsSequence(d)
  /\ \A i \in DOMAIN stack : Entered(i) /\ \A q \in stack[i].todo : Waits(i, q)
  /\ NextCall

\* Under Direct the paths of the calls are real, and the tree stays one.
RealTree ==
  /\ others \in Nat
  /\ Direct => NamedTree(remote) /\ IsFiniteSet(DOMAIN remote)

LEMMA SeenStays ==
  ASSUME [Next]_vars
  PROVE  /\ DOMAIN seen \subseteq DOMAIN seen' /\ \A d \in DOMAIN seen : seen'[d] = seen[d]
         /\ \A p : Seen(p) => Seen(p)'
<1>1. CASE EnterDirectory
  <2>1. seen' = seen \/ (step.path \notin DOMAIN seen
                         /\ seen' = With(seen, step.path, Entries(step.path)))
    BY <1>1 DEF EnterDirectory
  <2>2. DOMAIN seen \subseteq DOMAIN seen' /\ \A d \in DOMAIN seen : seen'[d] = seen[d]
    BY <2>1 DEF With
  <2> QED BY <2>2 DEF Seen
<1>2. CASE ~EnterDirectory
  <2>1. seen' = seen
    BY <1>2 DEF Next, Us, CallFails, LeaveDirectoryAlone, Child, Unlink, UnlinkFails, Emptied,
                Rmdir, Done, Other, Look, vars
  <2> QED BY <2>1 DEF Seen
<1> QED BY <1>1, <1>2

LEMMA InitOnce == Init => ReadOnce /\ RealTree
<1> SUFFICES ASSUME Init
             PROVE  ReadOnce /\ RealTree
  OBVIOUS
<1>1. /\ stack = <<>> /\ step.path = Target /\ step.call = "look" /\ seen = <<>>
      /\ remote \in Remotes /\ others = 0
  BY DEF Init
<1>2. DOMAIN stack = {} /\ DOMAIN seen = {} /\ Len(stack) = 0 /\ Len(Target) \in Nat
  BY <1>1, TargetAssumption DEF IsSequence
<1>3. ReadOnce
  BY <1>1, <1>2, TargetAssumption DEF ReadOnce, NextCall, Seen
<1>4. RealTree
  BY <1>1, TargetAssumption DEF RealTree, NamedTree
<1> QED BY <1>3, <1>4

\* Steps that enter no directory and look at none.
LEMMA RestsOnce ==
  ASSUME ReadOnce, [Next]_vars, seen' = seen,
         \A i \in DOMAIN stack' : i \in DOMAIN stack /\ stack'[i] = stack[i],
         \/ step' = step /\ stack' = stack
         \/ /\ step'.call # "look"
            /\ step'.path \in {step.path, Target} \cup {stack[i].path : i \in DOMAIN stack}
  PROVE  ReadOnce'
<1>1. \A p : Seen(p)' = Seen(p)
  BY DEF Seen
<1>2. NextCall'
  <2>1. CASE step' = step /\ stack' = stack
    BY <1>1, <2>1 DEF ReadOnce, NextCall
  <2>2. CASE /\ step'.call # "look"
             /\ step'.path \in {step.path, Target} \cup {stack[i].path : i \in DOMAIN stack}
    <3>1. Seen(Target)
      BY DEF Seen
    <3> QED BY <1>1, <2>2, <3>1, TargetAssumption DEF ReadOnce, NextCall, Entered
  <2> QED BY <2>1, <2>2
<1>3. ASSUME NEW i \in DOMAIN stack'
      PROVE  Entered(i)' /\ \A q \in stack'[i].todo : Waits(i, q)'
  <2>1. i \in DOMAIN stack /\ stack'[i] = stack[i]
    BY <1>3
  <2>2. Entered(i)'
    BY <1>1, <2>1 DEF ReadOnce, Entered
  <2>3. step'.call = "look" => step' = step
    OBVIOUS
  <2>4. ASSUME NEW q \in stack'[i].todo PROVE Waits(i, q)'
    BY <2>1, <2>3, <2>4 DEF ReadOnce, Waits
  <2> QED BY <2>2, <2>4
<1> QED BY <1>2, <1>3 DEF ReadOnce

LEMMA EnterOnce ==
  ASSUME Inv, ReadOnce, EnterDirectory
  PROVE  ReadOnce'
<1> DEFINE at == step.path
<1> DEFINE frame == [path |-> at, todo |-> Entries(at), dirs |-> {q \in Entries(at) : Listed(q)}]
<1>1. /\ [Next]_vars /\ step.call = "look" /\ stack' = Append(stack, frame)
      /\ step'.call = "next" /\ step'.path = Target
  BY DEF Next, Us, EnterDirectory, Doing, Return
<1>2. PICK Frames : stack \in Seq(Frames)
  BY DEF Inv, StackOK
<1>3. /\ IsSequence(at) /\ Seen(at) /\ Len(at) = Len(Target) + Len(stack)
      /\ \A d \in DOMAIN seen : ~IsPrefix(at, d) /\ IsSequence(d)
  BY <1>1 DEF ReadOnce, NextCall
<1>4. at \notin DOMAIN seen
  BY <1>3, PrefixRefl DEF IsSequence
<1>5. seen' = With(seen, at, Entries(at))
  BY <1>4 DEF EnterDirectory
<1>6. /\ DOMAIN seen' = DOMAIN seen \cup {at} /\ seen'[at] = Entries(at)
      /\ \A d \in DOMAIN seen : seen'[d] = seen[d]
  BY <1>4, <1>5 DEF With
<1>7. frame.path = at /\ frame.todo = Entries(at)
  OBVIOUS
<1>0. PICK m : m = Len(stack) + 1
  OBVIOUS
<1>8. /\ Len(stack) \in Nat /\ DOMAIN stack' = DOMAIN stack \cup {m}
      /\ \A i \in DOMAIN stack : stack'[i] = stack[i]
      /\ stack'[m] = frame
  BY <1>0, <1>1, <1>2
<1> HIDE DEF frame, at
<1>9. \A p : Seen(p) => Seen(p)'
  BY <1>1, SeenStays
<1>10. NextCall'
  <2>1. Seen(Target)
    BY DEF Seen
  <2> QED BY <1>1, <1>9, <2>1, TargetAssumption DEF NextCall
<1>11. ASSUME NEW i \in DOMAIN stack
       PROVE  Entered(i)' /\ \A q \in stack'[i].todo : Waits(i, q)'
  <2>1. Entered(i) /\ stack'[i] = stack[i]
    BY <1>8 DEF ReadOnce
  <2>2. Entered(i)'
    BY <1>6, <1>9, <2>1 DEF Entered
  <2>3. ASSUME NEW q \in stack'[i].todo PROVE Waits(i, q)'
    <3>1. Waits(i, q)
      BY <2>1, <2>3 DEF ReadOnce
    <3>2. ~IsPrefix(q, at)
      BY <1>1, <3>1 DEF Waits, at
    <3>3. stack[i].path \in DOMAIN seen
      BY <2>1 DEF Entered
    <3> QED BY <1>1, <1>6, <2>1, <3>1, <3>2, <3>3 DEF Waits
  <2> QED BY <2>2, <2>3
<1>12. Entered(m)'
  <2>1. Len(Target) \in Nat
    BY TargetAssumption DEF IsSequence
  <2> QED BY <1>0, <1>3, <1>6, <1>7, <1>8, <1>9, <2>1 DEF Entered
<1>13. ASSUME NEW q \in Entries(at)
       PROVE  Waits(m, q)'
  <2>1. PICK x : q = Append(at, x)
    BY DEF Entries
  <2>2. ASSUME NEW d \in DOMAIN seen' PROVE ~IsPrefix(q, d)
    <3> DEFINE S == ToSet(at) \cup ToSet(d) \cup {x}
    <3>1. IsSequence(d)
      BY <1>3, <1>6, <2>2
    <3>2. at \in Seq(S) /\ d \in Seq(S) /\ x \in S
      BY <1>3, <3>1 DEF IsSequence
    <3> HIDE DEF S
    <3>3. q \in Seq(S) /\ Len(q) = Len(at) + 1 /\ \A k \in 1..Len(at) : q[k] = at[k]
      BY <2>1, <3>2
    <3>4. IsPrefix(at, q)
      BY <3>2, <3>3, PrefixIff
    <3>5. CASE d = at
      BY <3>2, <3>3, <3>5 DEF IsPrefix
    <3>6. CASE d # at
      BY <1>3, <1>6, <2>2, <3>2, <3>3, <3>4, <3>6, PrefixTrans
    <3> QED BY <3>5, <3>6
  <2> QED BY <1>1, <1>6, <1>7, <1>8, <2>1, <2>2 DEF Waits
<1>14. \A i \in DOMAIN stack' : Entered(i)' /\ \A q \in stack'[i].todo : Waits(i, q)'
  BY <1>7, <1>8, <1>11, <1>12, <1>13
<1> QED BY <1>3, <1>6, <1>10, <1>14 DEF ReadOnce

LEMMA ChildOnce ==
  ASSUME Inv, ReadOnce, NEW i \in DOMAIN stack, NEW p \in stack[i].todo, Child(p)
  PROVE  ReadOnce'
<1> DEFINE frame == [Last(stack) EXCEPT !.todo = @ \ {p}]
<1> DEFINE n == Len(stack)
<1>1. /\ [Next]_vars /\ seen' = seen /\ stack # <<>> /\ p \in Last(stack).todo
      /\ stack' = Append(Front(stack), frame) /\ step'.path = p
  BY DEF Next, Us, Child, Look, Call
<1>2. PICK Frames : stack \in Seq(Frames)
  BY DEF Inv, StackOK
<1>3. n \in Nat \ {0} /\ n \in DOMAIN stack /\ DOMAIN stack = 1..n /\ Last(stack) = stack[n]
  BY <1>1, <1>2 DEF Last
<1>4. frame.path = stack[n].path /\ frame.todo = stack[n].todo \ {p}
  BY <1>3 DEF Inv, StackOK
<1> HIDE DEF frame
<1>5. DOMAIN stack' = 1..n /\ Len(stack') = n
      /\ (\A j \in 1..n - 1 : stack'[j] = stack[j]) /\ stack'[n] = frame
  <2>1. /\ Front(stack) \in Seq(Frames) /\ Len(Front(stack)) = n - 1
        /\ \A j \in 1..n - 1 : Front(stack)[j] = stack[j]
    BY <1>1, <1>2, FrontFacts
  <2> HIDE DEF n
  <2>2. n \in Nat \ {0}
    BY <1>3
  <2>3. /\ Len(Append(Front(stack), frame)) = n /\ DOMAIN Append(Front(stack), frame) = 1..n
        /\ \A j \in 1..n - 1 : Append(Front(stack), frame)[j] = Front(stack)[j]
        /\ Append(Front(stack), frame)[n] = frame
    BY <2>1, <2>2
  <2> QED BY <1>1, <2>1, <2>3
<1>6. Entered(n) /\ Waits(n, p) /\ Len(Target) \in Nat
  BY <1>1, <1>3, TargetAssumption DEF ReadOnce, IsSequence
<1>7. PICK x : p = Append(stack[n].path, x)
  BY <1>6 DEF Waits
<1> DEFINE at == stack[n].path
<1>8. IsSequence(at) /\ at \in Seq(ToSet(at)) /\ Len(at) + 1 = Len(Target) + n
  BY <1>6 DEF Entered, IsSequence
<1> HIDE DEF n, at
<1>9. Parent(p) = at /\ p \in Seq(ToSet(at) \cup {x}) /\ Len(p) = Len(at) + 1 /\ IsSequence(p)
  BY <1>7, <1>8, LastAdded, InSeqIsSequence DEF at
<1>10. Seen(p)
  BY <1>6, <1>9 DEF Seen, Entered, Waits, at
<1>11. NextCall'
  <2>1. Len(p) = Len(Target) + n
    BY <1>8, <1>9
  <2>2. \A d \in DOMAIN seen : ~IsPrefix(p, d)
    BY <1>6 DEF Waits
  <2>3. Seen(p)'
    BY <1>1, <1>10, SeenStays
  <2> QED BY <1>1, <1>5, <1>9, <2>1, <2>2, <2>3 DEF NextCall
<1>12. ASSUME NEW j \in 1..n, NEW q \in stack[j].todo, IsPrefix(q, p)
       PROVE  j = n /\ q = p
  <2>1. Waits(j, q) /\ Entered(j)
    BY <1>3, <1>12 DEF ReadOnce, n
  <2>2. PICK y : q = Append(stack[j].path, y)
    BY <2>1 DEF Waits
  <2> DEFINE from == stack[j].path
  <2>3. IsSequence(from) /\ from \in Seq(ToSet(from)) /\ Len(from) + 1 = Len(Target) + j
    BY <2>1 DEF Entered, IsSequence
  <2> DEFINE S == ToSet(from) \cup ToSet(at) \cup {x, y}
  <2>4. from \in Seq(S) /\ at \in Seq(S) /\ x \in S /\ y \in S
    BY <1>8, <2>3
  <2> HIDE DEF S, from
  <2>5. q \in Seq(S) /\ p \in Seq(S) /\ Len(q) = Len(from) + 1
    BY <1>7, <2>2, <2>4 DEF at, from
  <2>6. IsPrefix(at, p)
    <3>1. \A k \in 1..Len(at) : p[k] = at[k]
      BY <1>7, <2>4 DEF at
    <3>2. Len(at) \in Nat /\ Len(at) <= Len(p)
      BY <1>9, <2>4
    <3> QED BY <2>4, <2>5, <3>1, <3>2, PrefixIff
  <2>7. ~IsPrefix(q, at)
    BY <1>6, <2>1 DEF Waits, Entered, at
  <2>8. IsPrefix(at, q)
    BY <1>12, <2>4, <2>5, <2>6, <2>7, PrefixesCompare
  <2>9. Len(at) < Len(q) /\ Len(q) <= Len(p)
    <3>1. Len(at) <= Len(q) /\ Len(q) <= Len(p)
      BY <1>12, <2>8 DEF IsPrefix
    <3>2. Len(at) # Len(q)
      <4>1. CASE Len(at) = Len(q)
        <5>1. at = q
          BY <2>4, <2>5, <2>8, <4>1, PrefixSame
        <5> QED BY <2>5, <2>7, <5>1, PrefixRefl
      <4> QED BY <4>1
    <3>3. Len(at) \in Nat /\ Len(q) \in Nat
      BY <2>4, <2>5
    <3> QED BY <3>1, <3>2, <3>3
  <2>10. Len(q) = Len(p)
    <3>1. Len(at) \in Nat /\ Len(q) \in Nat /\ Len(p) = Len(at) + 1
      BY <1>9, <2>4, <2>5
    <3> QED BY <2>9, <3>1
  <2>11. q = p
    BY <1>12, <2>5, <2>10, PrefixSame
  <2>12. j = n
    <3>1. Len(from) = Len(at)
      <4>1. Len(from) \in Nat /\ Len(at) \in Nat
        BY <2>4
      <4> QED BY <1>9, <2>5, <2>10, <4>1
    <3>2. j \in Nat /\ n \in Nat
      BY <1>3 DEF n
    <3> QED BY <1>6, <1>8, <2>3, <3>1, <3>2 DEF from
  <2> QED BY <2>11, <2>12
<1>13. ASSUME NEW j \in 1..n
       PROVE  Entered(j)' /\ \A q \in stack'[j].todo : Waits(j, q)'
  <2>0. j \in 1..n
    BY <1>13
  <2>1. stack'[j].path = stack[j].path /\ stack'[j].todo \subseteq stack[j].todo
        /\ (j = n => p \notin stack'[j].todo)
    <3>1. CASE j = n
      BY <1>4, <1>5, <3>1 DEF n
    <3>2. CASE j # n
      <4>0. n \in Nat
        BY <1>3 DEF n
      <4>1. j \in 1..n - 1
        BY <2>0, <3>2, <4>0
      <4> QED BY <1>5, <3>2, <4>1
    <3> QED BY <3>1, <3>2
  <2>2. Entered(j) /\ \A q \in stack[j].todo : Waits(j, q)
    BY <1>3, <2>0 DEF ReadOnce, n
  <2>3. Seen(stack[j].path)'
    BY <1>1, <2>1, <2>2, SeenStays DEF Entered
  <2>4. Entered(j)'
    BY <1>1, <2>1, <2>2, <2>3 DEF Entered
  <2>5. ASSUME NEW q \in stack'[j].todo PROVE Waits(j, q)'
    <3>1. Waits(j, q)
      BY <2>1, <2>2, <2>5
    <3>2. ~IsPrefix(q, p)
      BY <1>12, <2>1, <2>5
    <3> QED BY <1>1, <2>1, <3>1, <3>2 DEF Waits
  <2> QED BY <2>4, <2>5
<1>14. \A d \in DOMAIN seen' : IsSequence(d)
  BY <1>1 DEF ReadOnce
<1> QED BY <1>5, <1>11, <1>13, <1>14 DEF ReadOnce

LEMMA NextOnce == Inv /\ ReadOnce /\ [Next]_vars => ReadOnce'
<1> SUFFICES ASSUME Inv, ReadOnce, [Next]_vars
             PROVE  ReadOnce'
  OBVIOUS
<1>1. CASE Emptied
  <2>1. PICK Frames : stack \in Seq(Frames)
    BY DEF Inv, StackOK
  <2>2. stack # <<>> /\ stack' = Front(stack) /\ seen' = seen
        /\ step'.call = "rmdir" /\ step'.path = stack[Len(stack)].path
    BY <1>1 DEF Emptied, Call, Look, Last
  <2>3. /\ Len(stack) \in Nat \ {0} /\ Len(stack) \in DOMAIN stack /\ DOMAIN stack = 1..Len(stack)
    BY <2>1, <2>2
  <2>4. \A i \in DOMAIN stack' : i \in DOMAIN stack /\ stack'[i] = stack[i]
    <3>1. /\ Front(stack) \in Seq(Frames) /\ Len(Front(stack)) = Len(stack) - 1
          /\ \A i \in 1..Len(stack) - 1 : Front(stack)[i] = stack[i]
      BY <2>1, <2>2, FrontFacts
    <3>2. DOMAIN Front(stack) = 1..Len(stack) - 1
      BY <3>1
    <3> QED BY <2>2, <2>3, <3>1, <3>2
  <2> QED BY <2>2, <2>3, <2>4, RestsOnce
<1>2. CASE \/ CallFails \/ LeaveDirectoryAlone \/ Unlink \/ UnlinkFails \/ Rmdir \/ Done \/ Other
           \/ UNCHANGED vars
  <2>1. seen' = seen /\ stack' = stack
        /\ (step' = step \/ (step'.call # "look" /\ step'.path \in {step.path, Target}))
    BY <1>2 DEF CallFails, LeaveDirectoryAlone, Unlink, UnlinkFails, Rmdir, Done, Other, Look,
                Call, Return, vars
  <2> QED BY <2>1, RestsOnce
<1> QED BY <1>1, <1>2, EnterOnce, ChildOnce DEF Next, Us

LEMMA NextReal == Inv /\ RealTree /\ [Next]_vars => RealTree'
<1> SUFFICES ASSUME Inv, RealTree, [Next]_vars
             PROVE  RealTree'
  OBVIOUS
<1>1. others' \in Nat
  <2>1. Other \/ others' = others
    BY DEF Next, Us, CallFails, EnterDirectory, LeaveDirectoryAlone, Child, Unlink,
           UnlinkFails, Emptied, Rmdir, Done, Look, vars
  <2> QED BY <2>1 DEF Other, RealTree
<1>2. SUFFICES ASSUME Direct
               PROVE  NamedTree(remote') /\ IsFiniteSet(DOMAIN remote')
  BY <1>1, CleanStays DEF RealTree
<1>3. NamedTree(remote) /\ IsFiniteSet(DOMAIN remote)
  BY <1>2 DEF RealTree
<1>4. ASSUME NEW p, IsSequence(p), p # Root, remote' = Without(remote, p)
      PROVE  NamedTree(remote') /\ IsFiniteSet(DOMAIN remote')
  BY <1>3, <1>4, WithoutIsTree
<1>5. CASE Unlink \/ Rmdir
  <2>1. remote' = Without(remote, OnTheWay(step.path))
    BY <1>5 DEF Unlink, Rmdir
  <2>2. InPlace(step.path) /\ OnTheWay(step.path) = step.path
    BY <1>2, CleanWayIsReal DEF Inv, Inside
  <2>3. IsSequence(step.path) /\ step.path # Root
    <3>1. PICK S : step.path \in Seq(S)
      BY <2>2 DEF InPlace, IsPath
    <3>2. Len(Target) > 0 /\ Len(Target) <= Len(step.path)
      BY <2>2, TargetAssumption DEF IsSequence, Root, InPlace, IsPrefix
    <3>3. step.path # Root
      BY <3>2, TargetAssumption DEF Root, IsSequence
    <3> QED BY <3>1, <3>3, InSeqIsSequence
  <2> QED BY <1>4, <2>1, <2>2, <2>3
<1>6. CASE Other
  <2>1. PICK p \in Contested :
          \/ CanAdd(remote, p) /\ \E e \in {File(Theirs, 0), Dir(Theirs)} : remote' = With(remote, p, e)
          \/ remote' = Without(remote, p)
    BY <1>6 DEF Other
  <2>2. IsSequence(p) /\ p # Root
    BY TargetAssumption
  <2> QED BY <1>3, <1>4, <2>1, <2>2, WithIsTree
<1>7. CASE ~(Unlink \/ Rmdir \/ Other)
  <2>1. remote' = remote
    BY <1>7 DEF Next, Us, CallFails, EnterDirectory, LeaveDirectoryAlone, Child, UnlinkFails,
                Emptied, Done, Look, vars
  <2> QED BY <1>3, <2>1
<1> QED BY <1>5, <1>6, <1>7

\* Whatever another client puts into a directory that was read, at any depth,
\* stays: the deletion takes away its own path and what it found.
THEOREM LateEntriesAreKept == Spec => LateEntriesKept
<1>1. Inv /\ ReadOnce /\ RealTree /\ [Next]_vars =>
        [others' = others /\ Direct => \A p \in DOMAIN remote \ DOMAIN remote' : Seen(p)]_vars
  <2> SUFFICES ASSUME Inv, ReadOnce, RealTree, [Next]_vars, others' = others, Direct,
                      NEW p \in DOMAIN remote \ DOMAIN remote'
               PROVE  Seen(p)
    OBVIOUS
  <2>1. ~Other
    BY DEF Other, RealTree
  <2>2. Unlink \/ Rmdir
    BY <2>1 DEF Next, Us, CallFails, EnterDirectory, LeaveDirectoryAlone, Child, UnlinkFails,
                Emptied, Done, Look, vars
  <2>3. OnTheWay(step.path) = step.path
    BY CleanWayIsReal DEF Inv, Inside
  <2>4. /\ remote' = Without(remote, step.path)
        /\ ~IsDir(remote, step.path) \/ Children(remote, step.path) = {}
    BY <2>2, <2>3 DEF Unlink, Rmdir, IsEmptyDir
  <2>5. p \in Below(remote, step.path)
    BY <2>4 DEF Without
  <2>6. IsSequence(step.path) /\ Seen(step.path)
    BY DEF ReadOnce, NextCall
  <2>7. p = step.path
    BY <2>4, <2>5, <2>6, BelowOthers DEF RealTree
  <2> QED BY <2>6, <2>7
<1>2. Spec => [](ReadOnce /\ RealTree)
  BY InitOnce, InvHolds, NextOnce, NextReal, PTL DEF Spec
<1> QED
  BY <1>1, <1>2, InvHolds, PTL DEF Spec, LateEntriesKept

-----------------------------------------------------------------------------
(***************************************************************************)
(* The masks.  A turn of wildcard_match is at character i of the mask and  *)
(* at j of the text, and would try again just after the star at s with     *)
(* what follows u.  It is sound, and it loses no way to cut the text: each *)
(* of them goes on at or behind u after the star, and, while there is text *)
(* left, takes as many characters since the star as have been consumed.    *)
(***************************************************************************)
Sound(mask, string, i, j, s, u) ==
  /\ i \in 0..Len(mask) /\ j \in 0..Len(string)
  /\ s \in 0..i /\ u \in 0..j
  /\ s = 0 => u = 0
  /\ s # 0 => mask[s] = "*" /\ Masks!StandsFor(mask, string, s, u)
  /\ Masks!StandsFor(mask, string, i, j)

NotLost(cut, string, i, j, s, u) ==
  /\ cut[i] >= j /\ cut[s] >= u
  /\ j < Len(string) =>
       i - s = j - u /\ \A n \in s..i : cut[n] = cut[s] + (n - s)

WholeCut(cut, mask, string) ==
  /\ cut \in [0..Len(mask) -> 0..Len(string)]
  /\ Masks!Cuts(cut, mask, string, Len(mask), Len(string))

Complete(mask, string, i, j, s, u) ==
  \A cut : WholeCut(cut, mask, string) => NotLost(cut, string, i, j, s, u)

FitsAt(mask, string, i, j) == i < Len(mask) /\ mask[i + 1] \in {"?", string[j + 1]}
StarAt(mask, i) == i < Len(mask) /\ mask[i + 1] = "*"

LEMMA CutStep ==
  ASSUME NEW A, NEW B, NEW mask \in Seq(A), NEW string \in Seq(B),
         NEW cut, WholeCut(cut, mask, string), NEW n \in 1..Len(mask)
  PROVE  /\ cut[n - 1] \in 0..Len(string) /\ cut[n] \in 0..Len(string)
         /\ mask[n] = "*" => cut[n - 1] <= cut[n]
         /\ mask[n] # "*" => cut[n] = cut[n - 1] + 1 /\ mask[n] \in {"?", string[cut[n]]}
         /\ cut[0] = 0 /\ cut[Len(mask)] = Len(string)
<1>1. n \in 0..Len(mask) /\ n - 1 \in 0..Len(mask)
  OBVIOUS
<1> QED BY <1>1 DEF WholeCut, Masks!Cuts

LEMMA NothingStandsForNothing ==
  ASSUME NEW A, NEW B, NEW mask \in Seq(A), NEW string \in Seq(B)
  PROVE  Masks!StandsFor(mask, string, 0, 0)
<1> DEFINE cut == [n \in 0..0 |-> 0]
<1>1. cut \in [0..0 -> 0..0] /\ cut[0] = 0 /\ \A n \in 1..0 : FALSE
  OBVIOUS
<1> HIDE DEF cut
<1>2. Masks!Cuts(cut, mask, string, 0, 0)
  BY <1>1 DEF Masks!Cuts
<1> QED BY <1>1, <1>2 DEF Masks!StandsFor

\* What one more character of the mask stands for.
LEMMA OneMore ==
  ASSUME NEW A, NEW B, NEW mask \in Seq(A), NEW string \in Seq(B),
         NEW i \in 0..Len(mask), i < Len(mask), NEW j \in 0..Len(string), NEW h \in 0..Len(string),
         Masks!StandsFor(mask, string, i, j),
         IF mask[i + 1] = "*" THEN j <= h ELSE h = j + 1 /\ mask[i + 1] \in {"?", string[h]}
  PROVE  Masks!StandsFor(mask, string, i + 1, h)
<1>1. PICK cut \in [0..i -> 0..j] : Masks!Cuts(cut, mask, string, i, j)
  BY DEF Masks!StandsFor
<1> DEFINE more == [n \in 0..(i + 1) |-> IF n = i + 1 THEN h ELSE cut[n]]
<1>2. j <= h
  OBVIOUS
<1>3. more \in [0..(i + 1) -> 0..h]
  BY <1>2
<1>4. more[i + 1] = h /\ \A n \in 0..i : more[n] = cut[n]
  OBVIOUS
<1> HIDE DEF more
<1>5. more[0] = 0
  BY <1>1, <1>4 DEF Masks!Cuts
<1>6. ASSUME NEW n \in 1..(i + 1)
      PROVE IF mask[n] = "*" THEN more[n - 1] <= more[n]
            ELSE more[n] = more[n - 1] + 1 /\ mask[n] \in {"?", string[more[n]]}
  <2>1. CASE n = i + 1
    <3>1. more[n - 1] = j /\ more[n] = h
      BY <2>1, <1>1, <1>4 DEF Masks!Cuts
    <3> QED BY <3>1, <2>1
  <2>2. CASE n # i + 1
    <3>1. n \in 1..i /\ more[n] = cut[n] /\ more[n - 1] = cut[n - 1]
      BY <2>2, <1>4
    <3>2. IF mask[n] = "*" THEN cut[n - 1] <= cut[n]
          ELSE cut[n] = cut[n - 1] + 1 /\ mask[n] \in {"?", string[cut[n]]}
      BY <3>1, <1>1 DEF Masks!Cuts
    <3> QED BY <3>1, <3>2
  <2> QED BY <2>1, <2>2
<1>7. Masks!Cuts(more, mask, string, i + 1, h)
  BY <1>4, <1>5, <1>6 DEF Masks!Cuts
<1> QED BY <1>3, <1>7 DEF Masks!StandsFor

\* A star that stands for a piece stands for a longer one.
LEMMA StarTakesMore ==
  ASSUME NEW A, NEW B, NEW mask \in Seq(A), NEW string \in Seq(B),
         NEW s \in 1..Len(mask), mask[s] = "*", NEW u \in 0..Len(string), NEW h \in 0..Len(string),
         u <= h, Masks!StandsFor(mask, string, s, u)
  PROVE  Masks!StandsFor(mask, string, s, h)
<1>1. PICK cut \in [0..s -> 0..u] : Masks!Cuts(cut, mask, string, s, u)
  BY DEF Masks!StandsFor
<1> DEFINE more == [cut EXCEPT ![s] = h]
<1>3. more \in [0..s -> 0..h]
  OBVIOUS
<1>4. more[s] = h /\ \A n \in 0..s : n # s => more[n] = cut[n]
  OBVIOUS
<1>4a. \A n \in 0..s : cut[n] \in 0..u
  OBVIOUS
<1> HIDE DEF more
<1>5. more[0] = 0
  BY <1>1, <1>4 DEF Masks!Cuts
<1>6. ASSUME NEW n \in 1..s
      PROVE IF mask[n] = "*" THEN more[n - 1] <= more[n]
            ELSE more[n] = more[n - 1] + 1 /\ mask[n] \in {"?", string[more[n]]}
  <2>1. IF mask[n] = "*" THEN cut[n - 1] <= cut[n]
        ELSE cut[n] = cut[n - 1] + 1 /\ mask[n] \in {"?", string[cut[n]]}
    BY <1>1 DEF Masks!Cuts
  <2>2. n - 1 \in 0..s /\ n \in 0..s /\ n - 1 # s
    OBVIOUS
  <2>3. more[n - 1] = cut[n - 1]
    BY <2>2, <1>4
  <2>4. CASE n = s
    <3>1. cut[n - 1] \in 0..u /\ more[n] = h
      BY <2>2, <2>4, <1>4, <1>4a
    <3> QED BY <2>3, <2>4, <3>1
  <2>5. CASE n # s
    BY <2>1, <2>2, <2>3, <2>5, <1>4
  <2> QED BY <2>4, <2>5
<1>7. Masks!Cuts(more, mask, string, s, h)
  BY <1>4, <1>5, <1>6 DEF Masks!Cuts
<1> QED BY <1>3, <1>7 DEF Masks!StandsFor

-----------------------------------------------------------------------------

LEMMA TurnStarts ==
  ASSUME NEW A, NEW B, NEW mask \in Seq(A), NEW string \in Seq(B)
  PROVE  Sound(mask, string, 0, 0, 0, 0) /\ Complete(mask, string, 0, 0, 0, 0)
<1>1. Sound(mask, string, 0, 0, 0, 0)
  BY NothingStandsForNothing DEF Sound
<1>2. ASSUME NEW cut, WholeCut(cut, mask, string) PROVE NotLost(cut, string, 0, 0, 0, 0)
  BY <1>2 DEF WholeCut, Masks!Cuts, NotLost
<1> QED BY <1>1, <1>2 DEF Complete

LEMMA TurnConsumes ==
  ASSUME NEW A, NEW B, NEW mask \in Seq(A), NEW string \in Seq(B), NEW i, NEW j, NEW s, NEW u,
         Sound(mask, string, i, j, s, u), j < Len(string), FitsAt(mask, string, i, j)
  PROVE  /\ Sound(mask, string, i + 1, j + 1, s, u)
         /\ string[j + 1] # "*" /\ Complete(mask, string, i, j, s, u) =>
              Complete(mask, string, i + 1, j + 1, s, u)
<1>1. /\ i \in 0..Len(mask) /\ j \in 0..Len(string) /\ s \in 0..i /\ u \in 0..j /\ i < Len(mask)
      /\ j + 1 \in 0..Len(string) /\ i + 1 \in 0..Len(mask) /\ s \in 0..(i + 1) /\ u \in 0..(j + 1)
  BY DEF Sound, FitsAt
<1>2. Masks!StandsFor(mask, string, i + 1, j + 1)
  <2>1. IF mask[i + 1] = "*" THEN j <= j + 1 ELSE j + 1 = j + 1 /\ mask[i + 1] \in {"?", string[j + 1]}
    BY <1>1 DEF FitsAt
  <2>2. Masks!StandsFor(mask, string, i, j)
    BY DEF Sound
  <2> QED BY <1>1, <2>1, <2>2, OneMore
<1>3. Sound(mask, string, i + 1, j + 1, s, u)
  BY <1>1, <1>2 DEF Sound
<1>4. ASSUME string[j + 1] # "*", Complete(mask, string, i, j, s, u), NEW cut, WholeCut(cut, mask, string)
      PROVE  NotLost(cut, string, i + 1, j + 1, s, u)
  <2>1. NotLost(cut, string, i, j, s, u)
    BY <1>4 DEF Complete
  <2>2. i + 1 \in 1..Len(mask) /\ mask[i + 1] # "*" /\ (i + 1) - 1 = i
    BY <1>1, <1>4 DEF FitsAt
  <2>3. cut[i + 1] = cut[i] + 1 /\ cut[i] \in 0..Len(string)
    BY <1>4, <2>2, CutStep
  <2>4. /\ cut[i] >= j /\ cut[s] >= u
        /\ i - s = j - u /\ \A n \in s..i : cut[n] = cut[s] + (n - s)
    BY <2>1 DEF NotLost
  <2>5. \A n \in s..(i + 1) : cut[n] = cut[s] + (n - s)
    <3>1. cut[i] = cut[s] + (i - s)
      BY <1>1, <2>4
    <3>2. cut \in [0..Len(mask) -> 0..Len(string)]
      BY <1>4 DEF WholeCut
    <3>3. cut[s] \in 0..Len(string)
      BY <1>1, <3>2
    <3>4. cut[i + 1] = cut[s] + (i + 1 - s)
      BY <1>1, <2>3, <3>1, <3>3
    <3>5. \A n \in s..(i + 1) : n # i + 1 => n \in s..i
      BY <1>1
    <3> SUFFICES ASSUME NEW n \in s..(i + 1) PROVE cut[n] = cut[s] + (n - s)
      OBVIOUS
    <3>6. CASE n = i + 1
      BY <1>1, <3>4, <3>6
    <3>7. CASE n # i + 1
      BY <3>5, <3>7, <2>4
    <3> QED BY <3>6, <3>7
  <2> QED BY <1>1, <2>3, <2>4, <2>5 DEF NotLost
<1> QED BY <1>3, <1>4 DEF Complete

LEMMA TurnMeetsStar ==
  ASSUME NEW A, NEW B, NEW mask \in Seq(A), NEW string \in Seq(B), NEW i, NEW j, NEW s, NEW u,
         Sound(mask, string, i, j, s, u), StarAt(mask, i)
  PROVE  /\ Sound(mask, string, i + 1, j, i + 1, j)
         /\ Complete(mask, string, i, j, s, u) => Complete(mask, string, i + 1, j, i + 1, j)
<1>1. /\ i \in 0..Len(mask) /\ j \in 0..Len(string) /\ i < Len(mask) /\ mask[i + 1] = "*"
      /\ i + 1 \in 1..Len(mask) /\ Masks!StandsFor(mask, string, i, j) /\ i + 1 # 0
  BY DEF Sound, StarAt
<1>2. Masks!StandsFor(mask, string, i + 1, j)
  <2>1. IF mask[i + 1] = "*" THEN j <= j ELSE j = j + 1 /\ mask[i + 1] \in {"?", string[j]}
    BY <1>1
  <2> QED BY <1>1, <2>1, OneMore
<1>3. Sound(mask, string, i + 1, j, i + 1, j)
  BY <1>1, <1>2 DEF Sound
<1>4. ASSUME Complete(mask, string, i, j, s, u), NEW cut, WholeCut(cut, mask, string)
      PROVE  NotLost(cut, string, i + 1, j, i + 1, j)
  <2>1. cut[i] >= j
    BY <1>4 DEF Complete, NotLost
  <2>2. (i + 1) - 1 = i
    BY <1>1
  <2>3. cut[i] <= cut[i + 1] /\ cut[i] \in Nat /\ cut[i + 1] \in Nat
    BY <1>1, <1>4, <2>2, CutStep
  <2> QED BY <1>1, <2>1, <2>3 DEF NotLost
<1> QED BY <1>3, <1>4 DEF Complete

LEMMA TurnSkipsStar ==
  ASSUME NEW A, NEW B, NEW mask \in Seq(A), NEW string \in Seq(B), NEW i, NEW j, NEW s, NEW u,
         Sound(mask, string, i, j, s, u), StarAt(mask, i), ~(j < Len(string))
  PROVE  /\ Sound(mask, string, i + 1, j, s, u)
         /\ Complete(mask, string, i, j, s, u) => Complete(mask, string, i + 1, j, s, u)
<1>1. /\ i \in 0..Len(mask) /\ j \in 0..Len(string) /\ i < Len(mask) /\ mask[i + 1] = "*"
      /\ i + 1 \in 1..Len(mask) /\ s \in 0..(i + 1) /\ u \in 0..j
  BY DEF Sound, StarAt
<1>2. Masks!StandsFor(mask, string, i + 1, j)
  BY TurnMeetsStar DEF Sound
<1>3. Sound(mask, string, i + 1, j, s, u)
  BY <1>1, <1>2 DEF Sound
<1>4. ASSUME Complete(mask, string, i, j, s, u), NEW cut, WholeCut(cut, mask, string)
      PROVE  NotLost(cut, string, i + 1, j, s, u)
  <2>1. cut[i] >= j /\ cut[s] >= u
    BY <1>4 DEF Complete, NotLost
  <2>2. (i + 1) - 1 = i
    BY <1>1
  <2>3. cut[i] <= cut[i + 1] /\ cut[i] \in Nat /\ cut[i + 1] \in Nat
    BY <1>1, <1>4, <2>2, CutStep
  <2> QED BY <1>1, <2>1, <2>3 DEF NotLost
<1> QED BY <1>3, <1>4 DEF Complete

\* Where a turn neither consumes nor meets a star, no cut goes on from u.
LEMMA StuckCutsGoOnLater ==
  ASSUME NEW A, NEW B, NEW mask \in Seq(A), NEW string \in Seq(B), NEW i, NEW j, NEW s, NEW u,
         Sound(mask, string, i, j, s, u), Complete(mask, string, i, j, s, u),
         j < Len(string), ~FitsAt(mask, string, i, j), ~StarAt(mask, i),
         NEW cut, WholeCut(cut, mask, string)
  PROVE  cut[s] \in Nat /\ cut[s] > u
<1>1. i \in 0..Len(mask) /\ j \in 0..Len(string) /\ s \in 0..i /\ u \in 0..j
  BY DEF Sound
<1>2. /\ cut[s] >= u /\ i - s = j - u /\ cut[i] = cut[s] + (i - s)
  BY <1>1 DEF Complete, NotLost
<1>3. cut[s] \in 0..Len(string)
  BY <1>1 DEF WholeCut
<1>4. ASSUME cut[s] = u PROVE FALSE
  <2>1. cut[i] = j
    BY <1>1, <1>2, <1>4
  <2>2. CASE i = Len(mask)
    BY <2>1, <2>2 DEF WholeCut, Masks!Cuts
  <2>3. CASE i # Len(mask)
    <3>1. i + 1 \in 1..Len(mask) /\ (i + 1) - 1 = i /\ i < Len(mask)
      BY <1>1, <2>3
    <3>2. mask[i + 1] # "*"
      BY <3>1 DEF StarAt
    <3>3. cut[i + 1] = j + 1 /\ mask[i + 1] \in {"?", string[cut[i + 1]]}
      BY <2>1, <3>1, <3>2, CutStep
    <3> QED BY <3>1, <3>3 DEF FitsAt
  <2> QED BY <2>2, <2>3
<1> QED BY <1>1, <1>2, <1>3, <1>4

LEMMA TurnTriesAgain ==
  ASSUME NEW A, NEW B, NEW mask \in Seq(A), NEW string \in Seq(B), NEW i, NEW j, NEW s, NEW u,
         Sound(mask, string, i, j, s, u), j < Len(string), s # 0,
         ~FitsAt(mask, string, i, j), ~StarAt(mask, i)
  PROVE  /\ Sound(mask, string, s, u + 1, s, u + 1)
         /\ Complete(mask, string, i, j, s, u) => Complete(mask, string, s, u + 1, s, u + 1)
<1>1. /\ i \in 0..Len(mask) /\ j \in 0..Len(string) /\ s \in 1..Len(mask) /\ s \in 0..s /\ s \in 0..Len(mask)
      /\ u \in 0..Len(string) /\ u + 1 \in 0..Len(string) /\ u <= u + 1 /\ u + 1 \in 0..(u + 1)
      /\ mask[s] = "*" /\ Masks!StandsFor(mask, string, s, u)
  BY DEF Sound
<1>2. Masks!StandsFor(mask, string, s, u + 1)
  BY <1>1, StarTakesMore
<1>3. Sound(mask, string, s, u + 1, s, u + 1)
  BY <1>1, <1>2 DEF Sound
<1>4. ASSUME Complete(mask, string, i, j, s, u), NEW cut, WholeCut(cut, mask, string)
      PROVE  NotLost(cut, string, s, u + 1, s, u + 1)
  <2>1. cut[s] \in Nat /\ cut[s] > u
    BY <1>4, StuckCutsGoOnLater
  <2>2. \A n \in s..s : n = s
    BY <1>1
  <2> QED BY <1>1, <2>1, <2>2 DEF NotLost
<1> QED BY <1>3, <1>4 DEF Complete

LEMMA TurnGivesUp ==
  ASSUME NEW A, NEW B, NEW mask \in Seq(A), NEW string \in Seq(B), NEW i, NEW j, NEW s, NEW u,
         Sound(mask, string, i, j, s, u), Complete(mask, string, i, j, s, u),
         ~StarAt(mask, i),
         IF j < Len(string) THEN s = 0 /\ ~FitsAt(mask, string, i, j) ELSE i # Len(mask)
  PROVE  ~Masks!Glob(mask, string)
<1> SUFFICES ASSUME NEW cut, WholeCut(cut, mask, string) PROVE FALSE
  BY DEF Masks!Glob, Masks!StandsFor, WholeCut
<1>1. i \in 0..Len(mask) /\ j \in 0..Len(string) /\ (s = 0 => u = 0)
  BY DEF Sound
<1>2. CASE j < Len(string)
  <2>1. cut[s] > u
    BY <1>2, StuckCutsGoOnLater
  <2>2. cut[0] = 0
    BY DEF WholeCut, Masks!Cuts
  <2> QED BY <1>1, <1>2, <2>1, <2>2
<1>3. CASE ~(j < Len(string))
  <2>1. cut[i] >= j
    BY DEF Complete, NotLost
  <2>2. i + 1 \in 1..Len(mask) /\ (i + 1) - 1 = i /\ i < Len(mask) /\ j = Len(string)
    BY <1>1, <1>3
  <2>3. mask[i + 1] # "*"
    BY <2>2 DEF StarAt
  <2>4. cut[i + 1] = cut[i] + 1 /\ cut[i] \in 0..Len(string) /\ cut[i + 1] \in 0..Len(string)
    BY <2>2, <2>3, CutStep
  <2> QED BY <2>1, <2>2, <2>4
<1> QED BY <1>2, <1>3

LEMMA TurnMatches ==
  ASSUME NEW A, NEW B, NEW mask \in Seq(A), NEW string \in Seq(B), NEW i, NEW j, NEW s, NEW u,
         Sound(mask, string, i, j, s, u), ~(j < Len(string)), i = Len(mask)
  PROVE  Masks!Glob(mask, string)
<1>1. j = Len(string)
  BY DEF Sound
<1> QED BY <1>1 DEF Sound, Masks!Glob
-----------------------------------------------------------------------------

\* The invariant of the masks: the turn is sound and, in a path without a star,
\* complete, the masks before this one do not match, and neither do the
\* excludes once the includes are tried.
TurnIs(now) ==
  /\ Sound(Masks!Mask, text, inMask, inText, star, starText)
  /\ now => Complete(Masks!Mask, text, inMask, inText, star, starText)

NoneMatches(masksOf, string, n) == \A i \in 1..n : ~Masks!Glob(masksOf[i], string)

MaskTypes ==
  /\ masks.excludes \in Seq(Seq(MaskChars)) /\ masks.includes \in Seq(Seq(MaskChars))
  /\ text \in Seq(PathChars)
  /\ list \in {"excludes", "includes"} /\ tried \in Nat \ {0}
  /\ tried <= Len(masks[list]) + 1
  /\ decision \in {"none", "included", "excluded"}

MaskInv ==
  /\ MaskTypes
  /\ Masks!Trying => TurnIs(Masks!Plain)
  /\ decision = "none" /\ ~Masks!Trying => inMask = 0 /\ inText = 0 /\ star = 0 /\ starText = 0
  /\ Masks!Plain /\ decision = "none" =>
       /\ NoneMatches(masks[list], text, tried - 1)
       /\ list = "includes" => NoneMatches(masks.excludes, text, Len(masks.excludes))
  /\ Masks!DecidedByMasks

LEMMA BoundedSequences ==
  ASSUME NEW A, NEW n
  PROVE  Masks!SeqOf(A, n) \subseteq Seq(A)
BY DEF Masks!SeqOf

LEMMA ListIs ==
  ASSUME MaskTypes
  PROVE  /\ masks[list] \in Seq(Seq(MaskChars)) /\ Len(masks[list]) \in Nat
         /\ masks[list] = IF list = "excludes" THEN masks.excludes ELSE masks.includes
<1>1. CASE list = "excludes"
  <2>1. masks[list] = masks.excludes
    BY <1>1
  <2> QED BY <1>1, <2>1 DEF MaskTypes
<1>2. CASE list = "includes"
  <2>1. masks[list] = masks.includes
    BY <1>2
  <2> QED BY <1>2, <2>1 DEF MaskTypes
<1> QED BY <1>1, <1>2 DEF MaskTypes

LEMMA MaskIs ==
  ASSUME MaskTypes, Masks!Trying
  PROVE  Masks!Mask \in Seq(MaskChars) /\ text \in Seq(PathChars) /\ Len(text) \in Nat /\ Len(Masks!Mask) \in Nat
<1>1. tried \in 1..Len(masks[list])
  BY ListIs DEF MaskTypes, Masks!Trying
<1>2. masks[list][tried] \in Seq(MaskChars)
  BY <1>1, ListIs
<1>3. text \in Seq(PathChars)
  BY DEF MaskTypes
<1> QED BY <1>2, <1>3 DEF Masks!Mask

LEMMA MasksStart ==
  ASSUME masks.excludes \in Seq(Seq(MaskChars)), masks.includes \in Seq(Seq(MaskChars)),
         text \in Seq(PathChars), list = "excludes", tried = 1, inMask = 0, inText = 0, star = 0,
         starText = 0, decision = "none"
  PROVE  MaskInv
<1>1. MaskTypes
  <2>1. masks[list] = masks.excludes
    OBVIOUS
  <2>2. Len(masks.excludes) \in Nat
    OBVIOUS
  <2> QED BY <2>1, <2>2 DEF MaskTypes
<1>2. Masks!Trying => TurnIs(Masks!Plain)
  BY <1>1, MaskIs, TurnStarts DEF TurnIs
<1>3. \A i \in 1..(tried - 1) : FALSE
  OBVIOUS
<1> QED BY <1>1, <1>2, <1>3 DEF MaskInv, NoneMatches, Masks!DecidedByMasks

LEMMA MasksInit ==
  ASSUME Masks!Init PROVE MaskInv
<1>1. masks \in Masks!MaskSets /\ text \in Masks!SeqOf(PathChars, MaxPath)
  BY DEF Masks!Init
<1>2. Masks!MaskLists \subseteq Seq(Seq(MaskChars))
  <2> SUFFICES ASSUME NEW n \in 0..MaxMasks, NEW f \in [1..n -> Masks!SeqOf(MaskChars, MaxMask)]
               PROVE  f \in Seq(Seq(MaskChars))
    BY DEF Masks!MaskLists
  <2>1. f \in [1..n -> Seq(MaskChars)]
    BY BoundedSequences
  <2> QED BY <2>1
<1>3. text \in Seq(PathChars)
  BY <1>1, BoundedSequences
<1>4. masks.excludes \in Seq(Seq(MaskChars)) /\ masks.includes \in Seq(Seq(MaskChars))
  BY <1>1, <1>2 DEF Masks!MaskSets
<1> QED BY <1>3, <1>4, MasksStart DEF Masks!Init, Masks!NoStar

LEMMA NoMasksInit ==
  ASSUME NoMask PROVE MaskInv
<1>1. <<>> \in Seq(Seq(MaskChars)) /\ <<>> \in Seq(PathChars)
  OBVIOUS
<1>2. masks.excludes = <<>> /\ masks.includes = <<>> /\ text = <<>>
  BY DEF NoMask
<1> QED BY <1>1, <1>2, MasksStart DEF NoMask, Masks!Init, Masks!NoStar
\* A turn of the loops of wildcard_match: the mask, the text and what is known
\* of the other masks stay.
LEMMA TurnKeepsTheRest ==
  ASSUME MaskInv, Masks!Trying, UNCHANGED <<masks, text, list, tried, decision>>, TurnIs(Masks!Plain)'
  PROVE  MaskInv'
<1>1. /\ MaskTypes' <=> MaskTypes
      /\ Masks!Trying' <=> Masks!Trying
      /\ Masks!Plain' <=> Masks!Plain
      /\ Masks!DecidedByMasks' <=> Masks!DecidedByMasks
      /\ decision' = decision
      /\ NoneMatches(masks[list], text, tried - 1)' <=> NoneMatches(masks[list], text, tried - 1)
      /\ NoneMatches(masks.excludes, text, Len(masks.excludes))' <=>
           NoneMatches(masks.excludes, text, Len(masks.excludes))
      /\ list' = list
  BY DEF MaskTypes, Masks!Trying, Masks!Plain, Masks!DecidedByMasks, Masks!DecidedAsMeant, Masks!SomeMatches, NoneMatches
<1> QED BY <1>1 DEF MaskInv

\* The turns, with the mask and the text as constants.
LEMMA FitsIs ==
  /\ Masks!PathLeft <=> inText < Len(text)
  /\ Masks!Fits <=> FitsAt(Masks!Mask, text, inMask, inText)
  /\ Masks!AtStar <=> StarAt(Masks!Mask, inMask)
BY DEF Masks!PathLeft, Masks!Fits, Masks!AtStar, Masks!MaskLeft, FitsAt, StarAt

LEMMA TurnsKeep ==
  ASSUME MaskInv, Masks!Consume \/ Masks!MeetStar \/ Masks!TryAgain \/ Masks!SkipStar
  PROVE  MaskInv'
<1>1. Masks!Trying /\ UNCHANGED <<masks, text, list, tried, decision>>
  BY DEF Masks!Consume, Masks!MeetStar, Masks!TryAgain, Masks!SkipStar
<1>2. /\ Masks!Mask \in Seq(MaskChars) /\ text \in Seq(PathChars)
      /\ Sound(Masks!Mask, text, inMask, inText, star, starText)
      /\ Masks!Plain => Complete(Masks!Mask, text, inMask, inText, star, starText)
  BY <1>1, MaskIs DEF MaskInv, TurnIs
<1>3. Masks!Mask' = Masks!Mask /\ text' = text /\ (Masks!Plain' <=> Masks!Plain)
  BY <1>1 DEF Masks!Mask, Masks!Plain
<1>4. PICK m, x, i, j, s, u :
        /\ m \in Seq(MaskChars) /\ x \in Seq(PathChars)
        /\ m = Masks!Mask /\ x = text /\ i = inMask /\ j = inText /\ s = star /\ u = starText
  BY <1>2
<1>5. m \in Seq(MaskChars) /\ x \in Seq(PathChars)
  BY <1>4
<1>6. Sound(m, x, i, j, s, u) /\ (Masks!Plain => Complete(m, x, i, j, s, u))
  BY <1>2, <1>4
<1>7. /\ Sound(m, x, inMask', inText', star', starText')
      /\ Masks!Plain => Complete(m, x, inMask', inText', star', starText')
  <2>1. CASE Masks!Consume
    <3>1. /\ j < Len(x) /\ FitsAt(m, x, i, j)
          /\ inMask' = i + 1 /\ inText' = j + 1 /\ star' = s /\ starText' = u
      BY <2>1, <1>4, FitsIs DEF Masks!Consume
    <3>2. Masks!Plain => x[j + 1] # "*"
      <4>1. j + 1 \in DOMAIN x
        BY <3>1, <1>6 DEF Sound
      <4> QED BY <4>1, <1>4 DEF Masks!Plain
    <3> QED BY <3>1, <3>2, <1>5, <1>6, TurnConsumes
  <2>2. CASE Masks!MeetStar
    <3>1. StarAt(m, i) /\ inMask' = i + 1 /\ inText' = j /\ star' = i + 1 /\ starText' = j
      BY <2>2, <1>4, FitsIs DEF Masks!MeetStar
    <3> QED BY <3>1, <1>5, <1>6, TurnMeetsStar
  <2>3. CASE Masks!TryAgain
    <3>1. /\ j < Len(x) /\ ~FitsAt(m, x, i, j) /\ ~StarAt(m, i) /\ s # 0
          /\ inMask' = s /\ inText' = u + 1 /\ star' = s /\ starText' = u + 1
      BY <2>3, <1>4, FitsIs DEF Masks!TryAgain, Masks!NextStart, Masks!NoStar
    <3> QED BY <3>1, <1>5, <1>6, TurnTriesAgain
  <2>4. CASE Masks!SkipStar
    <3>1. /\ ~(j < Len(x)) /\ StarAt(m, i)
          /\ inMask' = i + 1 /\ inText' = j /\ star' = s /\ starText' = u
      BY <2>4, <1>4, FitsIs DEF Masks!SkipStar
    <3> QED BY <3>1, <1>5, <1>6, TurnSkipsStar
  <2> QED BY <2>1, <2>2, <2>3, <2>4
<1>8. TurnIs(Masks!Plain)'
  BY <1>3, <1>4, <1>7 DEF TurnIs
<1> QED BY <1>1, <1>8, TurnKeepsTheRest

\* A mask that is left for the next one does not match, one that is not does.
LEMMA ReturnsRightly ==
  ASSUME MaskInv, Masks!Return
  PROVE  /\ Masks!Matches => Masks!Glob(Masks!Mask, text)
         /\ ~Masks!Matches /\ Masks!Plain => ~Masks!Glob(Masks!Mask, text)
<1>1. Masks!Trying /\ Masks!Returns
  BY DEF Masks!Return
<1>2. /\ Masks!Mask \in Seq(MaskChars) /\ text \in Seq(PathChars)
      /\ Sound(Masks!Mask, text, inMask, inText, star, starText)
      /\ Masks!Plain => Complete(Masks!Mask, text, inMask, inText, star, starText)
  BY <1>1, MaskIs DEF MaskInv, TurnIs
<1>3. Masks!Matches => Masks!Glob(Masks!Mask, text)
  BY <1>2, FitsIs, TurnMatches DEF Masks!Matches
<1>4. ASSUME ~Masks!Matches, Masks!Plain PROVE ~Masks!Glob(Masks!Mask, text)
  <2>1. Complete(Masks!Mask, text, inMask, inText, star, starText)
    BY <1>2, <1>4
  <2>2. /\ ~StarAt(Masks!Mask, inMask)
        /\ IF inText < Len(text) THEN star = 0 /\ ~FitsAt(Masks!Mask, text, inMask, inText)
                                 ELSE inMask # Len(Masks!Mask)
    BY <1>1, <1>4, FitsIs DEF Masks!Returns, Masks!GivesUp, Masks!Matches, Masks!NoStar
  <2> QED BY <1>2, <2>1, <2>2, TurnGivesUp
<1> QED BY <1>3, <1>4

LEMMA ReturnKeeps ==
  ASSUME MaskInv, Masks!Return
  PROVE  MaskInv'
<1>1. /\ Masks!Trying /\ Masks!Returns /\ MaskTypes /\ UNCHANGED <<masks, text, list>>
      /\ inMask' = 0 /\ inText' = 0 /\ star' = 0 /\ starText' = 0
      /\ decision = "none" /\ tried <= Len(masks[list])
      /\ (Masks!Plain' <=> Masks!Plain)
  BY DEF Masks!Return, MaskInv, Masks!NoStar, Masks!Trying, Masks!Plain
<1>2. tried \in 1..Len(masks[list]) /\ Len(masks[list]) \in Nat
  BY <1>1, ListIs DEF MaskTypes
<1>3. Masks!Mask = masks[list][tried]
  BY DEF Masks!Mask
<1>4. CASE Masks!Matches
  <2>1. /\ decision' = IF list = "excludes" THEN "excluded" ELSE "included"
        /\ tried' = tried
    BY <1>4 DEF Masks!Return
  <2>2. MaskTypes'
    BY <1>1, <2>1 DEF MaskTypes
  <2>3. ~Masks!Trying' /\ decision' # "none"
    BY <2>1 DEF Masks!Trying
  <2>4. Masks!Glob(masks[list][tried], text)
    BY <1>3, <1>4, ReturnsRightly
  <2>5. Masks!DecidedByMasks'
    <3> SUFFICES ASSUME Masks!Plain PROVE Masks!DecidedAsMeant'
      BY <1>1 DEF Masks!DecidedByMasks
    <3>1. Masks!SomeMatches("excludes")' <=> Masks!SomeMatches("excludes")
      BY <1>1 DEF Masks!SomeMatches
    <3>2. Masks!SomeMatches("includes")' <=> Masks!SomeMatches("includes")
      BY <1>1 DEF Masks!SomeMatches
    <3>3. CASE list = "excludes"
      <4>1. Masks!SomeMatches("excludes")
        BY <2>4, <3>3, <1>2 DEF Masks!SomeMatches
      <4> QED BY <4>1, <3>1, <3>3, <2>1 DEF Masks!DecidedAsMeant
    <3>4. CASE list = "includes"
      <4>1. Masks!SomeMatches("includes")
        BY <2>4, <3>4, <1>2 DEF Masks!SomeMatches
      <4>2. NoneMatches(masks.excludes, text, Len(masks.excludes))
        BY <1>1, <3>4 DEF MaskInv
      <4>3. ~Masks!SomeMatches("excludes")
        <5>1. DOMAIN masks.excludes = 1..Len(masks.excludes)
          BY <1>1 DEF MaskTypes
        <5> QED BY <4>2, <5>1 DEF NoneMatches, Masks!SomeMatches
      <4> QED BY <4>1, <4>3, <3>1, <3>2, <3>4, <2>1 DEF Masks!DecidedAsMeant
    <3> QED BY <3>3, <3>4, <1>1 DEF MaskTypes
  <2> QED BY <2>2, <2>3, <2>5, <1>1 DEF MaskInv
<1>5. CASE ~Masks!Matches
  <2>1. tried' = tried + 1 /\ decision' = "none"
    BY <1>1, <1>5 DEF Masks!Return
  <2>2. MaskTypes'
    BY <1>1, <1>2, <2>1 DEF MaskTypes
  <2>3. Masks!Trying' => TurnIs(Masks!Plain)'
    <3> SUFFICES ASSUME Masks!Trying' PROVE TurnIs(Masks!Plain)'
      OBVIOUS
    <3>1. Masks!Mask' \in Seq(MaskChars) /\ text' \in Seq(PathChars)
      <4>1. tried' \in 1..Len(masks'[list']) /\ masks'[list'] \in Seq(Seq(MaskChars))
        BY <1>1, <1>2, <2>1, ListIs DEF Masks!Trying
      <4>2. masks'[list'][tried'] \in Seq(MaskChars)
        BY <4>1
      <4> QED BY <4>2, <2>2 DEF Masks!Mask, MaskTypes
    <3>2. Sound(Masks!Mask', text', 0, 0, 0, 0) /\ Complete(Masks!Mask', text', 0, 0, 0, 0)
      BY <3>1, TurnStarts
    <3> QED BY <3>2, <1>1 DEF TurnIs
  <2>4. ASSUME Masks!Plain PROVE NoneMatches(masks[list], text, tried)
    <3>1. NoneMatches(masks[list], text, tried - 1)
      BY <1>1, <2>4 DEF MaskInv
    <3>2. ~Masks!Glob(masks[list][tried], text)
      BY <1>3, <1>5, <2>4, ReturnsRightly
    <3>3. \A i \in 1..tried : i = tried \/ i \in 1..(tried - 1)
      BY <1>2
    <3> QED BY <3>1, <3>2, <3>3 DEF NoneMatches
  <2>5. tried' - 1 = tried
    BY <1>2, <2>1
  <2>7. ASSUME Masks!Plain'
        PROVE  /\ NoneMatches(masks[list], text, tried - 1)'
               /\ list' = "includes" => NoneMatches(masks.excludes, text, Len(masks.excludes))'
    <3>1. NoneMatches(masks[list], text, tried - 1)' <=> NoneMatches(masks[list], text, tried)
      BY <1>1, <2>5 DEF NoneMatches
    <3>2. NoneMatches(masks.excludes, text, Len(masks.excludes))' <=>
            NoneMatches(masks.excludes, text, Len(masks.excludes))
      BY <1>1 DEF NoneMatches
    <3>3. list = "includes" => NoneMatches(masks.excludes, text, Len(masks.excludes))
      BY <1>1, <2>7 DEF MaskInv
    <3> QED BY <3>1, <3>2, <3>3, <2>4, <2>7, <1>1
  <2> QED BY <1>1, <2>1, <2>2, <2>3, <2>7 DEF MaskInv, Masks!DecidedByMasks
<1> QED BY <1>4, <1>5

LEMMA NextListKeeps ==
  ASSUME MaskInv, Masks!NextList
  PROVE  MaskInv'
<1>1. /\ ~Masks!Trying /\ MaskTypes /\ decision = "none"
      /\ UNCHANGED <<masks, text, inMask, inText, star, starText>>
      /\ inMask = 0 /\ inText = 0 /\ star = 0 /\ starText = 0
      /\ (Masks!Plain' <=> Masks!Plain)
  BY DEF Masks!NextList, MaskInv, Masks!Plain
<1>2. tried = Len(masks[list]) + 1 /\ Len(masks[list]) \in Nat
  BY <1>1, ListIs DEF MaskTypes, Masks!Trying
<1>3. Masks!Plain => NoneMatches(masks[list], text, Len(masks[list]))
  <2>1. tried - 1 = Len(masks[list])
    BY <1>2
  <2> QED BY <2>1, <1>1 DEF MaskInv
<1>4. CASE list = "excludes"
  <2>1. list' = "includes" /\ tried' = 1 /\ decision' = "none"
    BY <1>1, <1>4 DEF Masks!NextList
  <2>2. MaskTypes' /\ masks'[list'] = masks.includes
    <3>1. masks'[list'] = masks.includes
      BY <1>1, <2>1
    <3>2. masks.includes \in Seq(Seq(MaskChars)) /\ Len(masks.includes) \in Nat
      BY <1>1 DEF MaskTypes
    <3> QED BY <1>1, <2>1, <3>1, <3>2 DEF MaskTypes
  <2>3. Masks!Trying' => TurnIs(Masks!Plain)'
    <3> SUFFICES ASSUME Masks!Trying' PROVE TurnIs(Masks!Plain)'
      OBVIOUS
    <3>1. Masks!Mask' \in Seq(MaskChars) /\ text' \in Seq(PathChars)
      <4>1. tried' \in 1..Len(masks'[list']) /\ masks'[list'] \in Seq(Seq(MaskChars))
        BY <1>1, <2>1, <2>2 DEF Masks!Trying, MaskTypes
      <4>2. masks'[list'][tried'] \in Seq(MaskChars)
        BY <4>1
      <4> QED BY <4>2, <2>2 DEF Masks!Mask, MaskTypes
    <3>2. Sound(Masks!Mask', text', 0, 0, 0, 0) /\ Complete(Masks!Mask', text', 0, 0, 0, 0)
      BY <3>1, TurnStarts
    <3> QED BY <3>2, <1>1 DEF TurnIs
  <2>4. \A i \in 1..(tried' - 1) : FALSE
    BY <2>1
  <2>5. Masks!Plain => NoneMatches(masks.excludes, text, Len(masks.excludes))
    BY <1>3, <1>4
  <2>6. NoneMatches(masks.excludes, text, Len(masks.excludes))' <=>
            NoneMatches(masks.excludes, text, Len(masks.excludes))
    BY <1>1 DEF NoneMatches
  <2>7. NoneMatches(masks[list], text, tried - 1)'
    BY <2>4 DEF NoneMatches
  <2> QED BY <1>1, <2>1, <2>2, <2>3, <2>5, <2>6, <2>7 DEF MaskInv, Masks!DecidedByMasks
<1>5. CASE list = "includes"
  <2>1. decision' = Masks!Otherwise /\ UNCHANGED <<list, tried>>
    BY <1>1, <1>5 DEF Masks!NextList
  <2>2. decision' = IF masks.includes = <<>> THEN "included" ELSE "excluded"
    BY <2>1 DEF Masks!Otherwise
  <2>3. MaskTypes' /\ decision' # "none"
    BY <1>1, <2>1, <2>2 DEF MaskTypes
  <2>4. ASSUME Masks!Plain PROVE Masks!DecidedAsMeant'
    <3>1. ~Masks!SomeMatches("includes")
      <4>1. DOMAIN masks.includes = 1..Len(masks.includes)
        BY <1>1 DEF MaskTypes
      <4> QED BY <4>1, <1>3, <1>5, <2>4 DEF NoneMatches, Masks!SomeMatches
    <3>2. ~Masks!SomeMatches("excludes")
      <4>1. DOMAIN masks.excludes = 1..Len(masks.excludes)
        BY <1>1 DEF MaskTypes
      <4>2. NoneMatches(masks.excludes, text, Len(masks.excludes))
        BY <1>1, <1>5, <2>4 DEF MaskInv
      <4> QED BY <4>1, <4>2 DEF NoneMatches, Masks!SomeMatches
    <3>3. Masks!SomeMatches("includes")' <=> Masks!SomeMatches("includes")
      BY <1>1 DEF Masks!SomeMatches
    <3>4. Masks!SomeMatches("excludes")' <=> Masks!SomeMatches("excludes")
      BY <1>1 DEF Masks!SomeMatches
    <3> QED BY <1>1, <3>1, <3>2, <3>3, <3>4, <2>2 DEF Masks!DecidedAsMeant
  <2> QED BY <1>1, <2>3, <2>4 DEF MaskInv, Masks!DecidedByMasks, Masks!Trying
<1> QED BY <1>4, <1>5, <1>1 DEF MaskTypes

LEMMA MaskStep ==
  ASSUME MaskInv, Masks!Next \/ UNCHANGED maskVars
  PROVE  /\ MaskInv'
         /\ Masks!Plain /\ Masks!Trying /\ tried' # tried => ~Masks!Glob(Masks!Mask, text)
<1>1. CASE Masks!Consume \/ Masks!MeetStar \/ Masks!TryAgain \/ Masks!SkipStar
  <2>1. tried' = tried
    BY <1>1 DEF Masks!Consume, Masks!MeetStar, Masks!TryAgain, Masks!SkipStar
  <2> QED BY <1>1, <2>1, TurnsKeep
<1>2. CASE Masks!Return
  <2>1. tried' # tried => ~Masks!Matches
    BY <1>2 DEF Masks!Return
  <2> QED BY <1>2, <2>1, ReturnKeeps, ReturnsRightly
<1>3. CASE Masks!NextList
  BY <1>3, NextListKeeps DEF Masks!NextList
<1>4. CASE UNCHANGED maskVars
  <2>1. /\ UNCHANGED <<masks, text, list, tried, inMask, inText, star, starText, decision>>
    BY <1>4 DEF maskVars
  <2>2. TurnIs(Masks!Plain)' <=> TurnIs(Masks!Plain)
    BY <2>1 DEF TurnIs, Masks!Plain, Masks!Mask
  <2>3. CASE Masks!Trying
    BY <2>1, <2>2, <2>3, TurnKeepsTheRest DEF MaskInv
  <2>4. CASE ~Masks!Trying
    <3>1. /\ MaskTypes' <=> MaskTypes
          /\ Masks!Trying' <=> Masks!Trying
          /\ Masks!Plain' <=> Masks!Plain
          /\ Masks!DecidedByMasks' <=> Masks!DecidedByMasks
          /\ decision' = decision
          /\ NoneMatches(masks[list], text, tried - 1)' <=> NoneMatches(masks[list], text, tried - 1)
          /\ NoneMatches(masks.excludes, text, Len(masks.excludes))' <=>
               NoneMatches(masks.excludes, text, Len(masks.excludes))
          /\ list' = list
      BY <2>1 DEF MaskTypes, Masks!Trying, Masks!Plain, Masks!DecidedByMasks, Masks!DecidedAsMeant,
                  Masks!SomeMatches, NoneMatches
    <3> QED BY <2>1, <2>4, <3>1 DEF MaskInv
  <2> QED BY <2>1, <2>3, <2>4
<1> QED BY <1>1, <1>2, <1>3, <1>4 DEF Masks!Next

\* Masks decide as they mean, whatever the masks and the path: wildcard_match
\* keeps only beginnings that match, loses no match by trying only the last
\* star again, and MaskSet::decide takes its list in the right order.
THEOREM MasksAreMeant == LocalSpec => MasksDecide
<1>1. LocalInit => MaskInv
  BY MasksInit, NoMasksInit DEF LocalInit
<1>2. MaskInv /\ [Copying \/ Calling \/ Masking \/ OnPaths]_localVars =>
        MaskInv' /\ (Masks!Plain /\ Masks!Trying /\ tried' # tried => ~Masks!Glob(Masks!Mask, text))
  <2> SUFFICES ASSUME MaskInv, [Copying \/ Calling \/ Masking \/ OnPaths]_localVars
               PROVE  MaskInv' /\ (Masks!Plain /\ Masks!Trying /\ tried' # tried => ~Masks!Glob(Masks!Mask, text))
    OBVIOUS
  <2>1. Masks!Next \/ UNCHANGED maskVars
    BY DEF Copying, Calling, Masking, OnPaths, localVars
  <2> QED BY <2>1, MaskStep
<1>3. MaskInv => Masks!ConsumedMatches /\ Masks!DecidedByMasks
  BY DEF MaskInv, TurnIs, Sound, Masks!ConsumedMatches
<1> QED BY <1>1, <1>2, <1>3, PTL DEF LocalSpec, MasksDecide, Masks!LeftOnlyIfNoMatch

-----------------------------------------------------------------------------
(***************************************************************************)
(* Copies.                                                                 *)
(***************************************************************************)
JobStates == Copies!Done \cup {"queued", "paused", "running"}
CopyJobs == [id : Nat, request : Requests, state : JobStates]
CopySteps == {"idle", "stat_source", "stat_destination", "mkdir", "decide", "prompt", "copy", "fill", "resume"}

QueueInv ==
  /\ queue \in Seq(CopyJobs) /\ nextId \in Nat \ {0}
  /\ \A i, j \in DOMAIN queue : i < j => queue[i].id < queue[j].id
  /\ \A i \in DOMAIN queue : queue[i].id \in 1..nextId - 1

\* What the files are that a job was started on and the executor has read.
FilesAre(fs) == DOMAIN fs \subseteq CopyPaths /\ \A x \in DOMAIN fs : FileAssumption(fs[x])

DiskInv ==
  /\ FilesAre(files) /\ TopDir \in dirs
  /\ run = [id |-> run.id, source |-> run.source, destination |-> run.destination, held |-> run.held]
  /\ IsSequence(run.held) /\ IsSequence(run.destination.bytes) /\ run.destination.there \in BOOLEAN
  /\ copyStep # "idle" => FilesAre(filesBefore)
  /\ copyStep \in CopySteps /\ copyOthers \in Nat

Decided(job, was) ==
  Copies!DecideOverwrite(job.mode, Copies!At(was, job.source), Copies!At(was, job.destination))

\* Where the executor is with a job that nobody has interfered with: the files
\* are those of its start, until the destination is created, and all that was
\* read is what was there then.
Undisturbed(at, job, fs, was, source, destination, held) ==
  /\ at # "fill" => fs = was
  /\ at = "fill" =>
       /\ fs = Copies!With(was, job.destination, Copies!File(<<>>, Copies!Now))
       /\ Copies!At(was, job.source).there
       /\ held = Copies!At(fs, job.source).bytes
  /\ at # "stat_source" => job.direction = "local_copy" /\ source = Copies!At(was, job.source)
  /\ at \notin {"stat_source", "stat_destination"} => destination = Copies!At(was, job.destination)
  /\ at \in {"copy", "fill"} => Decided(job, was) \in {"copy", "prompt"}
  /\ at \in {"prompt", "resume"} => Decided(job, was) = at

CopyInv ==
  /\ QueueInv /\ DiskInv
  /\ Copies!RunningIsExecuted
  /\ copyStep # "idle" => \E i \in DOMAIN queue : queue[i].id = run.id
  /\ copyStep # "idle" /\ copyOthers = 0 =>
       Undisturbed(copyStep, Copies!Job, files, filesBefore, run.source, run.destination, run.held)

-----------------------------------------------------------------------------
(* The queue. *)

LEMMA WhereIs ==
  ASSUME QueueInv, NEW i \in DOMAIN queue
  PROVE  Copies!Where(queue[i].id) = i
<1>1. DOMAIN queue = 1..Len(queue) /\ Len(queue) \in Nat
  BY DEF QueueInv
<1>2. \A j \in DOMAIN queue : queue[j].id \in Nat
  BY DEF QueueInv
<1>3. \A j \in DOMAIN queue : queue[j].id = queue[i].id => j = i
  <2> SUFFICES ASSUME NEW j \in DOMAIN queue, queue[j].id = queue[i].id, j # i PROVE FALSE
    OBVIOUS
  <2>1. i < j \/ j < i
    BY <1>1
  <2> QED BY <2>1, <1>2 DEF QueueInv
<1> QED BY <1>3 DEF Copies!Where

LEMMA JobIs ==
  ASSUME QueueInv, NEW i \in DOMAIN queue, queue[i].id = run.id
  PROVE  Copies!Job = queue[i].request
BY WhereIs DEF Copies!Job

LEMMA JobAfter ==
  ASSUME QueueInv', NEW i \in DOMAIN queue', queue'[i].id = run'.id
  PROVE  Copies!Job' = queue'[i].request
<1>1. \A j \in DOMAIN queue' : queue'[j].id \in Int
  BY DEF QueueInv
<1>2. DOMAIN queue' = 1..Len(queue') /\ Len(queue') \in Nat
  BY DEF QueueInv
<1>3. \A j \in DOMAIN queue' : queue'[j].id = run'.id => j = i
  <2> SUFFICES ASSUME NEW j \in DOMAIN queue', queue'[j].id = run'.id, j # i PROVE FALSE
    OBVIOUS
  <2>1. i < j \/ j < i
    BY <1>2
  <2> QED BY <2>1, <1>1 DEF QueueInv
<1>4. Copies!Where(run.id)' = i
  BY <1>3 DEF Copies!Where
<1> QED BY <1>4 DEF Copies!Job

LEMMA SetStateKeeps ==
  ASSUME QueueInv, NEW i \in DOMAIN queue, NEW s \in JobStates, nextId' = nextId,
         queue' = [queue EXCEPT ![i].state = s]
  PROVE  /\ QueueInv' /\ DOMAIN queue' = DOMAIN queue
         /\ queue'[i].state = s
         /\ \A j \in DOMAIN queue : queue'[j].id = queue[j].id /\ queue'[j].request = queue[j].request
         /\ \A j \in DOMAIN queue : j # i => queue'[j] = queue[j]
<1>1. queue \in Seq(CopyJobs) /\ queue[i] \in CopyJobs /\ DOMAIN queue = 1..Len(queue) /\ Len(queue) \in Nat
  BY DEF QueueInv
<1>2. DOMAIN queue' = DOMAIN queue /\ \A j \in DOMAIN queue : j # i => queue'[j] = queue[j]
  BY <1>1
<1>3. queue'[i] = [queue[i] EXCEPT !.state = s]
  BY <1>1
<1>4. queue'[i] \in CopyJobs /\ queue'[i].state = s /\ queue'[i].id = queue[i].id /\ queue'[i].request = queue[i].request
  BY <1>1, <1>3 DEF CopyJobs
<1>5. queue' \in Seq(CopyJobs)
  <2>1. \A j \in DOMAIN queue : queue'[j] \in CopyJobs
    BY <1>1, <1>2, <1>4
  <2>2. queue' \in [1..Len(queue) -> CopyJobs]
    <3>1. queue' = [j \in 1..Len(queue) |-> queue'[j]]
      BY <1>1
    <3> QED BY <3>1, <2>1, <1>1
  <2> QED BY <2>2, <1>1
<1>6. \A j \in DOMAIN queue : queue'[j].id = queue[j].id /\ queue'[j].request = queue[j].request
  BY <1>2, <1>4
<1>7. QueueInv'
  BY <1>2, <1>5, <1>6 DEF QueueInv
<1> QED BY <1>2, <1>4, <1>6, <1>7

LEMMA EnqueueKeeps ==
  ASSUME CopyInv, NEW request \in Requests, Copies!Enqueue(request)
  PROVE  /\ CopyInv'
         /\ \A i \in DOMAIN queue : i \in DOMAIN queue' /\ queue'[i] = queue[i]
<1> DEFINE job == [id |-> nextId, request |-> request, state |-> "queued"]
<1>0. QueueInv /\ queue \in Seq(CopyJobs) /\ nextId \in Nat \ {0}
  BY DEF CopyInv, QueueInv
<1>1. job \in CopyJobs /\ job.id = nextId /\ job.state = "queued"
  BY <1>0 DEF CopyJobs, JobStates
<1>2. queue' = Append(queue, job) /\ nextId' = nextId + 1
  BY DEF Copies!Enqueue
<1>2a. UNCHANGED <<files, dirs, copyStep, run, copyOthers, filesBefore>>
  BY DEF Copies!Enqueue, Copies!Fs
<1> HIDE DEF job
<1>3. /\ queue' \in Seq(CopyJobs) /\ DOMAIN queue' = 1..(Len(queue) + 1) /\ DOMAIN queue = 1..Len(queue)
      /\ Len(queue) \in Nat
      /\ queue'[Len(queue) + 1] = job /\ \A i \in DOMAIN queue : queue'[i] = queue[i]
  BY <1>0, <1>1, <1>2
<1>4. \A i \in DOMAIN queue : i \in DOMAIN queue' /\ queue'[i] = queue[i]
  BY <1>3
<1>5. \A i \in DOMAIN queue' : i = Len(queue) + 1 \/ i \in DOMAIN queue
  BY <1>3
<1>6. \A i \in DOMAIN queue : queue[i].id \in 1..nextId - 1 /\ queue[i].id < nextId /\ queue[i].id \in Nat
  BY <1>0 DEF QueueInv
<1>7. QueueInv'
  <2>1. \A i \in DOMAIN queue' : queue'[i].id \in 1..nextId' - 1
    <3> SUFFICES ASSUME NEW i \in DOMAIN queue' PROVE queue'[i].id \in 1..nextId' - 1
      OBVIOUS
    <3>1. CASE i = Len(queue) + 1
      BY <3>1, <1>0, <1>1, <1>2, <1>3
    <3>2. CASE i \in DOMAIN queue
      BY <3>2, <1>0, <1>2, <1>3, <1>6
    <3> QED BY <3>1, <3>2, <1>5
  <2>2. ASSUME NEW i \in DOMAIN queue', NEW j \in DOMAIN queue', i < j
        PROVE  queue'[i].id < queue'[j].id
    <3>1. i \in DOMAIN queue
      BY <2>2, <1>3, <1>5
    <3>2. CASE j = Len(queue) + 1
      BY <3>1, <3>2, <1>1, <1>3, <1>6
    <3>3. CASE j \in DOMAIN queue
      BY <2>2, <3>1, <3>3, <1>0, <1>3 DEF QueueInv
    <3> QED BY <3>2, <3>3, <1>5
  <2>3. nextId' \in Nat \ {0}
    BY <1>0, <1>2
  <2> QED BY <2>1, <2>2, <2>3, <1>3 DEF QueueInv
<1>8. Copies!RunningIsExecuted'
  <2> SUFFICES ASSUME NEW i \in DOMAIN queue'
               PROVE  queue'[i].state = "running" <=> copyStep # "idle" /\ queue'[i].id = run.id
    BY <1>2a DEF Copies!RunningIsExecuted
  <2>1. CASE i \in DOMAIN queue
    BY <2>1, <1>3 DEF CopyInv, Copies!RunningIsExecuted
  <2>2. CASE i = Len(queue) + 1
    <3>1. queue'[i].state # "running" /\ queue'[i].id = nextId
      BY <2>2, <1>1, <1>3
    <3>2. ASSUME copyStep # "idle" PROVE run.id # nextId
      <4>1. PICK k \in DOMAIN queue : queue[k].id = run.id
        BY <3>2 DEF CopyInv
      <4> QED BY <4>1, <1>6, <1>0
    <3> QED BY <3>1, <3>2
  <2> QED BY <2>1, <2>2, <1>5
<1>9. copyStep # "idle" => Copies!Job' = Copies!Job /\ \E i \in DOMAIN queue' : queue'[i].id = run'.id
  <2> SUFFICES ASSUME copyStep # "idle"
               PROVE  Copies!Job' = Copies!Job /\ \E i \in DOMAIN queue' : queue'[i].id = run'.id
    OBVIOUS
  <2>1. PICK k \in DOMAIN queue : queue[k].id = run.id
    BY DEF CopyInv
  <2>3. k \in DOMAIN queue' /\ queue'[k].id = run'.id /\ queue'[k] = queue[k]
    BY <2>1, <1>2a, <1>4
  <2>4. Copies!Job' = queue'[k].request /\ Copies!Job = queue[k].request
    BY <2>1, <2>3, <1>0, <1>7, JobAfter, JobIs
  <2> QED BY <2>3, <2>4
<1>10. DiskInv'
  BY <1>2a DEF CopyInv, DiskInv
<1> QED BY <1>2a, <1>4, <1>7, <1>8, <1>9, <1>10 DEF CopyInv
\* What a step does not do: start a job before one that was queued earlier, or
\* complete one that does not keep its promise.
StartsInOrder ==
  \A i \in DOMAIN queue :
    i \in DOMAIN queue' /\ queue[i].state = "queued" /\ queue'[i].state = "running" =>
      \A j \in 1..i - 1 : queue[j].state # "queued"

Completes(i) == queue[i].state = "running" /\ queue'[i].state = "completed"

Promised(job, was, after) ==
  LET from == Copies!At(was, job.source).bytes
      old == Copies!At(was, job.destination)
      new == Copies!At(after, job.destination).bytes
  IN /\ job.direction = "local_copy"
     /\ Copies!At(after, job.source) = Copies!At(was, job.source)
     /\ ~old.there \/ job.mode = "always" => new = from
     /\ old.there /\ job.mode = "never" => new = old.bytes
     /\ old.there /\ job.mode = "ask" => new \in {from, old.bytes}
     /\ old.there /\ job.mode = "if_newer" =>
          new = IF Copies!At(was, job.source).modified > old.modified THEN from ELSE old.bytes
     /\ old.there /\ job.mode = "resume" /\ Copies!IsPrefix(old.bytes, from) => new = from

KeepsPromise ==
  \A i \in DOMAIN queue :
    Completes(i) /\ copyOthers = 0 /\ queue[i].request.source # queue[i].request.destination =>
      Promised(queue[i].request, filesBefore, files')

\* The owner of the queue acts only between the jobs.
LEMMA IdleIs ==
  ASSUME CopyInv, copyStep = "idle"
  PROVE  \A i \in DOMAIN queue : queue[i].state # "running"
BY DEF CopyInv, Copies!RunningIsExecuted

LEMMA SetByOwnerKeeps ==
  ASSUME CopyInv, NEW i \in DOMAIN queue, NEW s \in {"queued", "paused", "cancelled"},
         Copies!SetByOwner(queue[i].id, s)
  PROVE  CopyInv' /\ StartsInOrder /\ KeepsPromise
<1>1. QueueInv /\ copyStep = "idle" /\ nextId' = nextId /\ s \in JobStates /\ s # "running"
  BY DEF Copies!SetByOwner, CopyInv, JobStates, Copies!Done
<1>1a. UNCHANGED <<nextId, files, dirs, copyStep, run, copyOthers, filesBefore>>
  BY DEF Copies!SetByOwner, Copies!Fs
<1>2. queue' = [queue EXCEPT ![i].state = s]
  BY <1>1, WhereIs DEF Copies!SetByOwner, Copies!SetState
<1>3. /\ QueueInv' /\ DOMAIN queue' = DOMAIN queue /\ queue'[i].state = s
      /\ \A j \in DOMAIN queue : j # i => queue'[j] = queue[j]
  BY <1>1, <1>2, SetStateKeeps
<1>4. \A j \in DOMAIN queue : queue[j].state # "running" /\ queue'[j].state # "running"
  BY <1>1, <1>3, IdleIs
<1>5. CopyInv'
  <2>1. DiskInv'
    BY <1>1a DEF CopyInv, DiskInv
  <2>2. Copies!RunningIsExecuted'
    BY <1>1, <1>1a, <1>3, <1>4 DEF Copies!RunningIsExecuted
  <2> QED BY <1>1, <1>1a, <1>3, <2>1, <2>2 DEF CopyInv
<1> QED BY <1>4, <1>5 DEF StartsInOrder, KeepsPromise, Completes

LEMMA RemoveFinishedKeeps ==
  ASSUME CopyInv, Copies!RemoveFinished
  PROVE  CopyInv' /\ StartsInOrder /\ KeepsPromise
<1>1. QueueInv /\ copyStep = "idle" /\ queue \in Seq(CopyJobs) /\ UNCHANGED <<nextId, files, dirs, copyStep, run, copyOthers, filesBefore>>
  BY DEF Copies!RemoveFinished, CopyInv, QueueInv, Copies!Fs
<1> DEFINE left == {job \in Copies!ToSet(queue) : job.state \notin Copies!Done}
<1>2. queue' = Select(queue, left)
  BY DEF Copies!RemoveFinished, Copies!Select, Select
<1> HIDE DEF left
<1>3. queue' \in Seq(CopyJobs \cap left) /\ \E at : PickedAt(at, queue', queue, left)
  BY <1>1, <1>2, SelectPicks
<1>4. PICK at : PickedAt(at, queue', queue, left)
  BY <1>3
<1>5. /\ queue' \in Seq(CopyJobs)
      /\ DOMAIN queue' = 1..Len(queue') /\ Len(queue') \in Nat /\ DOMAIN queue = 1..Len(queue)
  BY <1>1, <1>3
<1>6. \A j \in DOMAIN queue' : at[j] \in DOMAIN queue /\ queue'[j] = queue[at[j]]
  BY <1>4, <1>5 DEF PickedAt
<1>7. \A h, j \in DOMAIN queue' : h < j => at[h] < at[j]
  BY <1>4, <1>5 DEF PickedAt
<1>8. QueueInv'
  BY <1>1, <1>5, <1>6, <1>7 DEF QueueInv
<1>9. /\ \A j \in DOMAIN queue : queue[j].state # "running"
      /\ \A j \in DOMAIN queue' : queue'[j].state # "running"
  BY <1>1, <1>6, IdleIs
<1>10. CopyInv'
  <2>1. DiskInv'
    BY <1>1 DEF CopyInv, DiskInv
  <2>2. Copies!RunningIsExecuted'
    BY <1>1, <1>9 DEF Copies!RunningIsExecuted
  <2> QED BY <1>1, <1>8, <2>1, <2>2 DEF CopyInv
<1> QED BY <1>9, <1>10 DEF StartsInOrder, KeepsPromise, Completes

LEMMA StartNextKeeps ==
  ASSUME CopyInv, Copies!StartNext
  PROVE  CopyInv' /\ StartsInOrder /\ KeepsPromise
<1> DEFINE n == Copies!NextQueued
<1>1. /\ QueueInv /\ DiskInv /\ copyStep = "idle" /\ Copies!Queued # {}
      /\ queue' = [queue EXCEPT ![n].state = "running"]
      /\ run' = [Copies!Idle EXCEPT !.id = queue[n].id]
      /\ copyStep' = "stat_source" /\ copyOthers' = 0 /\ filesBefore' = files
      /\ nextId' = nextId /\ files' = files /\ dirs' = dirs
  BY DEF Copies!StartNext, CopyInv, Copies!Fs
<1>2. n \in Copies!Queued /\ \A j \in Copies!Queued : n <= j
  <2>1. Copies!Queued \in SUBSET Nat
    BY <1>1 DEF Copies!Queued, QueueInv
  <2>2. \E m \in Copies!Queued : \A j \in Copies!Queued : m <= j
    BY <1>1, <2>1, LeastNatural
  <2> QED BY <2>2 DEF Copies!NextQueued
<1>3. n \in DOMAIN queue /\ queue[n].state = "queued"
  BY <1>2 DEF Copies!Queued
<1> HIDE DEF n
<1>4. /\ QueueInv' /\ DOMAIN queue' = DOMAIN queue /\ queue'[n].state = "running"
      /\ \A j \in DOMAIN queue : queue'[j].id = queue[j].id
      /\ \A j \in DOMAIN queue : j # n => queue'[j] = queue[j]
  <2>1. "running" \in JobStates
    BY DEF JobStates
  <2> QED BY <1>1, <1>3, <2>1, SetStateKeeps
<1>5. \A j \in DOMAIN queue : queue[j].state # "running"
  BY <1>1, IdleIs
<1>6. /\ run' = [id |-> queue[n].id, source |-> Copies!NoFile, destination |-> Copies!NoFile,
                  held |-> <<>>]
      /\ run'.id = queue[n].id /\ run'.source = Copies!NoFile /\ run'.destination = Copies!NoFile
      /\ run'.held = <<>>
  BY <1>1 DEF Copies!Idle
<1>7. StartsInOrder
  <2> SUFFICES ASSUME NEW i \in DOMAIN queue, queue[i].state = "queued", queue'[i].state = "running",
                      NEW j \in 1..(i - 1), queue[j].state = "queued"
               PROVE  FALSE
    BY DEF StartsInOrder
  <2>1. i = n
    BY <1>4
  <2>2. j \in DOMAIN queue
    BY <1>1 DEF QueueInv
  <2>3. n <= j
    BY <2>2, <1>2 DEF Copies!Queued
  <2>4. n \in Int
    BY <1>3, <1>1 DEF QueueInv
  <2> QED BY <2>1, <2>3, <2>4
<1>8. KeepsPromise
  BY <1>5 DEF KeepsPromise, Completes
<1>9. Copies!RunningIsExecuted'
  <2> SUFFICES ASSUME NEW i \in DOMAIN queue
               PROVE  queue'[i].state = "running" <=> queue[i].id = queue[n].id
    BY <1>1, <1>4, <1>6 DEF Copies!RunningIsExecuted
  <2>1. CASE i = n
    BY <2>1, <1>4
  <2>2. CASE i # n
    <3>1. queue[i].id # queue[n].id
      <4>1. Copies!Where(queue[i].id) = i /\ Copies!Where(queue[n].id) = n
        BY <1>1, <1>3, WhereIs
      <4> QED BY <4>1, <2>2
    <3> QED BY <3>1, <2>2, <1>4, <1>5
  <2> QED BY <2>1, <2>2
<1>10. DiskInv'
  <2>1. IsSequence(run'.destination.bytes) /\ run'.destination.there \in BOOLEAN /\ IsSequence(run'.held)
    <3>1. run'.destination.bytes = <<>> /\ run'.destination.there = FALSE /\ run'.held = <<>>
      BY <1>6 DEF Copies!NoFile
    <3>2. <<>> \in Seq({})
      OBVIOUS
    <3> QED BY <3>1, <3>2, InSeqIsSequence
  <2>2. run' = [id |-> run'.id, source |-> run'.source, destination |-> run'.destination, held |-> run'.held]
    BY <1>6
  <2> QED BY <1>1, <2>1, <2>2 DEF DiskInv, CopySteps
<1>11. Undisturbed(copyStep', Copies!Job', files', filesBefore', run'.source, run'.destination, run'.held)
  BY <1>1 DEF Undisturbed
<1>12. \E i \in DOMAIN queue' : queue'[i].id = run'.id
  BY <1>3, <1>4, <1>6
<1> QED BY <1>4, <1>7, <1>8, <1>9, <1>10, <1>11, <1>12 DEF CopyInv
-----------------------------------------------------------------------------
(* The executor. *)

\* A step that goes on with the job.
LEMMA GoingOnKeeps ==
  ASSUME CopyInv, copyStep # "idle", copyStep' # "idle", UNCHANGED <<queue, nextId>>, run'.id = run.id,
         DiskInv',
         copyOthers' = 0 =>
           Undisturbed(copyStep', Copies!Job, files', filesBefore', run'.source, run'.destination, run'.held)
  PROVE  CopyInv' /\ StartsInOrder /\ KeepsPromise
<1>1. QueueInv /\ QueueInv'
  BY DEF CopyInv, QueueInv
<1>2. PICK k \in DOMAIN queue : queue[k].id = run.id
  BY DEF CopyInv
<1>3. Copies!Job' = Copies!Job
  BY <1>1, <1>2, JobIs, JobAfter
<1>4. Copies!RunningIsExecuted'
  BY DEF CopyInv, Copies!RunningIsExecuted
<1>5. \E i \in DOMAIN queue' : queue'[i].id = run'.id
  BY <1>2
<1>6. StartsInOrder /\ KeepsPromise
  BY DEF StartsInOrder, KeepsPromise, Completes
<1> QED BY <1>1, <1>3, <1>4, <1>5, <1>6 DEF CopyInv

\* A step that settles the job.
LEMMA SettlingKeeps ==
  ASSUME CopyInv, copyStep # "idle", NEW s \in {"completed", "failed"}, Copies!Settle(s),
         FilesAre(files'), TopDir \in dirs',
         s = "completed" /\ copyOthers = 0 /\ Copies!Job.source # Copies!Job.destination =>
           Promised(Copies!Job, filesBefore, files')
  PROVE  CopyInv' /\ StartsInOrder /\ KeepsPromise
<1>1. QueueInv /\ nextId' = nextId /\ copyStep' = "idle" /\ run' = Copies!Idle /\ copyOthers' = 0
      /\ s \in JobStates /\ s # "running"
  BY DEF CopyInv, Copies!Settle, JobStates, Copies!Done
<1>2. PICK k \in DOMAIN queue : queue[k].id = run.id
  BY DEF CopyInv
<1>3. queue' = [queue EXCEPT ![k].state = s]
  BY <1>1, <1>2, WhereIs DEF Copies!Settle, Copies!SetState
<1>4. /\ QueueInv' /\ DOMAIN queue' = DOMAIN queue /\ queue'[k].state = s
      /\ \A j \in DOMAIN queue : j # k => queue'[j] = queue[j]
  BY <1>1, <1>3, SetStateKeeps
<1>5. \A j \in DOMAIN queue : j # k => queue[j].state # "running"
  <2> SUFFICES ASSUME NEW j \in DOMAIN queue, j # k, queue[j].state = "running" PROVE FALSE
    OBVIOUS
  <2>1. queue[j].id = queue[k].id
    BY <1>2 DEF CopyInv, Copies!RunningIsExecuted
  <2>2. Copies!Where(queue[j].id) = j /\ Copies!Where(queue[k].id) = k
    BY <1>1, WhereIs
  <2> QED BY <2>1, <2>2
<1>6. \A j \in DOMAIN queue : queue'[j].state # "running"
  BY <1>1, <1>4, <1>5
<1>7. StartsInOrder
  BY <1>6 DEF StartsInOrder
<1>8. KeepsPromise
  <2> SUFFICES ASSUME NEW i \in DOMAIN queue, Completes(i), copyOthers = 0,
                      queue[i].request.source # queue[i].request.destination
               PROVE  Promised(queue[i].request, filesBefore, files')
    BY DEF KeepsPromise
  <2>1. i = k
    BY <1>5 DEF Completes
  <2>2. s = "completed"
    BY <2>1, <1>4 DEF Completes
  <2>3. Copies!Job = queue[k].request
    BY <1>1, <1>2, JobIs
  <2> QED BY <2>1, <2>2, <2>3
<1>9. Copies!RunningIsExecuted'
  BY <1>1, <1>4, <1>6 DEF Copies!RunningIsExecuted
<1>10. DiskInv'
  <2>1. run' = [id |-> 0, source |-> Copies!NoFile, destination |-> Copies!NoFile, held |-> <<>>]
    BY <1>1 DEF Copies!Idle
  <2>2. /\ run'.destination.bytes = <<>> /\ run'.destination.there = FALSE /\ run'.held = <<>>
        /\ run' = [id |-> run'.id, source |-> run'.source, destination |-> run'.destination, held |-> run'.held]
    BY <2>1 DEF Copies!NoFile
  <2>3. <<>> \in Seq({})
    OBVIOUS
  <2>4. IsSequence(run'.destination.bytes) /\ IsSequence(run'.held)
    BY <2>2, <2>3, InSeqIsSequence
  <2> QED BY <1>1, <2>2, <2>4 DEF DiskInv, CopySteps
<1> QED BY <1>1, <1>4, <1>7, <1>8, <1>9, <1>10 DEF CopyInv

LEMMA FilesWith ==
  ASSUME NEW fs, FilesAre(fs), NEW x \in CopyPaths, NEW f, FileAssumption(f)
  PROVE  /\ FilesAre(Copies!With(fs, x, f))
         /\ Copies!At(Copies!With(fs, x, f), x) = f
         /\ \A y : y # x => Copies!At(Copies!With(fs, x, f), y) = Copies!At(fs, y)
BY DEF FilesAre, Copies!With, Copies!At

LEMMA FilesAt ==
  ASSUME NEW fs, FilesAre(fs), NEW x
  PROVE  /\ IsSequence(Copies!At(fs, x).bytes)
         /\ Copies!At(fs, x).there \in BOOLEAN
<1>1. <<>> \in Seq({})
  OBVIOUS
<1>2. IsSequence(<<>>)
  BY <1>1, InSeqIsSequence
<1> QED BY <1>2 DEF FilesAre, FileAssumption, Copies!At, Copies!NoFile

LEMMA SequenceJoined ==
  ASSUME NEW a, NEW b, IsSequence(a), IsSequence(b), NEW n \in Nat
  PROVE  /\ IsSequence(a \o SubSeq(b, n + 1, Len(b)))
         /\ n = Len(a) /\ Copies!IsPrefix(a, b) => a \o SubSeq(b, n + 1, Len(b)) = b
<1>1. PICK S : a \in Seq(S) /\ b \in Seq(S)
  BY SequencesTogether
<1>2. Len(a) \in Nat /\ Len(b) \in Nat
  BY <1>1
<1> DEFINE rest == SubSeq(b, n + 1, Len(b))
<1>3. rest \in Seq(S) /\ a \o rest \in Seq(S)
  BY <1>1, <1>2
<1>4. IsSequence(a \o rest)
  BY <1>3, InSeqIsSequence
<1>5. ASSUME n = Len(a), Copies!IsPrefix(a, b) PROVE a \o rest = b
  <2>1. Len(a) <= Len(b) /\ \A i \in 1..Len(a) : a[i] = b[i]
    <3>1. Len(a) <= Len(b) /\ SubSeq(a, 1, Len(a)) = SubSeq(b, 1, Len(a))
      BY <1>5 DEF Copies!IsPrefix
    <3>2. \A i \in 1..Len(a) : SubSeq(a, 1, Len(a))[i] = a[i] /\ SubSeq(b, 1, Len(a))[i] = b[i]
      BY <1>1, <1>2, <3>1
    <3> QED BY <3>1, <3>2
  <2>2. Len(rest) = Len(b) - n /\ \A i \in 1..(Len(b) - n) : rest[i] = b[n + i]
    BY <1>1, <1>2, <1>5, <2>1
  <2>3. Len(a \o rest) = Len(b)
    BY <1>1, <1>2, <1>3, <1>5, <2>2
  <2>4. \A i \in 1..Len(b) : (a \o rest)[i] = b[i]
    <3> SUFFICES ASSUME NEW i \in 1..Len(b) PROVE (a \o rest)[i] = b[i]
      OBVIOUS
    <3> HIDE DEF rest
    <3>1. CASE i <= Len(a)
      <4>1. i \in 1..Len(a)
        BY <3>1, <1>2
      <4>2. (a \o rest)[i] = a[i]
        BY <4>1, <1>1, <1>3
      <4> QED BY <4>1, <4>2, <2>1
    <3>2. CASE i > Len(a)
      <4>0. i \in (Len(a) + 1)..(Len(a) + Len(rest))
        BY <3>2, <1>2, <1>5, <2>2
      <4>1. (a \o rest)[i] = rest[i - Len(a)]
        BY <4>0, <1>1, <1>3
      <4>2. i - n \in 1..(Len(b) - n) /\ n + (i - n) = i
        BY <3>2, <1>2, <1>5
      <4> QED BY <4>1, <4>2, <2>2, <1>5
    <3> DEFINE joined == a \o rest
    <3>3. (i <= Len(a) => joined[i] = b[i]) /\ (i > Len(a) => joined[i] = b[i])
      BY <3>1, <3>2
    <3>4. i <= Len(a) \/ i > Len(a)
      BY <1>2
    <3> HIDE DEF joined
    <3>5. joined[i] = b[i]
      BY <3>3, <3>4
    <3> QED BY <3>5 DEF joined
  <2> DEFINE joined == a \o rest
  <2>5. joined \in Seq(S) /\ Len(joined) = Len(b) /\ \A i \in 1..Len(b) : joined[i] = b[i]
    BY <1>3, <2>3, <2>4
  <2> HIDE DEF rest, joined
  <2>6. joined = b
    BY <2>5, <1>1
  <2> QED BY <2>6 DEF joined
<1> QED BY <1>4, <1>5
LEMMA DecisionMeans ==
  ASSUME NEW job, NEW was, FilesAre(was)
  PROVE  LET old == Copies!At(was, job.destination)
             new == Copies!At(was, job.source)
             d == Decided(job, was)
         IN /\ ~old.there => d = "copy"
            /\ old.there /\ job.mode = "ask" => d = "prompt"
            /\ old.there /\ job.mode = "always" => d = "copy"
            /\ old.there /\ job.mode = "never" => d = "skip"
            /\ old.there /\ job.mode = "if_newer" =>
                 d = IF Copies!Unknown \in {new.modified, old.modified} THEN "unsupported"
                     ELSE IF new.modified > old.modified THEN "copy" ELSE "skip"
            /\ old.there /\ job.mode = "resume" =>
                 d = IF Len(old.bytes) < Len(new.bytes) THEN "resume"
                     ELSE IF Len(old.bytes) = Len(new.bytes) THEN "skip" ELSE "unsupported"
<1>1. Copies!At(was, job.destination).there \in BOOLEAN
  BY FilesAt
<1> QED BY <1>1 DEF Decided, Copies!DecideOverwrite

\* What a job leaves that leaves all as it was,
LEMMA SkippingIsPromised ==
  ASSUME NEW job, NEW was, FilesAre(was), job.direction = "local_copy",
         Decided(job, was) \in {"skip", "prompt"}
  PROVE  Promised(job, was, was)
<1> DEFINE old == Copies!At(was, job.destination)
           from == Copies!At(was, job.source)
           d == Decided(job, was)
<1>1. old.there \in BOOLEAN /\ IsSequence(old.bytes) /\ IsSequence(from.bytes)
  BY FilesAt
<1>2. /\ ~old.there => d = "copy"
      /\ old.there /\ job.mode = "always" => d = "copy"
      /\ old.there /\ job.mode = "if_newer" =>
           d = IF Copies!Unknown \in {from.modified, old.modified} THEN "unsupported"
               ELSE IF from.modified > old.modified THEN "copy" ELSE "skip"
      /\ old.there /\ job.mode = "resume" =>
           d = IF Len(old.bytes) < Len(from.bytes) THEN "resume"
               ELSE IF Len(old.bytes) = Len(from.bytes) THEN "skip" ELSE "unsupported"
  BY DecisionMeans
<1>3. ASSUME Len(old.bytes) = Len(from.bytes), Copies!IsPrefix(old.bytes, from.bytes)
      PROVE  old.bytes = from.bytes
  <2>1. PICK S : old.bytes \in Seq(S) /\ from.bytes \in Seq(S)
    BY <1>1, SequencesTogether
  <2> HIDE DEF old, from
  <2>2. SubSeq(old.bytes, 1, Len(old.bytes)) = old.bytes /\ SubSeq(from.bytes, 1, Len(from.bytes)) = from.bytes
    BY <2>1
  <2> QED BY <2>2, <1>3 DEF Copies!IsPrefix
<1>4. d \in {"skip", "prompt"} /\ old.there
  BY <1>1, <1>2
<1> HIDE DEF d
<1>5. job.mode = "if_newer" => ~(from.modified > old.modified)
  BY <1>2, <1>4
<1>6. job.mode = "resume" => Len(old.bytes) = Len(from.bytes)
  BY <1>2, <1>4
<1>7. job.mode # "always"
  BY <1>2, <1>4
<1> QED BY <1>3, <1>4, <1>5, <1>6, <1>7 DEF Promised

\* one that copies,
LEMMA CopyingIsPromised ==
  ASSUME NEW job, NEW was, FilesAre(was), job.direction = "local_copy",
         Decided(job, was) \in {"copy", "prompt"}, NEW after,
         Copies!At(after, job.source) = Copies!At(was, job.source),
         Copies!At(after, job.destination).bytes = Copies!At(was, job.source).bytes
  PROVE  Promised(job, was, after)
<1> DEFINE old == Copies!At(was, job.destination)
           from == Copies!At(was, job.source)
           d == Decided(job, was)
<1>1. old.there \in BOOLEAN
  BY FilesAt
<1>2. /\ old.there /\ job.mode = "never" => d = "skip"
      /\ old.there /\ job.mode = "if_newer" =>
           d = IF Copies!Unknown \in {from.modified, old.modified} THEN "unsupported"
               ELSE IF from.modified > old.modified THEN "copy" ELSE "skip"
  BY DecisionMeans
<1>3. d \in {"copy", "prompt"}
  OBVIOUS
<1> HIDE DEF d
<1>4. old.there /\ job.mode = "if_newer" => from.modified > old.modified
  BY <1>2, <1>3
<1>5. ~(old.there /\ job.mode = "never")
  BY <1>2, <1>3
<1> QED BY <1>4, <1>5 DEF Promised

\* and one that is resumed.
LEMMA ResumingIsPromised ==
  ASSUME NEW job, NEW was, FilesAre(was), job.direction = "local_copy",
         Decided(job, was) = "resume", NEW after,
         Copies!At(after, job.source) = Copies!At(was, job.source),
         Copies!IsPrefix(Copies!At(was, job.destination).bytes, Copies!At(was, job.source).bytes) =>
           Copies!At(after, job.destination).bytes = Copies!At(was, job.source).bytes
  PROVE  Promised(job, was, after)
<1> DEFINE old == Copies!At(was, job.destination)
           from == Copies!At(was, job.source)
           d == Decided(job, was)
<1>1. old.there \in BOOLEAN
  BY FilesAt
<1>2. /\ ~old.there => d = "copy"
      /\ old.there /\ job.mode = "ask" => d = "prompt"
      /\ old.there /\ job.mode = "always" => d = "copy"
      /\ old.there /\ job.mode = "never" => d = "skip"
      /\ old.there /\ job.mode = "if_newer" =>
           d = IF Copies!Unknown \in {from.modified, old.modified} THEN "unsupported"
               ELSE IF from.modified > old.modified THEN "copy" ELSE "skip"
  BY DecisionMeans
<1>3. d = "resume"
  OBVIOUS
<1> HIDE DEF d
<1>4. old.there /\ job.mode \notin {"ask", "always", "never", "if_newer"}
  BY <1>1, <1>2, <1>3
<1> QED BY <1>4 DEF Promised

\* A state of the executor, with the constants its steps are about.
LEMMA AtWork ==
  ASSUME CopyInv, copyStep # "idle"
  PROVE  /\ FilesAre(files) /\ FilesAre(filesBefore) /\ TopDir \in dirs
         /\ Copies!Job \in Requests /\ Copies!Job.destination \in CopyPaths
         /\ Copies!Job.mode \in {"ask", "always", "never", "if_newer", "resume"}
<1>1. PICK k \in DOMAIN queue : queue[k].id = run.id
  BY DEF CopyInv
<1>2. Copies!Job = queue[k].request
  BY <1>1, JobIs DEF CopyInv
<1>3. queue[k] \in CopyJobs
  BY DEF CopyInv, QueueInv
<1> QED BY <1>2, <1>3, CopyAssumption DEF CopyInv, DiskInv, CopyJobs

LEMMA FailingKeeps ==
  ASSUME CopyInv, Copies!CallFails \/ Copies!RefuseRemote
  PROVE  CopyInv' /\ StartsInOrder /\ KeepsPromise
<1>1. copyStep # "idle" /\ Copies!Settle("failed") /\ files' = files /\ dirs' = dirs
  BY DEF Copies!CallFails, Copies!RefuseRemote, Copies!Fs
<1>2. FilesAre(files') /\ TopDir \in dirs'
  BY <1>1, AtWork
<1> QED BY <1>1, <1>2, SettlingKeeps

LEMMA StatSourceKeeps ==
  ASSUME CopyInv, Copies!StatSource
  PROVE  CopyInv' /\ StartsInOrder /\ KeepsPromise
<1>1. /\ copyStep = "stat_source" /\ Copies!Job.direction = "local_copy"
      /\ run' = [run EXCEPT !.source = Copies!Source] /\ copyStep' = "stat_destination"
      /\ UNCHANGED <<queue, nextId, copyOthers, filesBefore, files, dirs>>
  BY DEF Copies!StatSource, Copies!GoOn, Copies!Fs
<1>2. DiskInv
  BY DEF CopyInv
<1>3. run'.id = run.id /\ run'.source = Copies!Source /\ run'.destination = run.destination
      /\ run' = [id |-> run'.id, source |-> run'.source, destination |-> run'.destination, held |-> run'.held]
  BY <1>1, <1>2 DEF DiskInv
<1>4. DiskInv'
  BY <1>1, <1>2, <1>3 DEF DiskInv, CopySteps
<1>5. copyOthers' = 0 =>
        Undisturbed(copyStep', Copies!Job, files', filesBefore', run'.source, run'.destination, run'.held)
  <2> SUFFICES ASSUME copyOthers = 0
               PROVE  Undisturbed(copyStep', Copies!Job, files', filesBefore', run'.source, run'.destination, run'.held)
    BY <1>1
  <2>1. files = filesBefore
    BY <1>1 DEF CopyInv, Undisturbed
  <2> QED BY <1>1, <1>3, <2>1 DEF Undisturbed, Copies!Source
<1> QED BY <1>1, <1>3, <1>4, <1>5, GoingOnKeeps

LEMMA StatDestinationKeeps ==
  ASSUME CopyInv, Copies!StatDestination
  PROVE  CopyInv' /\ StartsInOrder /\ KeepsPromise
<1>1. /\ copyStep = "stat_destination" /\ run' = [run EXCEPT !.destination = Copies!Destination]
      /\ copyStep' \in {"mkdir", "decide"}
      /\ UNCHANGED <<queue, nextId, copyOthers, filesBefore, files, dirs>>
  BY DEF Copies!StatDestination, Copies!GoOn, Copies!Fs
<1>2. DiskInv
  BY DEF CopyInv
<1>3. run'.id = run.id /\ run'.source = run.source /\ run'.destination = Copies!Destination
      /\ run' = [id |-> run'.id, source |-> run'.source, destination |-> run'.destination, held |-> run'.held]
  BY <1>1, <1>2 DEF DiskInv
<1>3a. IsSequence(Copies!Destination.bytes) /\ Copies!Destination.there \in BOOLEAN
  BY <1>2, FilesAt DEF DiskInv, Copies!Destination
<1>4. DiskInv'
  BY <1>1, <1>2, <1>3, <1>3a DEF DiskInv, CopySteps
<1>5. copyOthers' = 0 =>
        Undisturbed(copyStep', Copies!Job, files', filesBefore', run'.source, run'.destination, run'.held)
  <2> SUFFICES ASSUME copyOthers = 0
               PROVE  Undisturbed(copyStep', Copies!Job, files', filesBefore', run'.source, run'.destination, run'.held)
    BY <1>1
  <2>1. files = filesBefore /\ Copies!Job.direction = "local_copy" /\ run.source = Copies!At(filesBefore, Copies!Job.source)
    BY <1>1 DEF CopyInv, Undisturbed
  <2> QED BY <1>1, <1>3, <2>1 DEF Undisturbed, Copies!Destination
<1> QED BY <1>1, <1>3, <1>4, <1>5, GoingOnKeeps

LEMMA MakeParentsKeeps ==
  ASSUME CopyInv, Copies!MakeParents
  PROVE  CopyInv' /\ StartsInOrder /\ KeepsPromise
<1>1. /\ copyStep = "mkdir" /\ copyStep' = "decide" /\ TopDir \in dirs'
      /\ UNCHANGED <<queue, nextId, copyOthers, filesBefore, files, run>>
  BY DEF Copies!MakeParents, Copies!GoOn, CopyInv, DiskInv
<1>2. DiskInv'
  BY <1>1 DEF CopyInv, DiskInv, CopySteps
<1>3. copyOthers' = 0 =>
        Undisturbed(copyStep', Copies!Job, files', filesBefore', run'.source, run'.destination, run'.held)
  BY <1>1 DEF CopyInv, Undisturbed
<1> QED BY <1>1, <1>2, <1>3, GoingOnKeeps

LEMMA DecideKeeps ==
  ASSUME CopyInv, Copies!Decide
  PROVE  CopyInv' /\ StartsInOrder /\ KeepsPromise
<1> DEFINE d == Copies!DecideOverwrite(Copies!Job.mode, run.source, run.destination)
<1>1. /\ copyStep = "decide" /\ files' = files /\ dirs' = dirs
      /\ \/ d = "skip" /\ Copies!Settle("completed")
         \/ d = "unsupported" /\ Copies!Settle("failed")
         \/ d \notin {"skip", "unsupported"} /\ Copies!GoOn(d) /\ run' = run
  BY DEF Copies!Decide, Copies!Fs
<1>2. FilesAre(files') /\ TopDir \in dirs' /\ FilesAre(filesBefore)
  BY <1>1, AtWork
<1>3. copyOthers = 0 =>
        /\ d = Decided(Copies!Job, filesBefore) /\ files = filesBefore
        /\ Copies!Job.direction = "local_copy"
        /\ run.source = Copies!At(filesBefore, Copies!Job.source)
        /\ run.destination = Copies!At(filesBefore, Copies!Job.destination)
  BY <1>1 DEF CopyInv, Undisturbed, Decided
<1> HIDE DEF d
<1>4. CASE d = "skip"
  <2>1. Copies!Settle("completed")
    BY <1>1, <1>4
  <2>2. copyOthers = 0 => Promised(Copies!Job, filesBefore, files')
    BY <1>1, <1>2, <1>3, <1>4, SkippingIsPromised
  <2> QED BY <1>1, <1>2, <2>1, <2>2, SettlingKeeps
<1>5. CASE d = "unsupported"
  <2>1. Copies!Settle("failed")
    BY <1>1, <1>5
  <2> QED BY <1>1, <1>2, <2>1, SettlingKeeps
<1>6. CASE d \notin {"skip", "unsupported"}
  <2>1. /\ copyStep' = d /\ run' = run
        /\ UNCHANGED <<queue, nextId, copyOthers, filesBefore>>
    BY <1>1, <1>6 DEF Copies!GoOn
  <2>2. d \in {"copy", "prompt", "resume"}
    <3>1. /\ Copies!Job.mode \in {"ask", "always", "never", "if_newer", "resume"}
          /\ run.destination.there \in BOOLEAN
      BY <1>1, AtWork DEF CopyInv, DiskInv
    <3> QED BY <1>6, <3>1 DEF d, Copies!DecideOverwrite
  <2>3. DiskInv'
    BY <1>1, <2>1, <2>2 DEF CopyInv, DiskInv, CopySteps
  <2>4. copyOthers' = 0 =>
          Undisturbed(copyStep', Copies!Job, files', filesBefore', run'.source, run'.destination, run'.held)
    BY <1>1, <1>3, <2>1, <2>2 DEF Undisturbed
  <2>5. copyStep # "idle" /\ copyStep' # "idle"
    BY <1>1, <2>1, <2>2
  <2> QED BY <2>1, <2>3, <2>4, <2>5, GoingOnKeeps
<1> QED BY <1>4, <1>5, <1>6

LEMMA AnswerKeeps ==
  ASSUME CopyInv, NEW response \in {"accept", "reject", "cancel"}, Copies!Answer(response)
  PROVE  CopyInv' /\ StartsInOrder /\ KeepsPromise
<1>1. copyStep = "prompt" /\ files' = files /\ dirs' = dirs
  BY DEF Copies!Answer, Copies!Fs
<1>2. FilesAre(files') /\ TopDir \in dirs' /\ FilesAre(filesBefore)
  BY <1>1, AtWork
<1>3. copyOthers = 0 =>
        /\ Decided(Copies!Job, filesBefore) = "prompt" /\ files = filesBefore
        /\ Copies!Job.direction = "local_copy"
        /\ run.source = Copies!At(filesBefore, Copies!Job.source)
        /\ run.destination = Copies!At(filesBefore, Copies!Job.destination)
  BY <1>1 DEF CopyInv, Undisturbed
<1>4. CASE response = "accept"
  <2>1. /\ copyStep' = "copy" /\ run' = run /\ UNCHANGED <<queue, nextId, copyOthers, filesBefore>>
    BY <1>4 DEF Copies!Answer, Copies!GoOn
  <2>2. DiskInv'
    BY <1>1, <2>1 DEF CopyInv, DiskInv, CopySteps
  <2>3. copyOthers' = 0 =>
          Undisturbed(copyStep', Copies!Job, files', filesBefore', run'.source, run'.destination, run'.held)
    BY <1>1, <1>3, <2>1 DEF Undisturbed
  <2> QED BY <1>1, <2>1, <2>2, <2>3, GoingOnKeeps
<1>5. CASE response = "reject"
  <2>1. Copies!Settle("completed")
    BY <1>5 DEF Copies!Answer
  <2>2. copyOthers = 0 => Promised(Copies!Job, filesBefore, files')
    BY <1>1, <1>2, <1>3, SkippingIsPromised
  <2> QED BY <1>1, <1>2, <2>1, <2>2, SettlingKeeps
<1>6. CASE response = "cancel"
  <2>1. Copies!Settle("failed")
    BY <1>6 DEF Copies!Answer
  <2> QED BY <1>1, <1>2, <2>1, SettlingKeeps
<1> QED BY <1>4, <1>5, <1>6
LEMMA OpenCopyKeeps ==
  ASSUME CopyInv, Copies!OpenCopy
  PROVE  CopyInv' /\ StartsInOrder /\ KeepsPromise
<1> DEFINE new == Copies!File(<<>>, Copies!Now)
<1>1. /\ copyStep = "copy" /\ copyStep' = "fill" /\ Copies!Source.there
      /\ files' = Copies!With(files, Copies!Job.destination, new)
      /\ run' = [run EXCEPT !.held = Copies!At(files', Copies!Job.source).bytes]
      /\ UNCHANGED <<queue, nextId, copyOthers, filesBefore, dirs>>
  BY DEF Copies!OpenCopy, Copies!GoOn
<1>2. FileAssumption(new)
  <2>1. <<>> \in Seq({})
    OBVIOUS
  <2>2. IsSequence(<<>>)
    BY <2>1, InSeqIsSequence
  <2> QED BY <2>2 DEF FileAssumption, Copies!File
<1>3. FilesAre(files')
  BY <1>1, <1>2, AtWork, FilesWith
<1>4. /\ run' = [id |-> run.id, source |-> run.source, destination |-> run.destination,
                  held |-> Copies!At(files', Copies!Job.source).bytes]
      /\ run'.id = run.id /\ run'.source = run.source /\ run'.destination = run.destination
      /\ run'.held = Copies!At(files', Copies!Job.source).bytes
  BY <1>1 DEF CopyInv, DiskInv
<1>5. IsSequence(run'.held)
  BY <1>3, <1>4, FilesAt
<1>6. DiskInv'
  BY <1>1, <1>3, <1>4, <1>5 DEF CopyInv, DiskInv, CopySteps
<1>7. copyOthers' = 0 =>
        Undisturbed(copyStep', Copies!Job, files', filesBefore', run'.source, run'.destination, run'.held)
  BY <1>1, <1>4 DEF CopyInv, Undisturbed, Copies!Source
<1> QED BY <1>1, <1>4, <1>6, <1>7, GoingOnKeeps

LEMMA FillKeeps ==
  ASSUME CopyInv, Copies!Fill
  PROVE  CopyInv' /\ StartsInOrder /\ KeepsPromise
<1>1. PICK bytes \in {run.held, Copies!Source.bytes} :
        /\ copyStep = "fill" /\ dirs' = dirs /\ Copies!Settle("completed")
        /\ \/ files' = Copies!With(files, Copies!Job.destination, Copies!File(bytes, Copies!Now))
           \/ files' = files /\ Copies!Destination # Copies!File(<<>>, Copies!Now)
  BY DEF Copies!Fill
<1>2. /\ FilesAre(files) /\ FilesAre(filesBefore) /\ TopDir \in dirs'
      /\ Copies!Job.destination \in CopyPaths
  BY <1>1, AtWork
<1>3. FileAssumption(Copies!File(bytes, Copies!Now))
  <2>1. IsSequence(run.held)
    BY DEF CopyInv, DiskInv
  <2>2. IsSequence(Copies!Source.bytes)
    BY <1>2, FilesAt DEF Copies!Source
  <2> QED BY <2>1, <2>2 DEF FileAssumption, Copies!File
<1>4. FilesAre(files')
  BY <1>1, <1>2, <1>3, FilesWith
<1>5. ASSUME copyOthers = 0, Copies!Job.source # Copies!Job.destination
      PROVE  Promised(Copies!Job, filesBefore, files')
  <2>1. PICK job, was, fs : job = Copies!Job /\ was = filesBefore /\ fs = files
    OBVIOUS
  <2>2. /\ fs = Copies!With(was, job.destination, Copies!File(<<>>, Copies!Now))
        /\ job.direction = "local_copy" /\ Decided(job, was) \in {"copy", "prompt"}
        /\ run.held = Copies!At(fs, job.source).bytes
    BY <1>1, <1>5, <2>1 DEF CopyInv, Undisturbed
  <2> DEFINE opened == Copies!File(<<>>, Copies!Now)
  <2>3. FileAssumption(opened)
    <3>1. <<>> \in Seq({})
      OBVIOUS
    <3>2. IsSequence(<<>>)
      BY <3>1, InSeqIsSequence
    <3> QED BY <3>2 DEF FileAssumption, Copies!File
  <2>4. /\ Copies!At(fs, job.destination) = opened
        /\ Copies!At(fs, job.source) = Copies!At(was, job.source)
    BY <1>2, <1>5, <2>1, <2>2, <2>3, FilesWith
  <2>5. bytes = Copies!At(was, job.source).bytes
    BY <2>1, <2>2, <2>4 DEF Copies!Source
  <2>6. files' = Copies!With(fs, job.destination, Copies!File(Copies!At(was, job.source).bytes, Copies!Now))
    BY <1>1, <2>1, <2>4, <2>5 DEF Copies!Destination
  <2>7. FileAssumption(Copies!File(Copies!At(was, job.source).bytes, Copies!Now))
    BY <1>3, <2>5
  <2>8. /\ Copies!At(files', job.destination) = Copies!File(Copies!At(was, job.source).bytes, Copies!Now)
        /\ Copies!At(files', job.source) = Copies!At(fs, job.source)
    BY <1>2, <1>5, <2>1, <2>6, <2>7, FilesWith
  <2>9. Copies!At(files', job.destination).bytes = Copies!At(was, job.source).bytes
    BY <2>8 DEF Copies!File
  <2>10. Promised(job, was, files')
    BY <1>2, <2>1, <2>2, <2>4, <2>8, <2>9, CopyingIsPromised
  <2> QED BY <2>1, <2>10
<1> QED BY <1>1, <1>2, <1>4, <1>5, SettlingKeeps

LEMMA ResumeKeeps ==
  ASSUME CopyInv, Copies!Resume
  PROVE  CopyInv' /\ StartsInOrder /\ KeepsPromise
<1> DEFINE n == Len(run.destination.bytes)
           bytes == Copies!Destination.bytes \o SubSeq(Copies!Source.bytes, n + 1, Len(Copies!Source.bytes))
           new == Copies!File(bytes, Copies!Now)
<1>1. /\ copyStep = "resume" /\ dirs' = dirs /\ Copies!Settle("completed")
      /\ files' = Copies!With(files, Copies!Job.destination, new)
  BY DEF Copies!Resume
<1>2. /\ FilesAre(files) /\ FilesAre(filesBefore) /\ TopDir \in dirs'
      /\ Copies!Job.destination \in CopyPaths
  BY <1>1, AtWork
<1>3. n \in Nat
  BY DEF CopyInv, DiskInv, IsSequence
<1>4. IsSequence(Copies!Destination.bytes) /\ IsSequence(Copies!Source.bytes)
  BY <1>2, FilesAt DEF Copies!Destination, Copies!Source
<1>5. IsSequence(bytes) /\ (n = Len(Copies!Destination.bytes) /\ Copies!IsPrefix(Copies!Destination.bytes, Copies!Source.bytes)
                             => bytes = Copies!Source.bytes)
  <2> HIDE DEF n
  <2> QED BY <1>3, <1>4, SequenceJoined
<1> HIDE DEF n, bytes
<1>6. FileAssumption(new) /\ new.bytes = bytes
  BY <1>5 DEF FileAssumption, Copies!File
<1> HIDE DEF new
<1>7. FilesAre(files')
  BY <1>1, <1>2, <1>6, FilesWith
<1>8. ASSUME copyOthers = 0, Copies!Job.source # Copies!Job.destination
      PROVE  Promised(Copies!Job, filesBefore, files')
  <2>1. PICK job, was, fs : job = Copies!Job /\ was = filesBefore /\ fs = files
    OBVIOUS
  <2>2. /\ fs = was /\ run.destination = Copies!At(was, job.destination)
        /\ job.direction = "local_copy" /\ Decided(job, was) = "resume"
    BY <1>1, <1>8, <2>1 DEF CopyInv, Undisturbed
  <2>3. /\ Copies!At(files', job.destination) = new
        /\ Copies!At(files', job.source) = Copies!At(was, job.source)
    BY <1>1, <1>2, <1>6, <1>8, <2>1, <2>2, FilesWith
  <2>4. /\ Copies!Destination = Copies!At(was, job.destination)
        /\ Copies!Source = Copies!At(was, job.source)
        /\ n = Len(Copies!Destination.bytes)
    BY <2>1, <2>2 DEF Copies!Destination, Copies!Source, n
  <2>5. Copies!IsPrefix(Copies!At(was, job.destination).bytes, Copies!At(was, job.source).bytes) =>
          Copies!At(files', job.destination).bytes = Copies!At(was, job.source).bytes
    BY <1>5, <1>6, <2>3, <2>4
  <2>6. Promised(job, was, files')
    BY <1>2, <2>1, <2>2, <2>3, <2>5, ResumingIsPromised
  <2> QED BY <2>1, <2>6
<1> QED BY <1>1, <1>2, <1>7, <1>8, SettlingKeeps

LEMMA OtherKeeps ==
  ASSUME CopyInv, Copies!Other
  PROVE  CopyInv' /\ StartsInOrder /\ KeepsPromise
<1>1. /\ copyStep # "idle" /\ copyOthers' = copyOthers + 1
      /\ UNCHANGED <<queue, nextId, dirs, copyStep, run, filesBefore>>
  BY DEF Copies!Other
<1>2. copyOthers' \in Nat /\ copyOthers' # 0
  BY <1>1 DEF CopyInv, DiskInv
<1>3. FilesAre(files)
  BY <1>1, AtWork
<1>4. PICK x \in CopyPaths :
        \/ \E w \in Writes : files' = Copies!With(files, x, w)
        \/ files' = [y \in DOMAIN files \ {x} |-> files[y]]
  BY DEF Copies!Other
<1>5. FilesAre(files')
  <2>1. ASSUME NEW w \in Writes, files' = Copies!With(files, x, w) PROVE FilesAre(files')
    BY <1>3, <2>1, CopyAssumption, FilesWith
  <2>2. ASSUME files' = [y \in DOMAIN files \ {x} |-> files[y]] PROVE FilesAre(files')
    BY <1>3, <2>2 DEF FilesAre
  <2> QED BY <1>4, <2>1, <2>2
<1>6. DiskInv'
  BY <1>1, <1>2, <1>5 DEF CopyInv, DiskInv
<1> QED BY <1>1, <1>2, <1>6, GoingOnKeeps

LEMMA CopyStepKeeps ==
  ASSUME CopyInv, Copies!Next \/ UNCHANGED copyVars
  PROVE  CopyInv' /\ StartsInOrder /\ KeepsPromise
<1>1. ASSUME NEW request \in Requests, Copies!Enqueue(request) PROVE CopyInv' /\ StartsInOrder /\ KeepsPromise
  BY <1>1, EnqueueKeeps DEF StartsInOrder, KeepsPromise, Completes
<1>2. ASSUME NEW i \in DOMAIN queue, NEW s \in {"queued", "paused", "cancelled"},
             Copies!SetByOwner(queue[i].id, s)
      PROVE  CopyInv' /\ StartsInOrder /\ KeepsPromise
  BY <1>2, SetByOwnerKeeps
<1>3. ASSUME NEW response \in {"accept", "reject", "cancel"}, Copies!Answer(response)
      PROVE  CopyInv' /\ StartsInOrder /\ KeepsPromise
  BY <1>3, AnswerKeeps
<1>4. CASE UNCHANGED copyVars
  <2>1. UNCHANGED <<queue, nextId, files, dirs, copyStep, run, copyOthers, filesBefore>>
    BY <1>4 DEF copyVars
  <2>2. CopyInv'
    <3>1. QueueInv' /\ DiskInv'
      BY <2>1 DEF CopyInv, QueueInv, DiskInv
    <3>2. Copies!RunningIsExecuted' /\ (copyStep' # "idle" => \E i \in DOMAIN queue' : queue'[i].id = run'.id)
      BY <2>1 DEF CopyInv, Copies!RunningIsExecuted
    <3>3. Copies!Job' = Copies!Job
      BY <2>1 DEF Copies!Job, Copies!Where
    <3> QED BY <2>1, <3>1, <3>2, <3>3 DEF CopyInv
  <2>3. StartsInOrder /\ KeepsPromise
    BY <2>1 DEF StartsInOrder, KeepsPromise, Completes
  <2> QED BY <2>2, <2>3
<1> QED BY <1>1, <1>2, <1>3, <1>4, RemoveFinishedKeeps, StartNextKeeps, FailingKeeps, StatSourceKeeps,
           StatDestinationKeeps, MakeParentsKeeps, DecideKeeps, OpenCopyKeeps, FillKeeps, ResumeKeeps,
           OtherKeeps DEF Copies!Next

LEMMA CopyStarts ==
  ASSUME Copies!Init PROVE CopyInv
<1>1. /\ queue = <<>> /\ nextId = 1 /\ files \in Files /\ dirs = {TopDir}
      /\ copyStep = "idle" /\ run = Copies!Idle /\ copyOthers = 0
  BY DEF Copies!Init
<1>2. QueueInv
  <2>1. <<>> \in Seq(CopyJobs) /\ DOMAIN <<>> = {}
    OBVIOUS
  <2> QED BY <1>1, <2>1 DEF QueueInv
<1>3. DiskInv
  <2>1. <<>> \in Seq({})
    OBVIOUS
  <2>2. IsSequence(<<>>)
    BY <2>1, InSeqIsSequence
  <2>3. run = [id |-> 0, source |-> Copies!NoFile, destination |-> Copies!NoFile, held |-> <<>>]
    BY <1>1 DEF Copies!Idle
  <2>4. /\ run.destination.bytes = <<>> /\ run.destination.there = FALSE
        /\ run = [id |-> run.id, source |-> run.source, destination |-> run.destination, held |-> run.held]
    BY <2>3 DEF Copies!NoFile
  <2>5. FilesAre(files)
    BY <1>1, CopyAssumption DEF FilesAre
  <2>6. IsSequence(run.held)
    BY <2>2, <2>3
  <2> QED BY <1>1, <2>2, <2>4, <2>5, <2>6 DEF DiskInv, CopySteps
<1>4. Copies!RunningIsExecuted
  BY <1>1 DEF Copies!RunningIsExecuted
<1> QED BY <1>1, <1>2, <1>3, <1>4 DEF CopyInv

\* Whatever the files, the jobs and what another program does to the files:
\* jobs start in their order, exactly the job at which the executor is runs,
\* and a completed job leaves what its mode says.
THEOREM CopiesAreKept == LocalSpec => CopiesKeepPromise
<1>1. LocalInit => CopyInv
  BY CopyStarts DEF LocalInit, NoCopy
<1>2. CopyInv /\ [Copying \/ Calling \/ Masking \/ OnPaths]_localVars => CopyInv' /\ StartsInOrder /\ KeepsPromise
  <2> SUFFICES ASSUME CopyInv, [Copying \/ Calling \/ Masking \/ OnPaths]_localVars
               PROVE  CopyInv' /\ StartsInOrder /\ KeepsPromise
    OBVIOUS
  <2>1. Copies!Next \/ UNCHANGED copyVars
    BY DEF Copying, Calling, Masking, OnPaths, localVars
  <2> QED BY <2>1, CopyStepKeeps
<1>3. CopyInv => Copies!TypeOK /\ Copies!RunningIsExecuted
  <2> SUFFICES ASSUME CopyInv PROVE Copies!TypeOK
    BY DEF CopyInv
  <2>1. \A i \in DOMAIN queue : queue[i].state \in JobStates
    <3>1. \A i \in DOMAIN queue : queue[i] \in CopyJobs
      BY DEF CopyInv, QueueInv
    <3> QED BY <3>1 DEF CopyJobs
  <2> QED BY <2>1 DEF CopyInv, QueueInv, DiskInv, FilesAre, Copies!TypeOK, JobStates
<1>4. StartsInOrder =>
        \A i \in DOMAIN queue :
          i \in DOMAIN queue' /\ queue[i].state = "queued" /\ queue'[i].state = "running" =>
            \A j \in 1..i - 1 : queue[j].state # "queued"
  BY DEF StartsInOrder
<1> QED BY <1>1, <1>2, <1>3, <1>4, PTL DEF LocalSpec, CopiesKeepPromise, Copies!StartsFirstQueued,
       Copies!CompletedKeepsPromise, KeepsPromise, Completes, Promised, Copies!Was

-----------------------------------------------------------------------------
(***************************************************************************)
(* The local adapter.  How rename moves a tree: each path below the old    *)
(* place becomes one below the new, by a bijection (Swap).                 *)
(***************************************************************************)
LEMMA ToNames ==
  ASSUME NEW tree, NamedTree(tree), NEW a, IsSequence(a), NEW b, IsSequence(b)
  PROVE  \E S : a \in Seq(S) /\ b \in Seq(S) /\ \A q \in DOMAIN tree : q \in Seq(S)
<1> DEFINE S == ToSet(a) \cup ToSet(b) \cup UNION {ToSet(q) : q \in DOMAIN tree}
<1>1. a \in Seq(ToSet(a)) /\ b \in Seq(ToSet(b)) /\ \A q \in DOMAIN tree : q \in Seq(ToSet(q))
  BY DEF NamedTree, IsSequence
<1>2. ToSet(a) \subseteq S /\ ToSet(b) \subseteq S /\ \A q \in DOMAIN tree : ToSet(q) \subseteq S
  OBVIOUS
<1> HIDE DEF S
<1>3. \A A, B : A \subseteq B => Seq(A) \subseteq Seq(B)
  OBVIOUS
<1>4. a \in Seq(S) /\ b \in Seq(S)
  BY <1>1, <1>2, <1>3
<1>5. \A q \in DOMAIN tree : q \in Seq(S)
  BY <1>1, <1>2, <1>3
<1> QED BY <1>4, <1>5

-----------------------------------------------------------------------------
(* What moving a tree does to its paths: the beginning a is replaced by b. *)

Swap(a, b, q) == b \o SubSeq(q, Len(a) + 1, Len(q))

Swapped(a, b, q, s) ==
  /\ Len(s) = Len(b) + (Len(q) - Len(a)) /\ Len(a) <= Len(q)
  /\ \A i \in 1..Len(b) : s[i] = b[i]
  /\ \A i \in 1..(Len(q) - Len(a)) : s[Len(b) + i] = q[Len(a) + i]
  /\ IsPrefix(b, s)

LEMMA SwapFacts ==
  ASSUME NEW S, NEW a \in Seq(S), NEW b \in Seq(S), NEW q \in Seq(S), IsPrefix(a, q)
  PROVE  Swap(a, b, q) \in Seq(S) /\ Swapped(a, b, q, Swap(a, b, q))
<1> DEFINE rest == SubSeq(q, Len(a) + 1, Len(q))
           s == b \o rest
<1>1. Len(a) \in Nat /\ Len(b) \in Nat /\ Len(q) \in Nat /\ Len(a) <= Len(q)
  BY DEF IsPrefix
<1>2. /\ rest \in Seq(S) /\ Len(rest) = Len(q) - Len(a)
      /\ \A i \in 1..(Len(q) - Len(a)) : rest[i] = q[Len(a) + i]
  BY <1>1
<1> HIDE DEF rest
<1>3. /\ s \in Seq(S) /\ Len(s) = Len(b) + Len(rest)
      /\ \A i \in 1..Len(b) : s[i] = b[i]
      /\ \A i \in 1..Len(rest) : s[Len(b) + i] = rest[i]
  BY <1>2
<1> HIDE DEF s
<1>4. IsPrefix(b, s)
  BY <1>1, <1>2, <1>3, PrefixIff
<1>5. Swap(a, b, q) = s
  BY DEF Swap, s, rest
<1> QED BY <1>1, <1>2, <1>3, <1>4, <1>5 DEF Swapped

LEMMA SwapBack ==
  ASSUME NEW S, NEW a \in Seq(S), NEW b \in Seq(S), NEW q \in Seq(S), IsPrefix(a, q)
  PROVE  Swap(b, a, Swap(a, b, q)) = q
<1>0. PICK s, r : s = Swap(a, b, q) /\ r = Swap(b, a, s)
  OBVIOUS
<1>1. /\ s \in Seq(S) /\ Len(s) = Len(b) + (Len(q) - Len(a)) /\ Len(a) <= Len(q)
      /\ \A i \in 1..(Len(q) - Len(a)) : s[Len(b) + i] = q[Len(a) + i]
      /\ IsPrefix(b, s)
  <2>1. s \in Seq(S) /\ Swapped(a, b, q, s)
    BY <1>0, SwapFacts
  <2> QED BY <2>1 DEF Swapped
<1>2. /\ r \in Seq(S) /\ Len(r) = Len(a) + (Len(s) - Len(b))
      /\ \A i \in 1..Len(a) : r[i] = a[i]
      /\ \A i \in 1..(Len(s) - Len(b)) : r[Len(a) + i] = s[Len(b) + i]
  <2>1. r \in Seq(S) /\ Swapped(b, a, s, r)
    BY <1>0, <1>1, SwapFacts
  <2> QED BY <2>1 DEF Swapped
<1>3. Len(a) \in Nat /\ Len(b) \in Nat /\ Len(q) \in Nat /\ Len(s) \in Nat /\ Len(r) = Len(q)
  BY <1>1, <1>2
<1>4. \A i \in 1..Len(a) : a[i] = q[i]
  BY PrefixIff
<1>5. \A i \in 1..Len(q) : r[i] = q[i]
  <2> SUFFICES ASSUME NEW i \in 1..Len(q) PROVE r[i] = q[i]
    OBVIOUS
  <2>1. CASE i <= Len(a)
    <3>1. i \in 1..Len(a)
      BY <2>1, <1>3
    <3> QED BY <3>1, <1>2, <1>4
  <2>2. CASE i > Len(a)
    <3>1. PICK j \in 1..(Len(q) - Len(a)) : i = Len(a) + j
      <4>1. i - Len(a) \in 1..(Len(q) - Len(a)) /\ i = Len(a) + (i - Len(a))
        BY <2>2, <1>3
      <4> QED BY <4>1
    <3>2. Len(s) - Len(b) = Len(q) - Len(a)
      BY <1>1, <1>3
    <3> QED BY <3>1, <3>2, <1>1, <1>2
  <2> QED BY <2>1, <2>2, <1>3
<1>6. r = q
  BY <1>2, <1>3, <1>5, SeqEqual
<1> QED BY <1>0, <1>6

LEMMA SwapSelf ==
  ASSUME NEW S, NEW a \in Seq(S), NEW b \in Seq(S)
  PROVE  IsPrefix(a, a) /\ Swap(a, b, a) = b
<1>1. IsPrefix(a, a) /\ Len(a) \in Nat /\ Len(b) \in Nat
  BY PrefixRefl
<1>0. PICK s : s = Swap(a, b, a)
  OBVIOUS
<1>2. s \in Seq(S) /\ Len(s) = Len(b) + (Len(a) - Len(a)) /\ \A i \in 1..Len(b) : s[i] = b[i]
  <2>1. s \in Seq(S) /\ Swapped(a, b, a, s)
    BY <1>0, <1>1, SwapFacts
  <2> QED BY <2>1 DEF Swapped
<1>3. Len(s) = Len(b)
  BY <1>1, <1>2
<1>4. s = b
  BY <1>2, <1>3, SeqEqual
<1> QED BY <1>0, <1>1, <1>4

LEMMA SwapStays ==
  ASSUME NEW S, NEW a \in Seq(S), NEW q \in Seq(S), IsPrefix(a, q)
  PROVE  Swap(a, a, q) = q
<1>1. PICK s : s = Swap(a, a, q)
  OBVIOUS
<1>2. s \in Seq(S) /\ Swapped(a, a, q, s)
  BY <1>1, SwapFacts
<1>3. Len(a) \in Nat /\ Len(q) \in Nat /\ Len(a) <= Len(q) /\ Len(s) = Len(q)
  BY <1>2 DEF Swapped
<1>4. \A i \in 1..Len(a) : s[i] = q[i]
  <2>1. \A i \in 1..Len(a) : a[i] = q[i]
    BY PrefixIff
  <2> QED BY <1>2, <2>1 DEF Swapped
<1>5. ASSUME NEW i \in 1..Len(q), i > Len(a) PROVE s[i] = q[i]
  <2>1. i - Len(a) \in 1..(Len(q) - Len(a)) /\ Len(a) + (i - Len(a)) = i
    BY <1>3, <1>5
  <2> QED BY <1>2, <2>1 DEF Swapped
<1>6. \A i \in 1..Len(q) : s[i] = q[i]
  BY <1>3, <1>4, <1>5
<1> QED BY <1>1, <1>2, <1>3, <1>6, SeqEqual

LEMMA SwapParent ==
  ASSUME NEW S, NEW a \in Seq(S), NEW b \in Seq(S), NEW q \in Seq(S), IsPrefix(a, q), q # a
  PROVE  /\ IsPrefix(a, Parent(q)) /\ Parent(q) \in Seq(S)
         /\ Parent(Swap(a, b, q)) = Swap(a, b, Parent(q))
<1>1. Len(a) \in Nat /\ Len(q) \in Nat /\ Len(b) \in Nat /\ Len(a) < Len(q) /\ \A i \in 1..Len(a) : a[i] = q[i]
  <2>1. Len(a) <= Len(q) /\ Len(a) # Len(q)
    BY PrefixSame DEF IsPrefix
  <2> QED BY <2>1, PrefixIff
<1> DEFINE f == Parent(q)
<1>2. f \in Seq(S) /\ Len(f) = Len(q) - 1 /\ \A i \in 1..Len(q) - 1 : f[i] = q[i]
  <2>1. q # <<>>
    BY <1>1
  <2> QED BY <2>1, FrontFacts DEF Parent
<1> HIDE DEF f
<1>3. IsPrefix(a, f)
  BY <1>1, <1>2, PrefixIff
<1>0. PICK s, t, g : s = Swap(a, b, q) /\ t = Swap(a, b, f) /\ g = Parent(s)
  OBVIOUS
<1>4. /\ s \in Seq(S) /\ Len(s) = Len(b) + (Len(q) - Len(a))
      /\ \A i \in 1..Len(b) : s[i] = b[i]
      /\ \A i \in 1..(Len(q) - Len(a)) : s[Len(b) + i] = q[Len(a) + i]
  <2>1. s \in Seq(S) /\ Swapped(a, b, q, s)
    BY <1>0, SwapFacts
  <2> QED BY <2>1 DEF Swapped
<1>5. /\ t \in Seq(S) /\ Len(t) = Len(b) + (Len(f) - Len(a))
      /\ \A i \in 1..Len(b) : t[i] = b[i]
      /\ \A i \in 1..(Len(f) - Len(a)) : t[Len(b) + i] = f[Len(a) + i]
  <2>1. t \in Seq(S) /\ Swapped(a, b, f, t)
    BY <1>0, <1>2, <1>3, SwapFacts
  <2> QED BY <2>1 DEF Swapped
<1>6. g \in Seq(S) /\ Len(g) = Len(s) - 1 /\ \A i \in 1..Len(s) - 1 : g[i] = s[i]
  <2>1. s # <<>>
    BY <1>1, <1>4
  <2> QED BY <1>0, <1>4, <2>1, FrontFacts DEF Parent
<1>7. Len(g) = Len(t) /\ Len(g) \in Nat
  BY <1>1, <1>2, <1>4, <1>5, <1>6
<1>8. \A i \in 1..Len(g) : g[i] = t[i]
  <2> SUFFICES ASSUME NEW i \in 1..Len(g) PROVE g[i] = t[i]
    OBVIOUS
  <2>1. g[i] = s[i]
    BY <1>4, <1>6
  <2>2. CASE i <= Len(b)
    <3>1. i \in 1..Len(b)
      BY <2>2, <1>1
    <3> QED BY <3>1, <2>1, <1>4, <1>5
  <2>3. CASE i > Len(b)
    <3>1. PICK j \in Nat : i = Len(b) + j /\ j >= 1
      <4>1. i - Len(b) \in Nat /\ i = Len(b) + (i - Len(b)) /\ i - Len(b) >= 1
        BY <2>3, <1>1, <1>7
      <4> QED BY <4>1
    <3>2. j \in 1..(Len(q) - Len(a)) /\ j \in 1..(Len(f) - Len(a)) /\ Len(a) + j \in 1..(Len(q) - 1)
      BY <3>1, <1>1, <1>2, <1>5, <1>7
    <3>3. s[i] = q[Len(a) + j] /\ t[i] = f[Len(a) + j] /\ f[Len(a) + j] = q[Len(a) + j]
      BY <3>1, <3>2, <1>2, <1>4, <1>5
    <3> QED BY <2>1, <3>3
  <2> QED BY <2>2, <2>3, <1>1
<1>9. g = t
  BY <1>5, <1>6, <1>7, <1>8, SeqEqual
<1> QED BY <1>0, <1>2, <1>3, <1>9 DEF f
LEMMA SameNumber ==
  ASSUME NEW S, NEW T, IsFiniteSet(S), NEW f \in [S -> T],
         \A x, y \in S : f[x] = f[y] => x = y, \A y \in T : \E x \in S : f[x] = y
  PROVE  IsFiniteSet(T) /\ Cardinality(T) = Cardinality(S)
<1>1. f \in Bijection(S, T)
  BY DEF Bijection, Injection, Surjection, IsInjective
<1>2. ExistsBijection(S, T)
  BY <1>1 DEF ExistsBijection
<1> QED BY <1>2, FS_Bijection

\* fs::rename: the entries below one path go below the other, in the place of
\* what was there.
MoveTree(tree, from, to) ==
  LET rest == Without(tree, to)
      moved == {q \in DOMAIN rest : IsPrefix(from, q)}
      new == {Swap(from, to, q) : q \in moved}
  IN [q \in (DOMAIN rest \ moved) \cup new |-> IF q \in new THEN rest[Swap(to, from, q)] ELSE rest[q]]

CanMove(tree, from, to) ==
  /\ NamedTree(tree) /\ IsFiniteSet(DOMAIN tree)
  /\ IsSequence(from) /\ from # Root /\ Exists(tree, from)
  /\ IsSequence(to) /\ to # Root /\ IsDir(tree, Parent(to))
  /\ from # to /\ ~IsPrefix(from, to)
  /\ Exists(tree, to) => IF IsDir(tree, from) THEN IsEmptyDir(tree, to) ELSE ~IsDir(tree, to)

LEMMA MoveApart ==
  ASSUME NEW tree, NEW from, NEW to, CanMove(tree, from, to)
  PROVE  /\ ~IsPrefix(to, from)
         /\ \A q \in DOMAIN tree : ~(IsPrefix(from, q) /\ IsPrefix(to, q))
<1>1. ~IsPrefix(to, from)
  <2> SUFFICES ASSUME IsPrefix(to, from) PROVE FALSE
    OBVIOUS
  <2>1. IsDir(tree, to)
    BY AboveIsDirectory DEF CanMove, Exists
  <2>2. IsEmptyDir(tree, to)
    BY <2>1 DEF CanMove, IsDir
  <2>3. Below(tree, to) \subseteq {to}
    BY <2>2, BelowOthers DEF CanMove, IsEmptyDir
  <2> QED BY <2>3 DEF Below, CanMove, Exists
<1>2. ASSUME NEW q \in DOMAIN tree, IsPrefix(from, q), IsPrefix(to, q) PROVE FALSE
  <2>1. PICK S : from \in Seq(S) /\ to \in Seq(S) /\ \A x \in DOMAIN tree : x \in Seq(S)
    BY ToNames DEF CanMove
  <2>2. IsPrefix(from, to) \/ IsPrefix(to, from)
    BY <1>2, <2>1, PrefixesCompare
  <2> QED BY <1>1, <2>2 DEF CanMove
<1> QED BY <1>1, <1>2

LEMMA MoveFacts ==
  ASSUME NEW tree, NEW from, NEW to, CanMove(tree, from, to), NEW after, after = MoveTree(tree, from, to)
  PROVE  /\ NamedTree(after) /\ IsFiniteSet(DOMAIN after)
         /\ from \notin DOMAIN after /\ to \in DOMAIN after /\ after[to] = tree[from]
         /\ \A q \in Below(tree, from) :
              Swap(from, to, q) \in DOMAIN after /\ after[Swap(from, to, q)] = tree[q]
         /\ Cardinality(DOMAIN after) = Cardinality(DOMAIN Without(tree, to))
         /\ \A q \in DOMAIN tree :
              ~IsPrefix(from, q) /\ ~IsPrefix(to, q) => q \in DOMAIN after /\ after[q] = tree[q]
<1>1. PICK S : from \in Seq(S) /\ to \in Seq(S) /\ \A x \in DOMAIN tree : x \in Seq(S)
  BY ToNames DEF CanMove
<1>2. PICK rest : rest = Without(tree, to)
  OBVIOUS
<1>3. /\ DOMAIN rest = {q \in DOMAIN tree : ~IsPrefix(to, q)}
      /\ \A q \in DOMAIN rest : rest[q] = tree[q] /\ q \in Seq(S) /\ ~IsPrefix(to, q) /\ q \in DOMAIN tree
  BY <1>1, <1>2, WithoutFacts
<1>4. NamedTree(rest) /\ IsFiniteSet(DOMAIN rest)
  BY <1>2, WithoutIsTree DEF CanMove
<1>5. PICK moved : moved = {q \in DOMAIN rest : IsPrefix(from, q)}
  OBVIOUS
<1>6. moved = Below(tree, from)
  BY <1>3, <1>5, MoveApart DEF Below
<1>7. from \in moved
  BY <1>1, <1>6, PrefixRefl DEF Below, CanMove, Exists
<1>8. PICK new : new = {Swap(from, to, q) : q \in moved}
  OBVIOUS
<1>9. ASSUME NEW q \in moved
      PROVE  /\ Swap(from, to, q) \in Seq(S) /\ IsPrefix(to, Swap(from, to, q)) /\ Swap(from, to, q) \in new
             /\ Swap(to, from, Swap(from, to, q)) = q
  <2>1. q \in Seq(S) /\ IsPrefix(from, q)
    BY <1>3, <1>5
  <2>2. Swap(from, to, q) \in Seq(S) /\ Swapped(from, to, q, Swap(from, to, q))
    BY <1>1, <2>1, SwapFacts
  <2>3. Swap(to, from, Swap(from, to, q)) = q
    BY <1>1, <2>1, SwapBack
  <2> QED BY <1>8, <2>2, <2>3 DEF Swapped
<1>10. \A n \in new : IsPrefix(to, n) /\ n \in Seq(S) /\ n \notin DOMAIN rest /\ Swap(to, from, n) \in moved
                       /\ Swap(from, to, Swap(to, from, n)) = n
  <2> SUFFICES ASSUME NEW q \in moved, NEW n, n = Swap(from, to, q)
               PROVE  IsPrefix(to, n) /\ n \in Seq(S) /\ n \notin DOMAIN rest /\ Swap(to, from, n) \in moved
                      /\ Swap(from, to, Swap(to, from, n)) = n
    BY <1>8
  <2> QED BY <1>3, <1>9
<1>11. after = [q \in (DOMAIN rest \ moved) \cup new |-> IF q \in new THEN rest[Swap(to, from, q)] ELSE rest[q]]
  BY <1>2, <1>5, <1>8 DEF MoveTree
<1>12. /\ DOMAIN after = (DOMAIN rest \ moved) \cup new
       /\ \A q \in new : after[q] = rest[Swap(to, from, q)]
       /\ \A q \in DOMAIN rest \ moved : after[q] = rest[q] /\ q \notin new
  BY <1>10, <1>11
<1>13. to \in new /\ Swap(to, from, to) = from
  <2>1. Swap(from, to, from) = to /\ Swap(to, from, to) = from
    BY <1>1, SwapSelf
  <2> QED BY <2>1, <1>7, <1>9
<1>14. to \in DOMAIN after /\ after[to] = tree[from]
  BY <1>3, <1>5, <1>7, <1>12, <1>13
<1>15. from \notin DOMAIN after
  BY <1>7, <1>10, <1>12, MoveApart
<1>16. \A q \in DOMAIN tree :
         ~IsPrefix(from, q) /\ ~IsPrefix(to, q) => q \in DOMAIN after /\ after[q] = tree[q]
  BY <1>3, <1>5, <1>12
<1>17. ASSUME NEW q \in Below(tree, from)
       PROVE  Swap(from, to, q) \in DOMAIN after /\ after[Swap(from, to, q)] = tree[q]
  <2>1. q \in moved
    BY <1>6
  <2>2. Swap(from, to, q) \in new /\ Swap(to, from, Swap(from, to, q)) = q
    BY <1>9, <2>1
  <2>3. after[Swap(from, to, q)] = rest[q] /\ rest[q] = tree[q]
    BY <1>3, <1>5, <1>12, <2>1, <2>2
  <2> QED BY <1>12, <2>2, <2>3
<1>19. IsFiniteSet(DOMAIN after) /\ Cardinality(DOMAIN after) = Cardinality(DOMAIN rest)
  <2> DEFINE f == [q \in DOMAIN rest |-> IF q \in moved THEN Swap(from, to, q) ELSE q]
  <2>1. f \in [DOMAIN rest -> DOMAIN after]
    BY <1>9, <1>12
  <2>2. ASSUME NEW x \in DOMAIN rest, NEW y \in DOMAIN rest, f[x] = f[y] PROVE x = y
    <3>1. CASE x \in moved /\ y \in moved
      <4>1. Swap(from, to, x) = Swap(from, to, y)
        BY <2>2, <3>1
      <4> QED BY <4>1, <3>1, <1>9
    <3>2. CASE x \in moved /\ y \notin moved
      <4>1. Swap(from, to, x) = y
        BY <2>2, <3>2
      <4> QED BY <4>1, <3>2, <1>9, <1>10
    <3>3. CASE x \notin moved /\ y \in moved
      <4>1. Swap(from, to, y) = x
        BY <2>2, <3>3
      <4> QED BY <4>1, <3>3, <1>9, <1>10
    <3>4. CASE x \notin moved /\ y \notin moved
      BY <2>2, <3>4
    <3> QED BY <3>1, <3>2, <3>3, <3>4
  <2>3. ASSUME NEW y \in DOMAIN after PROVE \E x \in DOMAIN rest : f[x] = y
    <3>1. CASE y \in new
      <4>1. PICK x \in moved : y = Swap(from, to, x)
        BY <3>1, <1>8
      <4>2. x \in DOMAIN rest /\ f[x] = y
        BY <4>1, <1>5
      <4> QED BY <4>2
    <3>2. CASE y \in DOMAIN rest \ moved
      <4>1. f[y] = y
        BY <3>2
      <4> QED BY <4>1, <3>2
    <3> QED BY <3>1, <3>2, <1>12
  <2> HIDE DEF f
  <2> QED BY <2>1, <2>2, <2>3, <1>4, SameNumber
<1>20. IsTree(after)
  <2>1. Root \in Seq(S) /\ Len(from) > 0 /\ Len(to) > 0
    BY <1>1 DEF Root, CanMove
  <2>2. ~IsPrefix(from, Root) /\ ~IsPrefix(to, Root)
    BY <2>1 DEF IsPrefix, Root
  <2>3. IsDir(after, Root)
    BY <2>2, <1>16 DEF CanMove, NamedTree, IsTree, IsDir, Exists
  <2>4. ASSUME NEW q \in DOMAIN after, q # Root PROVE IsDir(after, Parent(q))
    <3>1. CASE q \in DOMAIN rest \ moved
      <4>1. q \in DOMAIN tree /\ q \in Seq(S) /\ ~IsPrefix(to, q) /\ ~IsPrefix(from, q)
        BY <3>1, <1>3, <1>5
      <4>2. IsDir(tree, Parent(q))
        BY <4>1, <2>4 DEF CanMove, NamedTree, IsTree
      <4>3. Parent(q) \in Seq(S) /\ IsPrefix(Parent(q), q)
        BY <4>1, <2>4, ParentAndLast
      <4>4. ~IsPrefix(to, Parent(q)) /\ ~IsPrefix(from, Parent(q))
        BY <1>1, <4>1, <4>3, PrefixTrans
      <4> QED BY <4>2, <4>4, <1>16 DEF IsDir, Exists
    <3>2. CASE q = to
      <4>1. IsDir(tree, Parent(to)) /\ Parent(to) \in Seq(S) /\ IsPrefix(Parent(to), to) /\ Len(Parent(to)) = Len(to) - 1
        BY <1>1, ParentAndLast DEF CanMove
      <4>2. ~IsPrefix(from, Parent(to))
        BY <1>1, <4>1, PrefixTrans DEF CanMove
      <4>3. ~IsPrefix(to, Parent(to))
        BY <1>1, <4>1 DEF IsPrefix
      <4> QED BY <3>2, <4>1, <4>2, <4>3, <1>16 DEF IsDir, Exists
    <3>3. CASE q \in new /\ q # to
      <4>1. PICK x \in moved : q = Swap(from, to, x)
        BY <3>3, <1>8
      <4>2. x \in Seq(S) /\ IsPrefix(from, x) /\ x \in DOMAIN rest
        BY <4>1, <1>3, <1>5
      <4>3. x # from
        BY <3>3, <4>1, <1>1, SwapSelf
      <4>4. /\ IsPrefix(from, Parent(x)) /\ Parent(x) \in Seq(S)
            /\ Parent(q) = Swap(from, to, Parent(x))
        BY <1>1, <4>1, <4>2, <4>3, SwapParent
      <4>5. x # Root
        BY <2>2, <4>2
      <4>6. IsDir(rest, Parent(x))
        BY <1>4, <4>2, <4>5 DEF NamedTree, IsTree
      <4>7. Parent(x) \in moved
        BY <1>5, <4>4, <4>6 DEF IsDir, Exists
      <4>8. Parent(q) \in new /\ Swap(to, from, Parent(q)) = Parent(x)
        BY <4>4, <4>7, <1>9
      <4>9. after[Parent(q)] = rest[Parent(x)] /\ Parent(q) \in DOMAIN after
        BY <4>8, <1>12
      <4> QED BY <4>6, <4>9 DEF IsDir, Exists
    <3> QED BY <3>1, <3>2, <3>3, <1>12
  <2> QED BY <2>3, <2>4 DEF IsTree
<1>21. \A q \in DOMAIN after : IsSequence(q)
  <2>1. \A q \in DOMAIN after : q \in Seq(S)
    BY <1>3, <1>10, <1>12
  <2> QED BY <2>1, InSeqIsSequence
<1> QED BY <1>14, <1>15, <1>16, <1>17, <1>19, <1>20, <1>21, <1>2 DEF NamedTree

-----------------------------------------------------------------------------
(***************************************************************************)
(* What one call does to a tree.                                           *)
(***************************************************************************)

IsFinite(t) == NamedTree(t) /\ IsFiniteSet(DOMAIN t)

MissingIn(t, p) == {q \in {SubSeq(p, 1, n) : n \in 1..Len(p)} : ~Exists(t, q)}
Made(t, p) == [q \in DOMAIN t \cup MissingIn(t, p) |-> IF Exists(t, q) THEN t[q] ELSE Dir(Theirs)]
CanMake(t, p, parents) ==
  IF parents
    THEN \A n \in 0..Len(p) - 1 :
           LET q == SubSeq(p, 1, n) IN Exists(t, q) => IsDir(t, q)
    ELSE CanAdd(t, p)

LEMMA BeginningOf ==
  ASSUME NEW S, NEW p \in Seq(S), NEW n \in 0..Len(p)
  PROVE  /\ SubSeq(p, 1, n) \in Seq(S) /\ Len(SubSeq(p, 1, n)) = n
         /\ IsPrefix(SubSeq(p, 1, n), p)
         /\ n # 0 => Parent(SubSeq(p, 1, n)) = SubSeq(p, 1, n - 1)
<1>1. Len(p) \in Nat
  OBVIOUS
<1>2. PICK s, b : s = SubSeq(p, 1, n) /\ b = SubSeq(p, 1, n - 1)
  OBVIOUS
<1>3. s \in Seq(S) /\ Len(s) = n /\ \A i \in 1..n : s[i] = p[i]
  BY <1>1, <1>2
<1>4. IsPrefix(s, p)
  BY <1>1, <1>3, PrefixIff
<1>5. ASSUME n # 0 PROVE Parent(s) = b
  <2>1. b \in Seq(S) /\ Len(b) = n - 1 /\ \A i \in 1..n - 1 : b[i] = p[i]
    BY <1>1, <1>2, <1>5
  <2>2. Front(s) \in Seq(S) /\ Len(Front(s)) = n - 1 /\ \A i \in 1..n - 1 : Front(s)[i] = s[i]
    <3>1. s # <<>>
      BY <1>3, <1>5
    <3> QED BY <3>1, <1>3, FrontFacts
  <2>3. Front(s) = b
    BY <1>3, <2>1, <2>2, SeqEqual
  <2> QED BY <2>3 DEF Parent
<1> QED BY <1>2, <1>3, <1>4, <1>5

LEMMA WholeBeginning ==
  ASSUME NEW S, NEW p \in Seq(S)
  PROVE  SubSeq(p, 1, Len(p)) = p /\ SubSeq(p, 1, 0) = Root
BY DEF Root

\* create_directory: the tree stays one, and nothing of it is lost; without
\* parents there is one entry more.
LEMMA MakingDirectories ==
  ASSUME NEW t, IsFinite(t), NEW p, IsSequence(p), NEW parents \in BOOLEAN, CanMake(t, p, parents),
         NEW after, after = Made(t, p)
  PROVE  /\ IsFinite(after)
         /\ \A q \in DOMAIN t : q \in DOMAIN after /\ after[q] = t[q]
         /\ ~parents => Cardinality(DOMAIN after) = Cardinality(DOMAIN t) + 1
<1>1. PICK S : p \in Seq(S)
  BY DEF IsSequence
<1>2. Len(p) \in Nat
  BY <1>1
<1>3. PICK missing : missing = MissingIn(t, p)
  OBVIOUS
<1>4. \A q \in missing : q \notin DOMAIN t /\ q \in Seq(S) /\ \E n \in 1..Len(p) : q = SubSeq(p, 1, n)
  <2> SUFFICES ASSUME NEW n \in 1..Len(p), SubSeq(p, 1, n) \in missing
               PROVE  SubSeq(p, 1, n) \notin DOMAIN t /\ SubSeq(p, 1, n) \in Seq(S)
    BY <1>3 DEF MissingIn
  <2> QED BY <1>1, <1>2, <1>3, BeginningOf DEF MissingIn, Exists
<1>5. /\ DOMAIN after = DOMAIN t \cup missing
      /\ \A q \in DOMAIN t : after[q] = t[q]
      /\ \A q \in missing : after[q].kind = "dir"
  BY <1>3, <1>4 DEF Made, Exists, Dir
<1>6. \A q : IsDir(t, q) => IsDir(after, q)
  BY <1>5 DEF IsDir, Exists
<1>7. IsFiniteSet(missing)
  <2> DEFINE T == {SubSeq(p, 1, n) : n \in 1..Len(p)}
             f == [n \in 1..Len(p) |-> SubSeq(p, 1, n)]
  <2>1. f \in Surjection(1..Len(p), T)
    BY DEF Surjection
  <2>2. IsFiniteSet(1..Len(p))
    BY <1>2, FS_Interval
  <2> HIDE DEF f, T
  <2>3. IsFiniteSet(T)
    BY <2>1, <2>2, FS_Surjection
  <2>4. missing \subseteq T
    BY <1>3 DEF MissingIn, T
  <2> QED BY <2>3, <2>4, FS_Subset
<1>8. IsFiniteSet(DOMAIN after)
  BY <1>5, <1>7, FS_Union DEF IsFinite
<1>9. ~parents => missing = {p} /\ p \notin DOMAIN t
  <2> SUFFICES ASSUME ~parents PROVE missing = {p} /\ p \notin DOMAIN t
    OBVIOUS
  <2>1. p # Root /\ p \notin DOMAIN t /\ IsDir(t, Parent(p))
    BY DEF CanMake, CanAdd, Exists
  <2>2. Parent(p) \in Seq(S) /\ Len(Parent(p)) = Len(p) - 1 /\ IsPrefix(Parent(p), p) /\ Len(p) > 0
    BY <1>1, <2>1, ParentAndLast
  <2>3. ASSUME NEW n \in 1..Len(p) - 1 PROVE SubSeq(p, 1, n) \in DOMAIN t
    <3>1. PICK b : b = SubSeq(p, 1, n)
      OBVIOUS
    <3>2. b \in Seq(S) /\ Len(b) = n /\ IsPrefix(b, p)
      BY <1>1, <1>2, <3>1, BeginningOf
    <3>3. IsPrefix(b, Parent(p)) \/ IsPrefix(Parent(p), b)
      BY <1>1, <2>2, <3>2, PrefixesCompare
    <3>4. IsPrefix(b, Parent(p))
      <4>1. CASE IsPrefix(Parent(p), b)
        <5>1. Len(b) = Len(Parent(p))
          BY <1>2, <2>2, <3>2, <4>1 DEF IsPrefix
        <5>2. Parent(p) = b
          BY <2>2, <3>2, <4>1, <5>1, PrefixSame
        <5> QED BY <3>2, <5>2, PrefixRefl
      <4> QED BY <3>3, <4>1
    <3>5. Parent(p) \in DOMAIN t /\ IsSequence(b)
      BY <2>1, <3>2, InSeqIsSequence DEF IsDir, Exists
    <3>6. b # Parent(p) => IsDir(t, b)
      BY <3>4, <3>5, AboveIsDirectory DEF IsFinite
    <3> QED BY <3>1, <3>5, <3>6 DEF IsDir, Exists
  <2>4. p \in missing
    <3>1. p = SubSeq(p, 1, Len(p)) /\ Len(p) \in 1..Len(p)
      BY <1>1, <1>2, <2>2, WholeBeginning
    <3> QED BY <1>3, <2>1, <3>1 DEF MissingIn, Exists
  <2>5. ASSUME NEW q \in missing PROVE q = p
    <3>1. PICK n \in 1..Len(p) : q = SubSeq(p, 1, n)
      BY <1>4
    <3>2. n = Len(p)
      BY <1>2, <1>4, <2>3, <3>1
    <3> QED BY <1>1, <3>1, <3>2, WholeBeginning
  <2> QED BY <2>1, <2>4, <2>5
<1>10. ~parents => Cardinality(DOMAIN after) = Cardinality(DOMAIN t) + 1
  BY <1>5, <1>9, FS_AddElement DEF IsFinite
<1>12. IsTree(after)
  <2>1. IsDir(after, Root)
    BY <1>6 DEF IsFinite, NamedTree, IsTree
  <2>2. ASSUME NEW q \in DOMAIN after, q # Root PROVE IsDir(after, Parent(q))
    <3>1. CASE q \in DOMAIN t
      BY <1>6, <2>2, <3>1 DEF IsFinite, NamedTree, IsTree
    <3>2. CASE q \in missing
      <4>1. PICK n \in 1..Len(p) : q = SubSeq(p, 1, n)
        BY <1>4, <3>2
      <4>2. PICK b : b = SubSeq(p, 1, n - 1)
        OBVIOUS
      <4>3. Parent(q) = b
        BY <1>1, <1>2, <4>1, <4>2, BeginningOf
      <4>4. CASE Exists(t, b)
        <5>1. IsDir(t, b)
          <6>1. CASE parents
            BY <1>2, <4>2, <4>4, <6>1 DEF CanMake
          <6>2. CASE ~parents
            <7>1. q = p /\ IsDir(t, Parent(p))
              BY <1>9, <3>2, <6>2 DEF CanMake, CanAdd
            <7> QED BY <4>3, <7>1
          <6> QED BY <6>1, <6>2
        <5> QED BY <1>6, <4>3, <5>1
      <4>5. CASE ~Exists(t, b)
        <5>1. n # 1
          <6>1. b = Root => Exists(t, b)
            BY DEF IsFinite, NamedTree, IsTree, IsDir
          <6> QED BY <1>1, <4>2, <4>5, <6>1, WholeBeginning
        <5>2. n - 1 \in 1..Len(p)
          BY <1>2, <5>1
        <5>3. b \in missing
          BY <1>3, <4>2, <4>5, <5>2 DEF MissingIn
        <5> QED BY <1>5, <4>3, <5>3 DEF IsDir, Exists
      <4> QED BY <4>4, <4>5
    <3> QED BY <1>5, <3>1, <3>2
  <2> QED BY <2>1, <2>2 DEF IsTree
<1>13. \A q \in DOMAIN after : IsSequence(q)
  BY <1>4, <1>5, InSeqIsSequence DEF IsFinite, NamedTree
<1> QED BY <1>5, <1>8, <1>10, <1>12, <1>13 DEF IsFinite, NamedTree

-----------------------------------------------------------------------------
(***************************************************************************)
(* What a call of the local adapter leaves of the tree it was made on.     *)
(***************************************************************************)

FollowsIn(t, p) == Exists(t, p) /\ (t[p].kind = "link" => Exists(t, t[p].of))
Lost(t, was) == {q \in DOMAIN was : ~Exists(t, q) \/ t[q] # was[q]}

\* OthersKept and OneDirectory of a call, the tree and the one before.
Kept(c, t, was) ==
  /\ \A q \in Lost(t, was) : IsPrefix(c.path, q) \/ (c.op = "rename" /\ IsPrefix(c.to, q))
  /\ c.op = "mkdir" => Lost(t, was) = {}
  /\ c.op = "remove" /\ ~c.flag => Lost(t, was) \subseteq {c.path}
  /\ c.op = "rename" /\ ~c.flag => Cardinality(DOMAIN t) >= Cardinality(DOMAIN was) - 1
  /\ c.op = "rename" /\ ~c.flag /\ Exists(was, c.to) /\ was[c.to].kind # "link" => c.to \notin Lost(t, was)
  /\ c.op = "mkdir" /\ ~c.flag => Cardinality(DOMAIN t) <= Cardinality(DOMAIN was) + 1

IsCall(c) ==
  /\ c.op \in {"mkdir", "remove", "rename"} /\ c.flag \in BOOLEAN
  /\ IsSequence(c.path) /\ IsSequence(c.to)
  /\ c.op # "rename" => c.to = c.path

StepOf(c, at) ==
  /\ at \in IF c.op = "rename" THEN {"look", "clear", "rename", "done"} ELSE {c.op, "done"}
  /\ at = "clear" => c.flag

\* The tree is the one of the call until the one change is made, except that a
\* rename with overwrite has cleared its way.
Untouched(c, at, t, was) ==
  \/ t = was /\ (at = "rename" /\ ~c.flag => ~FollowsIn(was, c.to))
  \/ at = "rename" /\ c.flag /\ t = Without(was, c.to)

LEMMA NothingLost ==
  ASSUME NEW c, NEW was, IsFinite(was)
  PROVE  Kept(c, was, was)
<1>1. Lost(was, was) = {}
  BY DEF Lost, Exists
<1>2. Cardinality(DOMAIN was) \in Nat
  BY FS_CardinalityType DEF IsFinite
<1> QED BY <1>1, <1>2 DEF Kept

LEMMA LostWithout ==
  ASSUME NEW was, NEW p
  PROVE  Lost(Without(was, p), was) = Below(was, p)
<1>1. PICK t : t = Without(was, p)
  OBVIOUS
<1>2. DOMAIN t = {q \in DOMAIN was : ~IsPrefix(p, q)} /\ \A q \in DOMAIN t : t[q] = was[q]
  BY <1>1, WithoutFacts
<1> QED BY <1>1, <1>2 DEF Lost, Below, Exists

\* remove, also when it breaks off, and the first half of a rename with
\* overwrite: what is below one of the paths of the call.
LEMMA RemovingKeeps ==
  ASSUME NEW c, IsCall(c), NEW was, IsFinite(was), NEW p, IsSequence(p),
         \/ c.op = "remove" /\ IsPrefix(c.path, p)
         \/ c.op = "rename" /\ c.flag /\ IsPrefix(c.to, p),
         c.op = "remove" /\ ~c.flag => Below(was, p) \subseteq {c.path}
  PROVE  Kept(c, Without(was, p), was)
<1>1. PICK t : t = Without(was, p)
  OBVIOUS
<1>2. Lost(t, was) = Below(was, p)
  BY <1>1, LostWithout
<1>3. ASSUME NEW q \in Lost(t, was)
      PROVE  IsPrefix(c.path, q) \/ (c.op = "rename" /\ IsPrefix(c.to, q))
  <2>1. q \in DOMAIN was /\ IsPrefix(p, q) /\ IsSequence(q)
    BY <1>2 DEF Below, IsFinite, NamedTree
  <2>2. PICK S : p \in Seq(S) /\ c.path \in Seq(S) /\ \A x \in DOMAIN was : x \in Seq(S)
    BY ToNames DEF IsCall, IsFinite
  <2>3. PICK U : p \in Seq(U) /\ c.to \in Seq(U) /\ \A x \in DOMAIN was : x \in Seq(U)
    BY ToNames DEF IsCall, IsFinite
  <2>4. CASE c.op = "remove" /\ IsPrefix(c.path, p)
    BY <2>1, <2>2, <2>4, PrefixTrans
  <2>5. CASE c.op = "rename" /\ c.flag /\ IsPrefix(c.to, p)
    BY <2>1, <2>3, <2>5, PrefixTrans
  <2> QED BY <2>4, <2>5
<1> QED BY <1>1, <1>2, <1>3 DEF Kept

\* create_directory, also when it breaks off above its path.
LEMMA MakingKeeps ==
  ASSUME NEW c, IsCall(c), c.op = "mkdir", NEW was, IsFinite(was),
         NEW p, IsSequence(p), CanMake(was, p, c.flag), NEW after, after = Made(was, p)
  PROVE  Kept(c, after, was)
<1>1. /\ \A q \in DOMAIN was : q \in DOMAIN after /\ after[q] = was[q]
      /\ ~c.flag => Cardinality(DOMAIN after) = Cardinality(DOMAIN was) + 1
  BY MakingDirectories DEF IsCall
<1>2. Lost(after, was) = {}
  BY <1>1 DEF Lost, Exists
<1>3. Cardinality(DOMAIN was) \in Nat
  BY FS_CardinalityType DEF IsFinite
<1> QED BY <1>1, <1>2, <1>3 DEF Kept

\* rename: without overwrite there was no more than a link to nothing in its
\* way.
LEMMA RenamingKeeps ==
  ASSUME NEW c, IsCall(c), c.op = "rename", NEW t, NEW was, IsFinite(was), Untouched(c, "rename", t, was),
         CanMove(t, c.path, c.to), NEW after, after = MoveTree(t, c.path, c.to)
  PROVE  Kept(c, after, was)
<1>1. /\ Cardinality(DOMAIN after) = Cardinality(DOMAIN Without(t, c.to))
      /\ \A q \in DOMAIN t :
           ~IsPrefix(c.path, q) /\ ~IsPrefix(c.to, q) => q \in DOMAIN after /\ after[q] = t[q]
  <2>1. PICK from, to : from = c.path /\ to = c.to
    OBVIOUS
  <2>2. CanMove(t, from, to) /\ after = MoveTree(t, from, to)
    BY <2>1
  <2>3. /\ Cardinality(DOMAIN after) = Cardinality(DOMAIN Without(t, to))
        /\ \A q \in DOMAIN t :
             ~IsPrefix(from, q) /\ ~IsPrefix(to, q) => q \in DOMAIN after /\ after[q] = t[q]
    BY <2>2, MoveFacts
  <2> QED BY <2>1, <2>3
<1>2. ASSUME NEW q \in Lost(after, was), ~IsPrefix(c.path, q), ~IsPrefix(c.to, q) PROVE FALSE
  <2>1. q \in DOMAIN was /\ (q \notin DOMAIN after \/ after[q] # was[q])
    BY DEF Lost, Exists
  <2>2. q \in DOMAIN t /\ t[q] = was[q]
    <3>1. CASE t = was
      BY <2>1, <3>1
    <3>2. CASE t = Without(was, c.to)
      BY <1>2, <2>1, <3>2, WithoutFacts
    <3> QED BY <3>1, <3>2 DEF Untouched
  <2> QED BY <1>1, <1>2, <2>1, <2>2
<1>3. ASSUME ~c.flag
      PROVE  /\ Cardinality(DOMAIN after) >= Cardinality(DOMAIN was) - 1
             /\ ~(Exists(was, c.to) /\ was[c.to].kind # "link")
  <2>1. t = was /\ ~FollowsIn(was, c.to)
    BY <1>3 DEF Untouched
  <2>2. ~(Exists(was, c.to) /\ was[c.to].kind # "link")
    BY <2>1 DEF FollowsIn
  <2>3. ~IsDir(was, c.to)
    BY <2>2 DEF IsDir
  <2>4. Below(was, c.to) \subseteq {c.to}
    <3>1. NamedTree(was) /\ IsSequence(c.to)
      BY DEF IsFinite, IsCall
    <3> QED BY <2>3, <3>1, BelowOthers
  <2>5. DOMAIN was \ {c.to} \in SUBSET DOMAIN Without(was, c.to)
    <3>1. DOMAIN Without(was, c.to) = {q \in DOMAIN was : ~IsPrefix(c.to, q)}
      BY WithoutFacts
    <3>2. \A q \in DOMAIN was : q # c.to => ~IsPrefix(c.to, q)
      BY <2>4 DEF Below
    <3> QED BY <3>1, <3>2
  <2>6. IsFiniteSet(DOMAIN Without(was, c.to))
    <3>1. DOMAIN Without(was, c.to) \in SUBSET DOMAIN was
      BY WithoutFacts
    <3> QED BY <3>1, FS_Subset DEF IsFinite
  <2>7. Cardinality(DOMAIN was \ {c.to}) <= Cardinality(DOMAIN Without(was, c.to))
    BY <2>5, <2>6, FS_Subset
  <2>8. /\ Cardinality(DOMAIN was \ {c.to}) >= Cardinality(DOMAIN was) - 1
        /\ Cardinality(DOMAIN was \ {c.to}) \in Nat /\ Cardinality(DOMAIN was) \in Nat
    <3>1. IsFiniteSet(DOMAIN was)
      BY DEF IsFinite
    <3>2. Cardinality(DOMAIN was) \in Nat
      BY <3>1, FS_CardinalityType
    <3>3. /\ IsFiniteSet(DOMAIN was \ {c.to})
          /\ Cardinality(DOMAIN was \ {c.to}) =
               IF c.to \in DOMAIN was THEN Cardinality(DOMAIN was) - 1 ELSE Cardinality(DOMAIN was)
      BY <3>1, FS_RemoveElement
    <3>4. Cardinality(DOMAIN was \ {c.to}) \in Nat
      BY <3>3, FS_CardinalityType
    <3> QED BY <3>2, <3>3, <3>4
  <2>9. Cardinality(DOMAIN Without(was, c.to)) \in Nat
    BY <2>6, FS_CardinalityType
  <2> QED BY <1>1, <2>1, <2>2, <2>7, <2>8, <2>9
<1> QED BY <1>2, <1>3 DEF Kept

-----------------------------------------------------------------------------
\* The adapter speaks of the same trees.
LEMMA SameFiles ==
  ASSUME NEW t, NEW p, NEW q, NEW entry
  PROVE  /\ Adapter!IsTree(t) = IsTree(t) /\ Adapter!Root = Root
         /\ Adapter!Exists(t, p) = Exists(t, p) /\ Adapter!IsDir(t, p) = IsDir(t, p)
         /\ Adapter!CanAdd(t, p) = CanAdd(t, p) /\ Adapter!IsEmptyDir(t, p) = IsEmptyDir(t, p)
         /\ Adapter!With(t, p, entry) = With(t, p, entry)
         /\ Adapter!Without(t, p) = Without(t, p) /\ Adapter!Below(t, p) = Below(t, p)
         /\ Adapter!IsPrefix(p, q) = IsPrefix(p, q) /\ Adapter!Parent(p) = Parent(p)
<1>1. \A r, s : Adapter!IsPrefix(r, s) = IsPrefix(r, s)
  BY DEF Adapter!IsPrefix, IsPrefix
<1>2. Adapter!Root = Root /\ \A r : Adapter!Parent(r) = Parent(r)
  BY DEF Adapter!Root, Root, Adapter!Parent, Parent, Adapter!Front, Front
<1>3. \A r : Adapter!Exists(t, r) = Exists(t, r) /\ Adapter!IsDir(t, r) = IsDir(t, r)
  BY DEF Adapter!Exists, Exists, Adapter!IsDir, IsDir
<1>4. Adapter!Below(t, p) = Below(t, p)
  BY <1>1 DEF Adapter!Below, Below
<1>5. Adapter!IsTree(t) = IsTree(t)
  BY <1>2, <1>3 DEF Adapter!IsTree, IsTree
<1>6. Adapter!CanAdd(t, p) = CanAdd(t, p)
  BY <1>2, <1>3 DEF Adapter!CanAdd, CanAdd
<1>7. Adapter!IsEmptyDir(t, p) = IsEmptyDir(t, p)
  BY <1>3, <1>4 DEF Adapter!IsEmptyDir, IsEmptyDir, Adapter!Children, Children
<1>8. Adapter!With(t, p, entry) = With(t, p, entry)
  BY DEF Adapter!With, With
<1>9. Adapter!Without(t, p) = Without(t, p)
  BY <1>4 DEF Adapter!Without, Without
<1> QED BY <1>1, <1>2, <1>3, <1>4, <1>5, <1>6, <1>7, <1>8, <1>9

LEMMA SameSize ==
  ASSUME NEW S
  PROVE  Adapter!Cardinality(S) = Cardinality(S)
BY DEF Adapter!Cardinality, Cardinality

LEMMA AdapterReads ==
  ASSUME NEW p
  PROVE  /\ Adapter!IsRealDir(p) = IsDir(localTree, p)
         /\ Adapter!Follows(p) = FollowsIn(localTree, p)
         /\ Adapter!WithDirectories(p) = Made(localTree, p)
         /\ Adapter!DirectoriesAbove(p) = CanMake(localTree, p, TRUE)
<1>1. \A r : Adapter!Exists(localTree, r) = Exists(localTree, r)
  BY DEF Adapter!Exists, Exists
<1>2. Adapter!IsRealDir(p) = IsDir(localTree, p)
  BY DEF Adapter!IsRealDir, Adapter!IsDir, IsDir, Adapter!Exists, Exists
<1>3. Adapter!Follows(p) = FollowsIn(localTree, p)
  BY <1>1 DEF Adapter!Follows, FollowsIn
<1>4. Adapter!Missing(p) = MissingIn(localTree, p)
  BY <1>1 DEF Adapter!Missing, MissingIn
<1>5. Adapter!Dir(Adapter!Theirs) = Dir(Theirs)
  BY DEF Adapter!Dir, Dir, Adapter!Theirs, Theirs
<1>6. Adapter!WithDirectories(p) = Made(localTree, p)
  BY <1>1, <1>4, <1>5 DEF Adapter!WithDirectories, Made
<1>7. \A r : Adapter!IsRealDir(r) = IsDir(localTree, r)
  BY DEF Adapter!IsRealDir, Adapter!IsDir, IsDir, Adapter!Exists, Exists
<1>8. Adapter!DirectoriesAbove(p) = CanMake(localTree, p, TRUE)
  BY <1>1, <1>7 DEF Adapter!DirectoriesAbove, CanMake
<1> QED BY <1>2, <1>3, <1>6, <1>8

LEMMA AdapterMoves ==
  ASSUME NEW from, NEW to
  PROVE  Adapter!Move(from, to) = MoveTree(localTree, from, to)
<1>1. Adapter!Without(localTree, to) = Without(localTree, to)
  BY SameFiles
<1>2. \A r, s : Adapter!IsPrefix(r, s) = IsPrefix(r, s)
  BY DEF Adapter!IsPrefix, IsPrefix
<1> QED BY <1>1, <1>2 DEF Adapter!Move, Adapter!Renamed, MoveTree, Swap

-----------------------------------------------------------------------------

FileState(c, at, t, was, changes, r) ==
  /\ IsFinite(t) /\ IsFinite(was) /\ IsCall(c) /\ StepOf(c, at)
  /\ changes \in Nat /\ r \in {"none", "ok", "error"}
  /\ at # "done" => r = "none"
  /\ changes = 0 => Kept(c, t, was) /\ (at # "done" => Untouched(c, at, t, was))

FileInv == FileState(fileCall, fileStep, localTree, treeBefore, fileOthers, fileResult)

LEMMA FileInvMeans == FileInv => OthersKept
<1> SUFFICES ASSUME FileInv PROVE OthersKept
  OBVIOUS
<1>1. Adapter!TypeOK
  <2>1. Adapter!IsTree(localTree)
    BY SameFiles DEF FileInv, FileState, IsFinite, NamedTree
  <2>2. fileStep \in {"mkdir", "remove", "look", "clear", "rename", "done"}
    BY DEF FileInv, FileState, IsCall, StepOf
  <2> QED BY <2>1, <2>2 DEF FileInv, FileState, Adapter!TypeOK
<1>2. \A t, p : Adapter!Exists(t, p) = Exists(t, p) /\ \A q : Adapter!IsPrefix(p, q) = IsPrefix(p, q)
  BY SameFiles
<1>3. fileOthers = 0 => Kept(fileCall, localTree, treeBefore)
  BY DEF FileInv, FileState
<1>4. Adapter!OthersKept
  <2> SUFFICES ASSUME fileOthers = 0 PROVE Adapter!OthersKept
    BY DEF Adapter!OthersKept
  <2>1. PICK lost : lost = Lost(localTree, treeBefore)
    OBVIOUS
  <2>2. lost = {q \in DOMAIN treeBefore : ~Adapter!Exists(localTree, q) \/ localTree[q] # treeBefore[q]}
    BY <1>2, <2>1 DEF Lost
  <2>3. /\ \A q \in lost :
             Adapter!IsPrefix(fileCall.path, q) \/ (fileCall.op = "rename" /\ Adapter!IsPrefix(fileCall.to, q))
        /\ fileCall.op = "mkdir" => lost = {}
        /\ fileCall.op = "remove" /\ ~fileCall.flag => lost \subseteq {fileCall.path}
        /\ fileCall.op = "rename" /\ ~fileCall.flag =>
             Cardinality(DOMAIN localTree) >= Cardinality(DOMAIN treeBefore) - 1
        /\ fileCall.op = "rename" /\ ~fileCall.flag /\ Adapter!Exists(treeBefore, fileCall.to)
             /\ treeBefore[fileCall.to].kind # "link" => fileCall.to \notin lost
    <3>1. Kept(fileCall, localTree, treeBefore)
      BY <1>3
    <3> QED BY <1>2, <2>1, <3>1 DEF Kept
  <2> QED BY <2>2, <2>3, SameSize DEF Adapter!OthersKept
<1>5. Adapter!OneDirectory
  <2> SUFFICES ASSUME fileOthers = 0 PROVE Adapter!OneDirectory
    BY DEF Adapter!OneDirectory
  <2>1. fileCall.op = "mkdir" /\ ~fileCall.flag =>
          Cardinality(DOMAIN localTree) <= Cardinality(DOMAIN treeBefore) + 1
    <3>1. Kept(fileCall, localTree, treeBefore)
      BY <1>3
    <3> QED BY <3>1 DEF Kept
  <2> QED BY <2>1, SameSize DEF Adapter!OneDirectory
<1> QED BY <1>1, <1>4, <1>5 DEF OthersKept

LEMMA FileStart == LocalInit => FileInv
<1> SUFFICES ASSUME LocalInit PROVE FileInv
  OBVIOUS
<1>1. Adapter!Init
  BY DEF LocalInit, NoFileCall
<1>2. /\ localTree \in LocalTrees /\ treeBefore = localTree
      /\ fileCall \in Adapter!Calls
      /\ fileStep = IF fileCall.op = "rename" THEN "look" ELSE fileCall.op
      /\ fileOthers = 0 /\ fileResult = "none"
  BY <1>1 DEF Adapter!Init
<1>3. IsFinite(localTree)
  BY <1>2, TreeAssumption DEF IsFinite, NamedTree
<1>4. IsCall(fileCall) /\ StepOf(fileCall, fileStep) /\ fileStep # "done" /\ fileStep # "rename"
  <2>1. fileCall \in [op : {"mkdir", "remove", "rename"}, path : LocalPaths, to : LocalPaths, flag : BOOLEAN]
    BY <1>2 DEF Adapter!Calls
  <2>2. /\ fileCall.op \in {"mkdir", "remove", "rename"} /\ fileCall.flag \in BOOLEAN
        /\ fileCall.path \in LocalPaths /\ fileCall.to \in LocalPaths
    BY <2>1
  <2>3. fileCall.op # "rename" => fileCall.to = fileCall.path
    BY <1>2 DEF Adapter!Calls
  <2> QED BY <1>2, <2>2, <2>3, TreeAssumption DEF IsCall, StepOf
<1>5. Kept(fileCall, localTree, treeBefore)
  BY <1>2, <1>3, NothingLost
<1>6. Untouched(fileCall, fileStep, localTree, treeBefore)
  BY <1>2, <1>4 DEF Untouched
<1> QED BY <1>2, <1>3, <1>4, <1>5, <1>6 DEF FileInv, FileState

-----------------------------------------------------------------------------
(***************************************************************************)
(* The steps, in terms of what a state is.                                 *)
(***************************************************************************)

LEMMA EndKeeps ==
  ASSUME NEW c, NEW at, NEW t, NEW was, NEW changes, NEW r, FileState(c, at, t, was, changes, r),
         NEW after, IsFinite(after), NEW end \in {"ok", "error"},
         changes = 0 => Kept(c, after, was)
  PROVE  FileState(c, "done", after, was, changes, end)
BY DEF FileState, StepOf

\* remove and rename with overwrite: of the tree of the call, at "remove" and
\* "clear".
LEMMA RemovalKeeps ==
  ASSUME NEW c, NEW at, NEW t, NEW was, NEW changes, NEW r, FileState(c, at, t, was, changes, r),
         NEW p, IsSequence(p), p # Root,
         \/ at = "remove" /\ IsPrefix(c.path, p) /\ (~c.flag => Below(t, p) \subseteq {c.path})
         \/ at = "clear" /\ IsPrefix(c.to, p)
  PROVE  /\ IsFinite(Without(t, p))
         /\ changes = 0 => Kept(c, Without(t, p), was) /\ t = was
<1>1. IsFinite(t) /\ IsFinite(was) /\ IsCall(c) /\ StepOf(c, at)
  BY DEF FileState
<1>2. IsFinite(Without(t, p))
  BY <1>1, WithoutIsTree DEF IsFinite
<1>3. ASSUME changes = 0 PROVE Kept(c, Without(t, p), was) /\ t = was
  <2>1. t = was
    BY <1>3 DEF FileState, Untouched
  <2>2. \/ c.op = "remove" /\ IsPrefix(c.path, p)
        \/ c.op = "rename" /\ c.flag /\ IsPrefix(c.to, p)
    BY <1>1 DEF StepOf, IsCall
  <2>3. c.op = "remove" /\ ~c.flag => Below(was, p) \subseteq {c.path}
    BY <1>1, <2>1 DEF StepOf, IsCall
  <2>4. Kept(c, Without(was, p), was)
    BY <1>1, <2>2, <2>3, RemovingKeeps
  <2> QED BY <2>1, <2>4
<1> QED BY <1>2, <1>3

LEMMA CallFailsKeeps == FileInv /\ Adapter!CallFails => FileInv'
<1> SUFFICES ASSUME FileInv, Adapter!CallFails PROVE FileInv'
  OBVIOUS
<1>1. /\ fileResult' = "error" /\ fileStep' = "done" /\ fileCall' = fileCall
      /\ fileOthers' = fileOthers /\ treeBefore' = treeBefore /\ localTree' = localTree
  BY DEF Adapter!CallFails, Adapter!Ends
<1>2. IsFinite(localTree) /\ (fileOthers = 0 => Kept(fileCall, localTree, treeBefore))
  BY DEF FileInv, FileState
<1>3. FileState(fileCall, "done", localTree, treeBefore, fileOthers, "error")
  BY <1>2, EndKeeps DEF FileInv
<1> QED BY <1>1, <1>3 DEF FileInv

\* The tree that create_directory leaves, whether it succeeds or not.
LEMMA MadeTreeKeeps ==
  ASSUME FileInv, fileStep = "mkdir", NEW p, IsSequence(p), CanMake(localTree, p, fileCall.flag),
         NEW end \in {"ok", "error"}
  PROVE  FileState(fileCall, "done", Made(localTree, p), treeBefore, fileOthers, end)
<1>1. IsFinite(localTree) /\ IsFinite(treeBefore) /\ IsCall(fileCall) /\ fileCall.op = "mkdir"
  BY DEF FileInv, FileState, StepOf, IsCall
<1>2. PICK c, t, after : c = fileCall /\ t = localTree /\ after = Made(localTree, p)
  OBVIOUS
<1>3. IsFinite(after)
  BY <1>1, <1>2, MakingDirectories DEF IsCall
<1>4. fileOthers = 0 => Kept(c, after, treeBefore)
  <2> SUFFICES ASSUME fileOthers = 0 PROVE Kept(c, after, treeBefore)
    OBVIOUS
  <2>1. t = treeBefore
    BY <1>2 DEF FileInv, FileState, Untouched
  <2> QED BY <1>1, <1>2, <2>1, MakingKeeps
<1>5. FileState(c, fileStep, t, treeBefore, fileOthers, fileResult)
  BY <1>2 DEF FileInv
<1> QED BY <1>2, <1>3, <1>4, <1>5, EndKeeps

LEMMA CreateDirectoryKeeps == FileInv /\ Adapter!CreateDirectory => FileInv'
<1> SUFFICES ASSUME FileInv, Adapter!CreateDirectory PROVE FileInv'
  OBVIOUS
<1>1. /\ fileResult' = "ok" /\ fileStep' = "done" /\ fileCall' = fileCall
      /\ fileOthers' = fileOthers /\ treeBefore' = treeBefore /\ fileStep = "mkdir"
      /\ localTree' = Made(localTree, fileCall.path)
  BY AdapterReads DEF Adapter!CreateDirectory, Adapter!Ends
<1>2. CanMake(localTree, fileCall.path, fileCall.flag)
  <2>1. CASE fileCall.flag
    <3>1. CanMake(localTree, fileCall.path, TRUE)
      BY <2>1, AdapterReads DEF Adapter!CreateDirectory
    <3> QED BY <2>1, <3>1 DEF CanMake
  <2>2. CASE ~fileCall.flag
    <3>1. CanAdd(localTree, fileCall.path)
      BY <2>2, SameFiles DEF Adapter!CreateDirectory
    <3> QED BY <2>2, <3>1 DEF CanMake
  <2> QED BY <2>1, <2>2
<1>3. IsSequence(fileCall.path)
  BY DEF FileInv, FileState, IsCall
<1>4. FileState(fileCall, "done", Made(localTree, fileCall.path), treeBefore, fileOthers, "ok")
  BY <1>1, <1>2, <1>3, MadeTreeKeeps
<1> QED BY <1>1, <1>4 DEF FileInv

LEMMA CreateBreaksKeeps == FileInv /\ Adapter!CreateBreaks => FileInv'
<1> SUFFICES ASSUME FileInv, Adapter!CreateBreaks PROVE FileInv'
  OBVIOUS
<1>1. /\ fileResult' = "error" /\ fileStep' = "done" /\ fileCall' = fileCall
      /\ fileOthers' = fileOthers /\ treeBefore' = treeBefore /\ fileStep = "mkdir" /\ fileCall.flag
      /\ CanMake(localTree, fileCall.path, TRUE)
  BY AdapterReads DEF Adapter!CreateBreaks, Adapter!Ends
<1>2. PICK n \in 1..Len(fileCall.path) - 1 : localTree' = Made(localTree, SubSeq(fileCall.path, 1, n))
  BY AdapterReads DEF Adapter!CreateBreaks
<1>3. PICK p : p = SubSeq(fileCall.path, 1, n) /\ localTree' = Made(localTree, p)
  BY <1>2
<1>4. PICK S : fileCall.path \in Seq(S)
  BY DEF FileInv, FileState, IsCall, IsSequence
<1>5. Len(fileCall.path) \in Nat /\ n \in 0..Len(fileCall.path)
  BY <1>4
<1>6. p \in Seq(S) /\ Len(p) = n
  BY <1>3, <1>4, <1>5, BeginningOf
<1>7. ASSUME NEW m \in 0..Len(p) - 1 PROVE SubSeq(p, 1, m) = SubSeq(fileCall.path, 1, m)
  <2>1. m \in Nat /\ m <= n /\ n <= Len(fileCall.path) /\ n \in Nat
    BY <1>5, <1>6
  <2> QED BY <1>3, <1>4, <2>1
<1>8. CanMake(localTree, p, TRUE)
  <2> SUFFICES ASSUME NEW m \in 0..Len(p) - 1, Exists(localTree, SubSeq(p, 1, m))
               PROVE  IsDir(localTree, SubSeq(p, 1, m))
    BY DEF CanMake
  <2>1. m \in 0..Len(fileCall.path) - 1
    BY <1>5, <1>6
  <2>2. Exists(localTree, SubSeq(fileCall.path, 1, m)) => IsDir(localTree, SubSeq(fileCall.path, 1, m))
    BY <1>1, <2>1 DEF CanMake
  <2> QED BY <1>7, <2>2
<1>9. CanMake(localTree, p, fileCall.flag)
  BY <1>1, <1>8 DEF CanMake
<1>10. FileState(fileCall, "done", Made(localTree, p), treeBefore, fileOthers, "error")
  BY <1>1, <1>6, <1>9, InSeqIsSequence, MadeTreeKeeps
<1> QED BY <1>1, <1>3, <1>10 DEF FileInv

LEMMA RemovePathKeeps == FileInv /\ Adapter!RemovePath => FileInv'
<1> SUFFICES ASSUME FileInv, Adapter!RemovePath PROVE FileInv'
  OBVIOUS
<1>1. /\ fileResult' = "ok" /\ fileStep' = "done" /\ fileCall' = fileCall
      /\ fileOthers' = fileOthers /\ treeBefore' = treeBefore /\ fileStep = "remove"
  BY DEF Adapter!RemovePath, Adapter!Ends
<1>2. IsFinite(localTree) /\ IsFinite(treeBefore) /\ IsCall(fileCall) /\ fileCall.op = "remove"
  BY <1>1 DEF FileInv, FileState, StepOf, IsCall
<1>3. PICK c, t, p : c = fileCall /\ t = localTree /\ p = fileCall.path
  OBVIOUS
<1>4. /\ IsSequence(p) /\ p # Root
      /\ IsDir(t, p) /\ ~c.flag => IsEmptyDir(t, p)
      /\ localTree' = Without(t, p)
  BY <1>2, <1>3, SameFiles, AdapterReads DEF Adapter!RemovePath, IsCall
<1>5. IsPrefix(p, p)
  BY <1>4, PrefixRefl DEF IsSequence
<1>6. ~c.flag => Below(t, p) \subseteq {p}
  <2> SUFFICES ASSUME ~c.flag PROVE Below(t, p) \subseteq {p}
    OBVIOUS
  <2>1. ~IsDir(t, p) \/ Children(t, p) = {}
    BY <1>4 DEF IsEmptyDir
  <2>2. NamedTree(t)
    BY <1>2, <1>3 DEF IsFinite
  <2> QED BY <1>4, <2>1, <2>2, BelowOthers
<1>7. FileState(c, "remove", t, treeBefore, fileOthers, fileResult)
  BY <1>1, <1>3 DEF FileInv
<1>8. IsFinite(Without(t, p)) /\ (fileOthers = 0 => Kept(c, Without(t, p), treeBefore))
  BY <1>3, <1>4, <1>5, <1>6, <1>7, RemovalKeeps
<1>9. FileState(c, "done", Without(t, p), treeBefore, fileOthers, "ok")
  BY <1>7, <1>8, EndKeeps
<1> QED BY <1>1, <1>3, <1>4, <1>9 DEF FileInv

LEMMA RemoveBreaksKeeps == FileInv /\ Adapter!RemoveBreaks => FileInv'
<1> SUFFICES ASSUME FileInv, Adapter!RemoveBreaks PROVE FileInv'
  OBVIOUS
<1>1. /\ fileResult' = "error" /\ fileStep' = "done" /\ fileCall' = fileCall
      /\ fileOthers' = fileOthers /\ treeBefore' = treeBefore /\ fileStep \in {"remove", "clear"}
  BY DEF Adapter!RemoveBreaks, Adapter!Ends
<1>2. IsFinite(localTree) /\ IsCall(fileCall)
  BY DEF FileInv, FileState
<1>3. PICK c, t, p : c = fileCall /\ t = localTree
                      /\ p = IF fileStep = "remove" THEN fileCall.path ELSE fileCall.to
  OBVIOUS
<1>4. /\ fileStep = "remove" => c.flag
      /\ \E q \in Below(t, p) \ {p} : localTree' = Without(t, q)
  <2>1. \A q : Adapter!Without(localTree, q) = Without(localTree, q) /\ Adapter!Below(localTree, q) = Below(localTree, q)
    BY SameFiles
  <2> QED BY <1>3, <2>1 DEF Adapter!RemoveBreaks
<1>5. PICK q \in Below(t, p) \ {p} : localTree' = Without(t, q)
  BY <1>4
<1>6. IsSequence(p) /\ IsSequence(q) /\ IsPrefix(p, q)
  BY <1>2, <1>3 DEF Below, IsFinite, NamedTree, IsCall
<1>7. q # Root
  <2>1. ASSUME q = Root PROVE FALSE
    <3>1. p \in Seq(ToSet(p)) /\ Len(p) <= 0
      BY <1>6, <2>1 DEF IsPrefix, IsSequence, Root
    <3>2. p = Root
      BY <3>1 DEF Root
    <3> QED BY <2>1, <3>2
  <2> QED BY <2>1
<1>8. FileState(c, fileStep, t, treeBefore, fileOthers, fileResult)
  BY <1>3 DEF FileInv
<1>9. \/ fileStep = "remove" /\ IsPrefix(c.path, q) /\ (~c.flag => Below(t, q) \subseteq {c.path})
      \/ fileStep = "clear" /\ IsPrefix(c.to, q)
  BY <1>1, <1>3, <1>4, <1>6
<1>10. IsFinite(Without(t, q)) /\ (fileOthers = 0 => Kept(c, Without(t, q), treeBefore))
  BY <1>6, <1>7, <1>8, <1>9, RemovalKeeps
<1>11. FileState(c, "done", Without(t, q), treeBefore, fileOthers, "error")
  BY <1>8, <1>10, EndKeeps
<1> QED BY <1>1, <1>3, <1>5, <1>11 DEF FileInv

LEMMA LookKeeps == FileInv /\ Adapter!LookAtDestination => FileInv'
<1> SUFFICES ASSUME FileInv, Adapter!LookAtDestination PROVE FileInv'
  OBVIOUS
<1>1. PICK c, t : c = fileCall /\ t = localTree
  OBVIOUS
<1>2. /\ fileStep = "look" /\ fileCall' = fileCall /\ fileOthers' = fileOthers
      /\ treeBefore' = treeBefore /\ localTree' = localTree
      /\ \/ FollowsIn(t, c.to) /\ c.flag /\ fileStep' = "clear" /\ fileResult' = fileResult
         \/ FollowsIn(t, c.to) /\ fileStep' = "done" /\ fileResult' = "error"
         \/ ~FollowsIn(t, c.to) /\ fileStep' = "rename" /\ fileResult' = fileResult
  BY <1>1, AdapterReads DEF Adapter!LookAtDestination, Adapter!GoOn, Adapter!Ends
<1>3. FileState(c, "look", t, treeBefore, fileOthers, fileResult)
  BY <1>1, <1>2 DEF FileInv
<1>4. FileState(c, fileStep', t, treeBefore, fileOthers, fileResult')
  BY <1>2, <1>3 DEF FileState, StepOf, IsCall, Untouched
<1> QED BY <1>1, <1>2, <1>4 DEF FileInv

LEMMA ClearKeeps == FileInv /\ Adapter!ClearDestination => FileInv'
<1> SUFFICES ASSUME FileInv, Adapter!ClearDestination PROVE FileInv'
  OBVIOUS
<1>1. PICK c, t, p : c = fileCall /\ t = localTree /\ p = fileCall.to
  OBVIOUS
<1>2. /\ fileStep = "clear" /\ fileStep' = "rename" /\ fileCall' = fileCall /\ fileOthers' = fileOthers
      /\ treeBefore' = treeBefore /\ fileResult' = fileResult
      /\ p # Root /\ localTree' = Without(t, p)
  BY <1>1, SameFiles DEF Adapter!ClearDestination, Adapter!GoOn
<1>3. FileState(c, "clear", t, treeBefore, fileOthers, fileResult)
  BY <1>1, <1>2 DEF FileInv
<1>4. IsSequence(p) /\ IsPrefix(c.to, p)
  <2>1. IsSequence(p)
    BY <1>1, <1>3 DEF FileState, IsCall
  <2> QED BY <1>1, <2>1, PrefixRefl DEF IsSequence
<1>5. IsFinite(Without(t, p)) /\ (fileOthers = 0 => Kept(c, Without(t, p), treeBefore) /\ t = treeBefore)
  BY <1>2, <1>3, <1>4, RemovalKeeps
<1>6. c.flag /\ StepOf(c, "rename")
  BY <1>3 DEF FileState, StepOf, IsCall
<1>7. FileState(c, "rename", Without(t, p), treeBefore, fileOthers, fileResult)
  BY <1>1, <1>3, <1>5, <1>6 DEF FileState, Untouched
<1> QED BY <1>1, <1>2, <1>7 DEF FileInv

\* fs::rename, in terms of trees.
LEMMA RenameMoves ==
  ASSUME FileInv, Adapter!Rename, fileCall.path # fileCall.to
  PROVE  /\ CanMove(localTree, fileCall.path, fileCall.to)
         /\ localTree' = MoveTree(localTree, fileCall.path, fileCall.to)
<1>1. PICK t, from, to : t = localTree /\ from = fileCall.path /\ to = fileCall.to
  OBVIOUS
<1>2. /\ Exists(t, from) /\ from # Root /\ to # Root /\ IsDir(t, Parent(to)) /\ ~IsPrefix(from, to)
      /\ Exists(t, to) => IF IsDir(t, from) THEN IsEmptyDir(t, to) ELSE ~IsDir(t, to)
      /\ localTree' = MoveTree(t, from, to)
  <2>1. \A p : /\ Adapter!Exists(localTree, p) = Exists(localTree, p)
               /\ Adapter!IsDir(localTree, p) = IsDir(localTree, p)
               /\ Adapter!IsEmptyDir(localTree, p) = IsEmptyDir(localTree, p)
               /\ Adapter!IsRealDir(p) = IsDir(localTree, p)
               /\ Adapter!Parent(p) = Parent(p) /\ Adapter!Root = Root
               /\ \A q : Adapter!IsPrefix(p, q) = IsPrefix(p, q)
    BY SameFiles, AdapterReads
  <2>2. Adapter!Move(fileCall.path, fileCall.to) = MoveTree(localTree, fileCall.path, fileCall.to)
    BY AdapterMoves
  <2> QED BY <1>1, <2>1, <2>2 DEF Adapter!Rename
<1>3. IsFinite(t) /\ IsSequence(from) /\ IsSequence(to) /\ from # to
  BY <1>1 DEF FileInv, FileState, IsCall
<1>4. CanMove(t, from, to)
  BY <1>2, <1>3 DEF CanMove, IsFinite
<1> QED BY <1>1, <1>2, <1>4

LEMMA RenameKeeps == FileInv /\ Adapter!Rename => FileInv'
<1> SUFFICES ASSUME FileInv, Adapter!Rename PROVE FileInv'
  OBVIOUS
<1>1. PICK c, t, after : c = fileCall /\ t = localTree /\ after = localTree'
  OBVIOUS
<1>2. /\ fileStep = "rename" /\ fileStep' = "done" /\ fileCall' = fileCall /\ fileOthers' = fileOthers
      /\ treeBefore' = treeBefore /\ fileResult' = "ok"
  BY DEF Adapter!Rename, Adapter!Ends
<1>3. FileState(c, "rename", t, treeBefore, fileOthers, fileResult)
  BY <1>1, <1>2 DEF FileInv
<1>4. IsCall(c) /\ c.op = "rename" /\ IsFinite(t) /\ IsFinite(treeBefore)
  BY <1>3 DEF FileState, StepOf, IsCall
<1>5. CASE c.path = c.to
  <2>1. after = t
    BY <1>1, <1>5 DEF Adapter!Rename
  <2>2. fileOthers = 0 => Kept(c, t, treeBefore)
    BY <1>3 DEF FileState
  <2>3. FileState(c, "done", t, treeBefore, fileOthers, "ok")
    BY <1>3, <1>4, <2>2, EndKeeps
  <2> QED BY <1>1, <1>2, <2>1, <2>3 DEF FileInv
<1>6. CASE c.path # c.to
  <2>1. CanMove(t, c.path, c.to) /\ after = MoveTree(t, c.path, c.to)
    BY <1>1, <1>6, RenameMoves
  <2>2. IsFinite(after)
    <3>1. PICK from, to : from = c.path /\ to = c.to
      OBVIOUS
    <3>2. NamedTree(after) /\ IsFiniteSet(DOMAIN after)
      BY <2>1, <3>1, MoveFacts
    <3> QED BY <3>2 DEF IsFinite
  <2>3. fileOthers = 0 => Kept(c, after, treeBefore)
    <3> SUFFICES ASSUME fileOthers = 0 PROVE Kept(c, after, treeBefore)
      OBVIOUS
    <3>1. Untouched(c, "rename", t, treeBefore)
      BY <1>3 DEF FileState
    <3> QED BY <1>4, <2>1, <3>1, RenamingKeeps
  <2>4. FileState(c, "done", after, treeBefore, fileOthers, "ok")
    BY <1>3, <2>2, <2>3, EndKeeps
  <2> QED BY <1>1, <1>2, <2>4 DEF FileInv
<1> QED BY <1>5, <1>6

LEMMA OtherOfFilesKeeps == FileInv /\ Adapter!Other => FileInv'
<1> SUFFICES ASSUME FileInv, Adapter!Other PROVE FileInv'
  OBVIOUS
<1>1. PICK t : t = localTree
  OBVIOUS
<1>2. /\ fileOthers' = fileOthers + 1 /\ fileCall' = fileCall /\ fileStep' = fileStep
      /\ treeBefore' = treeBefore /\ fileResult' = fileResult
  BY DEF Adapter!Other
<1>3. PICK p \in ContestedHere :
        \/ CanAdd(t, p) /\ localTree' = With(t, p, Adapter!File(Adapter!Theirs, 1))
        \/ p # Root /\ localTree' = Without(t, p)
  <2>1. \A p, e : /\ Adapter!CanAdd(localTree, p) = CanAdd(localTree, p) /\ Adapter!Root = Root
                  /\ Adapter!With(localTree, p, e) = With(localTree, p, e)
                  /\ Adapter!Without(localTree, p) = Without(localTree, p)
    BY SameFiles
  <2> QED BY <1>1, <2>1 DEF Adapter!Other
<1>4. IsSequence(p) /\ NamedTree(t) /\ IsFiniteSet(DOMAIN t)
  BY <1>1, TreeAssumption DEF FileInv, FileState, IsFinite
<1>5. PICK after : after = localTree'
  OBVIOUS
<1>6. IsFinite(after)
  <2>1. CASE CanAdd(t, p) /\ localTree' = With(t, p, Adapter!File(Adapter!Theirs, 1))
    BY <1>4, <1>5, <2>1, WithIsTree DEF IsFinite
  <2>2. CASE p # Root /\ localTree' = Without(t, p)
    BY <1>4, <1>5, <2>2, WithoutIsTree DEF IsFinite
  <2> QED BY <1>3, <2>1, <2>2
<1>7. fileOthers \in Nat /\ fileOthers + 1 \in Nat /\ fileOthers + 1 # 0
  BY DEF FileInv, FileState
<1>8. FileState(fileCall, fileStep, after, treeBefore, fileOthers + 1, fileResult)
  BY <1>6, <1>7 DEF FileInv, FileState
<1> QED BY <1>2, <1>5, <1>8 DEF FileInv

-----------------------------------------------------------------------------

LocalStep == Copying \/ Calling \/ Masking \/ OnPaths

LEMMA FileStays == FileInv /\ UNCHANGED fileVars => FileInv'
BY DEF FileInv, fileVars

LEMMA FileStepKeeps == FileInv /\ [LocalStep]_localVars => FileInv'
<1> SUFFICES ASSUME FileInv, [LocalStep]_localVars PROVE FileInv'
  OBVIOUS
<1>1. CASE Calling
  BY <1>1, CallFailsKeeps, CreateDirectoryKeeps, CreateBreaksKeeps, RemovePathKeeps,
     RemoveBreaksKeeps, LookKeeps, ClearKeeps, RenameKeeps, OtherOfFilesKeeps DEF Calling, Adapter!Next
<1>2. CASE Copying \/ Masking \/ OnPaths \/ UNCHANGED localVars
  <2>1. UNCHANGED fileVars
    BY <1>2 DEF Copying, Masking, OnPaths, localVars
  <2> QED BY <2>1, FileStays
<1> QED BY <1>1, <1>2 DEF LocalStep

LEMMA FilesHold == LocalSpec => []FileInv
<1>1. [Copying \/ Calling \/ Masking \/ OnPaths]_localVars => [LocalStep]_localVars
  BY DEF LocalStep
<1> QED BY <1>1, FileStart, FileStepKeeps, PTL DEF LocalSpec

\* Whatever the trees and the paths: without interference a call of the local
\* adapter keeps what is not below its paths, and loses no more than it is told
\* to: create_directory nothing, remove one entry unless it is recursive, and
\* rename without overwrite no more than a link that leads nowhere.
THEOREM LocalFilesAreKept == LocalSpec => []OthersKept
BY FilesHold, FileInvMeans, PTL

\* What is renamed is whole at p.
WholeAt(c, t, was, p) ==
  \A q \in Below(was, c.path) :
    Exists(t, Swap(c.path, p, q)) /\ t[Swap(c.path, p, q)] = was[q]

Apart(c) == c.op = "rename" /\ ~IsPrefix(c.path, c.to) /\ ~IsPrefix(c.to, c.path)

\* What a rename has left when it ends; until then Untouched says it.
FileWhole ==
  fileOthers = 0 /\ Apart(fileCall) /\ fileStep = "done" =>
    IF fileResult = "ok"
      THEN WholeAt(fileCall, localTree, treeBefore, fileCall.to) /\ ~Exists(localTree, fileCall.path)
      ELSE WholeAt(fileCall, localTree, treeBefore, fileCall.path)

\* What is removed below the destination is not below the source.
LEMMA WholeWithout ==
  ASSUME NEW c, IsCall(c), Apart(c), NEW was, IsFinite(was), NEW p, IsSequence(p), IsPrefix(c.to, p)
  PROVE  WholeAt(c, Without(was, p), was, c.path)
<1> SUFFICES ASSUME NEW q \in Below(was, c.path)
             PROVE  /\ Exists(Without(was, p), Swap(c.path, c.path, q))
                    /\ Without(was, p)[Swap(c.path, c.path, q)] = was[q]
  BY DEF WholeAt
<1>1. q \in DOMAIN was /\ IsPrefix(c.path, q) /\ IsSequence(q)
  BY DEF Below, IsFinite, NamedTree
<1>2. PICK S : c.path \in Seq(S) /\ c.to \in Seq(S) /\ \A x \in DOMAIN was : x \in Seq(S)
  BY ToNames DEF IsCall, IsFinite
<1>3. ~IsPrefix(p, q)
  <2> SUFFICES ASSUME IsPrefix(p, q) PROVE FALSE
    OBVIOUS
  <2>1. PICK U : c.to \in Seq(U) /\ p \in Seq(U) /\ \A x \in DOMAIN was : x \in Seq(U)
    BY ToNames DEF IsCall, IsFinite
  <2>2. IsPrefix(c.to, q)
    BY <1>1, <2>1, PrefixTrans
  <2> QED BY <1>1, <1>2, <2>2, PrefixesCompare DEF Apart
<1>4. Swap(c.path, c.path, q) = q
  BY <1>1, <1>2, SwapStays
<1>5. q \in DOMAIN Without(was, p) /\ Without(was, p)[q] = was[q]
  BY <1>1, <1>3, WithoutFacts
<1> QED BY <1>4, <1>5 DEF Exists

LEMMA WholeBefore ==
  ASSUME NEW c, IsCall(c), NEW was, IsFinite(was)
  PROVE  WholeAt(c, was, was, c.path)
<1> SUFFICES ASSUME NEW q \in Below(was, c.path)
             PROVE  Exists(was, Swap(c.path, c.path, q)) /\ was[Swap(c.path, c.path, q)] = was[q]
  BY DEF WholeAt
<1>1. q \in DOMAIN was /\ IsPrefix(c.path, q) /\ IsSequence(q)
  BY DEF Below, IsFinite, NamedTree
<1>2. PICK S : c.path \in Seq(S) /\ c.to \in Seq(S) /\ \A x \in DOMAIN was : x \in Seq(S)
  BY ToNames DEF IsCall, IsFinite
<1>3. Swap(c.path, c.path, q) = q
  BY <1>1, <1>2, SwapStays
<1> QED BY <1>1, <1>3 DEF Exists

\* A rename that has not ended finds what it renames where it was.
LEMMA WholeUntilDone ==
  ASSUME FileInv, fileOthers = 0, Apart(fileCall), fileStep # "done"
  PROVE  WholeAt(fileCall, localTree, treeBefore, fileCall.path)
<1>1. PICK c, t, was : c = fileCall /\ t = localTree /\ was = treeBefore
  OBVIOUS
<1>2. IsCall(c) /\ IsFinite(was) /\ Apart(c)
  BY <1>1 DEF FileInv, FileState
<1>3. t = was \/ t = Without(was, c.to)
  BY <1>1 DEF FileInv, FileState, Untouched
<1>4. CASE t = was
  BY <1>1, <1>2, <1>4, WholeBefore
<1>5. CASE t = Without(was, c.to)
  <2>1. PICK to : to = c.to
    OBVIOUS
  <2>2. IsSequence(to) /\ IsPrefix(c.to, to)
    BY <1>2, <2>1, PrefixRefl DEF IsCall, IsSequence
  <2>3. WholeAt(c, Without(was, to), was, c.path)
    BY <1>2, <2>2, WholeWithout
  <2> QED BY <1>1, <1>5, <2>1, <2>3
<1> QED BY <1>3, <1>4, <1>5

\* The call that breaks off is the removal of the destination.
LEMMA WholeIfBroken ==
  ASSUME FileInv, fileOthers = 0, Apart(fileCall), Adapter!RemoveBreaks
  PROVE  WholeAt(fileCall, localTree', treeBefore, fileCall.path)
<1>1. PICK c, t, was : c = fileCall /\ t = localTree /\ was = treeBefore
  OBVIOUS
<1>2. IsCall(c) /\ IsFinite(was) /\ Apart(c)
  BY <1>1 DEF FileInv, FileState
<1>3. fileStep = "clear" /\ t = was
  BY <1>1 DEF FileInv, FileState, StepOf, Apart, Untouched, Adapter!RemoveBreaks
<1>4. PICK q \in Below(t, c.to) : localTree' = Without(t, q)
  <2>1. \A q : Adapter!Without(localTree, q) = Without(localTree, q) /\ Adapter!Below(localTree, q) = Below(localTree, q)
    BY SameFiles
  <2> QED BY <1>1, <1>3, <2>1 DEF Adapter!RemoveBreaks
<1>5. IsSequence(q) /\ IsPrefix(c.to, q)
  BY <1>2, <1>3, <1>4 DEF Below, IsFinite, NamedTree
<1>6. WholeAt(c, Without(was, q), was, c.path)
  BY <1>2, <1>5, WholeWithout
<1> QED BY <1>1, <1>3, <1>4, <1>6

LEMMA WholeIfRenamed ==
  ASSUME FileInv, fileOthers = 0, Apart(fileCall), Adapter!Rename
  PROVE  WholeAt(fileCall, localTree', treeBefore, fileCall.to) /\ ~Exists(localTree', fileCall.path)
<1>1. PICK c, t, was, from, to, after :
        c = fileCall /\ t = localTree /\ was = treeBefore /\ from = c.path /\ to = c.to /\ after = localTree'
  OBVIOUS
<1>2. IsSequence(from) /\ IsCall(c) /\ IsFinite(was) /\ fileStep = "rename"
  BY <1>1 DEF FileInv, FileState, IsCall, Adapter!Rename
<1>3. from # to
  <2>1. IsPrefix(from, from)
    BY <1>2, PrefixRefl DEF IsSequence
  <2> QED BY <1>1, <2>1 DEF Apart
<1>4. CanMove(t, from, to) /\ after = MoveTree(t, from, to)
  BY <1>1, <1>3, RenameMoves
<1>5. /\ from \notin DOMAIN after
      /\ \A q \in Below(t, from) : Swap(from, to, q) \in DOMAIN after /\ after[Swap(from, to, q)] = t[q]
  BY <1>4, MoveFacts
<1>6. ASSUME NEW q \in Below(was, from) PROVE q \in Below(t, from) /\ t[q] = was[q]
  <2>1. IsPrefix(from, q) /\ q \in DOMAIN was /\ IsSequence(q)
    BY <1>2 DEF Below, IsFinite, NamedTree
  <2>2. WholeAt(c, t, was, from)
    BY <1>1, <1>2, WholeUntilDone
  <2>3. Swap(from, from, q) = q
    <3>1. PICK S : c.path \in Seq(S) /\ c.to \in Seq(S) /\ \A x \in DOMAIN was : x \in Seq(S)
      BY <1>2, ToNames DEF IsCall, IsFinite
    <3> QED BY <1>1, <2>1, <3>1, SwapStays
  <2>4. Exists(t, q) /\ t[q] = was[q]
    BY <1>1, <2>2, <2>3 DEF WholeAt
  <2> QED BY <2>1, <2>4 DEF Below, Exists
<1>7. ASSUME NEW q \in Below(was, from)
      PROVE  Exists(after, Swap(from, to, q)) /\ after[Swap(from, to, q)] = was[q]
  BY <1>5, <1>6 DEF Exists
<1>8. WholeAt(c, after, was, to)
  BY <1>1, <1>7 DEF WholeAt
<1> QED BY <1>1, <1>5, <1>8 DEF Exists

LEMMA WholeStepKeeps == FileInv /\ FileWhole /\ [LocalStep]_localVars => FileWhole'
<1> SUFFICES ASSUME FileInv, FileWhole, [LocalStep]_localVars, fileOthers' = 0, Apart(fileCall'), fileStep' = "done"
             PROVE  IF fileResult' = "ok"
                      THEN WholeAt(fileCall', localTree', treeBefore', fileCall'.to)
                             /\ ~Exists(localTree', fileCall'.path)
                      ELSE WholeAt(fileCall', localTree', treeBefore', fileCall'.path)
  BY DEF FileWhole
<1>1. CASE UNCHANGED fileVars
  BY <1>1 DEF FileWhole, fileVars
<1>2. CASE Calling /\ ~UNCHANGED fileVars
  <2>1. fileStep # "done" /\ fileCall' = fileCall /\ treeBefore' = treeBefore
    BY <1>2 DEF Calling, Adapter!Next, Adapter!CallFails, Adapter!CreateDirectory, Adapter!CreateBreaks,
       Adapter!RemovePath, Adapter!RemoveBreaks, Adapter!LookAtDestination, Adapter!ClearDestination,
       Adapter!Rename, Adapter!Other, Adapter!Ends, Adapter!GoOn
  <2>2. fileOthers' = fileOthers \/ Adapter!Other
    BY <1>2 DEF Calling, Adapter!Next, Adapter!CallFails, Adapter!CreateDirectory, Adapter!CreateBreaks,
       Adapter!RemovePath, Adapter!RemoveBreaks, Adapter!LookAtDestination, Adapter!ClearDestination,
       Adapter!Rename, Adapter!Ends, Adapter!GoOn
  <2>3. ~Adapter!Other
    BY <2>1 DEF Adapter!Other
  <2>4. fileOthers = 0 /\ Apart(fileCall)
    BY <2>1, <2>2, <2>3
  <2>5. fileStep \in {"look", "clear", "rename"}
    BY <2>1, <2>4 DEF FileInv, FileState, StepOf, Apart
  <2>6. CASE localTree' = localTree /\ fileResult' = "error"
    BY <2>1, <2>4, <2>6, WholeUntilDone
  <2>7. CASE Adapter!RemoveBreaks
    BY <2>1, <2>4, <2>7, WholeIfBroken DEF Adapter!RemoveBreaks, Adapter!Ends
  <2>8. CASE Adapter!Rename
    BY <2>1, <2>4, <2>8, WholeIfRenamed DEF Adapter!Rename, Adapter!Ends
  <2>9. Adapter!CallFails \/ Adapter!LookAtDestination => localTree' = localTree /\ fileResult' = "error"
    BY DEF Adapter!CallFails, Adapter!LookAtDestination, Adapter!Ends, Adapter!GoOn
  <2>10. ~Adapter!CreateDirectory /\ ~Adapter!CreateBreaks /\ ~Adapter!RemovePath /\ ~Adapter!ClearDestination
    BY <2>5 DEF Adapter!CreateDirectory, Adapter!CreateBreaks, Adapter!RemovePath, Adapter!ClearDestination,
       Adapter!GoOn
  <2> QED BY <1>2, <2>3, <2>6, <2>7, <2>8, <2>9, <2>10 DEF Calling, Adapter!Next
<1>3. CASE ~Calling
  <2>1. UNCHANGED fileVars
    BY <1>3 DEF LocalStep, Copying, Masking, OnPaths, localVars
  <2> QED BY <1>1, <2>1
<1> QED BY <1>1, <1>2, <1>3

LEMMA WholeMeans == FileInv /\ FileWhole => RenamedStaysWhole
<1> SUFFICES ASSUME FileInv, FileWhole, fileOthers = 0, fileCall.op = "rename",
                    ~Adapter!IsPrefix(fileCall.path, fileCall.to), ~Adapter!IsPrefix(fileCall.to, fileCall.path)
             PROVE  IF fileResult = "ok"
                      THEN /\ \A q \in Adapter!Below(treeBefore, fileCall.path) :
                                LET r == Adapter!Renamed(fileCall.path, fileCall.to, q)
                                IN Adapter!Exists(localTree, r) /\ localTree[r] = treeBefore[q]
                           /\ ~Adapter!Exists(localTree, fileCall.path)
                      ELSE \A q \in Adapter!Below(treeBefore, fileCall.path) :
                             LET r == Adapter!Renamed(fileCall.path, fileCall.path, q)
                             IN Adapter!Exists(localTree, r) /\ localTree[r] = treeBefore[q]
  BY DEF RenamedStaysWhole, Adapter!RenamedStaysWhole
<1>1. Apart(fileCall)
  BY SameFiles DEF Apart
<1>2. /\ fileResult = "ok" => fileStep = "done"
      /\ fileResult # "ok" => WholeAt(fileCall, localTree, treeBefore, fileCall.path)
  <2>1. fileStep # "done" => fileResult = "none"
    BY DEF FileInv, FileState
  <2>2. CASE fileStep = "done"
    BY <1>1, <2>2 DEF FileWhole
  <2>3. CASE fileStep # "done"
    BY <1>1, <2>1, <2>3, WholeUntilDone
  <2> QED BY <2>2, <2>3, <2>1
<1>3. fileResult = "ok" =>
        WholeAt(fileCall, localTree, treeBefore, fileCall.to) /\ ~Exists(localTree, fileCall.path)
  BY <1>1, <1>2 DEF FileWhole
<1>4. /\ \A t, p : Adapter!Below(t, p) = Below(t, p) /\ Adapter!Exists(t, p) = Exists(t, p)
      /\ \A a, b, q : Adapter!Renamed(a, b, q) = Swap(a, b, q)
  BY SameFiles DEF Adapter!Renamed, Swap
<1> QED BY <1>2, <1>3, <1>4 DEF WholeAt

\* Whatever the trees and the paths: without interference, what is renamed is
\* whole at its old place, also after the destination has been removed for it
\* and wherever the call fails, and if the call succeeds whole at its new place
\* and no longer at the old one, unless one of the places is in the other.
THEOREM RenamedIsNeverLost == LocalSpec => []RenamedStaysWhole
<1>1. [Copying \/ Calling \/ Masking \/ OnPaths]_localVars => [LocalStep]_localVars
  BY DEF LocalStep
<1>2. LocalInit => FileWhole
  BY FileStart DEF LocalInit, NoFileCall, Adapter!Init, Adapter!Calls, FileWhole
<1>3. FileInv /\ FileWhole /\ [LocalStep]_localVars => FileWhole'
  BY WholeStepKeeps
<1>4. FileInv /\ FileWhole => RenamedStaysWhole
  BY WholeMeans
<1> QED BY <1>1, <1>2, <1>3, <1>4, FilesHold, PTL DEF LocalSpec

-----------------------------------------------------------------------------
(***************************************************************************)
(* The functions on paths.                                                 *)
(*                                                                         *)
(* All rests on what a text means as a path: what follows a slash adds its *)
(* names (NamesBehindSlash), slashes at the end add none (NamesOfTrimmed), *)
(* and a name in a directory is one name more (ChildOfDirectory).  Texts   *)
(* are cut at their last slash or dot (LastAtIs); a number is put into a   *)
(* name at one position, the same on both sides (PutInAt), and a path is   *)
(* made normal without leaving its place (NormalIs).                       *)
(***************************************************************************)
LEMMA LastOfFacts ==
  ASSUME NEW n \in Nat, NEW T \in SUBSET (1..n)
  PROVE /\ Paths!LastOf(T) \in 0..n
        /\ T = {} => Paths!LastOf(T) = 0
        /\ T # {} => Paths!LastOf(T) \in T
        /\ \A k \in T : k <= Paths!LastOf(T)
<1>1. CASE T = {}
  BY <1>1 DEF Paths!LastOf
<1>2. CASE T # {}
  <2>1. \E m \in T : \A k \in T : k <= m
    BY <1>2, LastPosition
  <2>2. \E m \in T : \A k \in T : m >= k
    BY <2>1
  <2>3. Paths!Max(T) \in T /\ \A k \in T : Paths!Max(T) >= k
    BY <2>2 DEF Paths!Max
  <2>4. Paths!LastOf(T) = Paths!Max(T)
    BY <1>2 DEF Paths!LastOf
  <2> DEFINE m == Paths!Max(T)
  <2>5. m \in 1..n /\ m \in T /\ \A k \in T : k \in 1..n /\ m >= k
    BY <2>3
  <2> HIDE DEF m
  <2>6. m \in 0..n /\ \A k \in T : k <= m
    BY <2>5
  <2> QED BY <1>2, <2>4, <2>5, <2>6 DEF m
<1> QED BY <1>1, <1>2

\* r is the text without the dropped characters at its end.
EndTrimmed(s, dropped, r, A) ==
  /\ r \in Seq(A) /\ Len(r) <= Len(s) /\ r = SubSeq(s, 1, Len(r))
  /\ \A i \in 1..Len(r) : r[i] = s[i]
  /\ r # <<>> => r[Len(r)] \notin dropped
  /\ \A i \in 1..Len(s) : i > Len(r) => s[i] \in dropped

LEMMA TrimEndIs ==
  ASSUME NEW A, NEW s \in Seq(A), NEW dropped
  PROVE EndTrimmed(s, dropped, Paths!TrimEnd(s, dropped), A)
<1> DEFINE T == Paths!Kept(s, dropped)
<1> DEFINE k == Paths!LastOf(T)
<1> DEFINE r == SubSeq(s, 1, k)
<1>1. Len(s) \in Nat /\ T \in SUBSET (1..Len(s)) /\ \A i \in 1..Len(s) : i \in T <=> s[i] \notin dropped
  BY DEF Paths!Kept
<1> HIDE DEF T
<1>2. k \in 0..Len(s) /\ (T = {} => k = 0) /\ (T # {} => k \in T) /\ \A i \in T : i <= k
  BY <1>1, LastOfFacts
<1> HIDE DEF k
<1>3. r \in Seq(A) /\ Len(r) = k /\ \A i \in 1..k : r[i] = s[i]
  BY <1>2, FirstOnes DEF FirstOf
<1>4. Paths!TrimEnd(s, dropped) = r
  BY DEF Paths!TrimEnd, k, T
<1>5. r = SubSeq(s, 1, Len(r))
  BY <1>3
<1> HIDE DEF r
<1>6. r # <<>> => r[Len(r)] \notin dropped
  <2> SUFFICES ASSUME r # <<>> PROVE r[Len(r)] \notin dropped
    OBVIOUS
  <2>1. k \in 1..Len(s) /\ k \in 1..k
    BY <1>1, <1>2, <1>3
  <2>2. k \in T
    BY <1>2, <2>1
  <2> QED BY <1>1, <1>3, <2>1, <2>2
<1>7. \A i \in 1..Len(s) : i > k => s[i] \in dropped
  BY <1>1, <1>2
<1> QED BY <1>2, <1>3, <1>4, <1>5, <1>6, <1>7 DEF EndTrimmed

\* Nothing is trimmed off a text that ends in another character.
LEMMA TrimEndKeeps ==
  ASSUME NEW A, NEW s \in Seq(A), NEW dropped, s # <<>> => s[Len(s)] \notin dropped
  PROVE Paths!TrimEnd(s, dropped) = s
<1> DEFINE r == Paths!TrimEnd(s, dropped)
<1>1. EndTrimmed(s, dropped, r, A)
  BY TrimEndIs
<1> HIDE DEF r
<1>2. r \in Seq(A) /\ Len(r) <= Len(s) /\ (\A i \in 1..Len(r) : r[i] = s[i])
      /\ \A i \in 1..Len(s) : i > Len(r) => s[i] \in dropped
  BY <1>1 DEF EndTrimmed
<1>3. Len(r) = Len(s)
  <2>1. CASE s = <<>>
    BY <1>2, <2>1
  <2>2. CASE s # <<>>
    <3>1. Len(s) \in 1..Len(s)
      BY <2>2
    <3> QED BY <1>2, <2>2, <3>1
  <2> QED BY <2>1, <2>2
<1>4. r = s
  BY <1>2, <1>3, SeqEqual
<1> QED BY <1>4 DEF r

LEMMA TrimEndDrops ==
  ASSUME NEW A, NEW s \in Seq(A), NEW dropped, NEW c \in A, c \in dropped
  PROVE Paths!TrimEnd(Append(s, c), dropped) = Paths!TrimEnd(s, dropped)
<1> DEFINE t == Append(s, c)
<1> DEFINE r == Paths!TrimEnd(s, dropped)
<1> DEFINE q == Paths!TrimEnd(t, dropped)
<1>1. t \in Seq(A) /\ Len(t) = Len(s) + 1 /\ Len(s) \in Nat /\ t[Len(s) + 1] = c /\ \A i \in 1..Len(s) : t[i] = s[i]
  BY AppendProperties
<1>2. EndTrimmed(s, dropped, r, A)
  BY TrimEndIs
<1> HIDE DEF t
<1>3. EndTrimmed(t, dropped, q, A)
  BY <1>1, TrimEndIs
<1> HIDE DEF r, q
<1>4. /\ r \in Seq(A) /\ Len(r) <= Len(s) /\ Len(r) \in Nat
      /\ \A i \in 1..Len(r) : r[i] = s[i]
      /\ r # <<>> => r[Len(r)] \notin dropped
      /\ \A i \in 1..Len(s) : i > Len(r) => s[i] \in dropped
  BY <1>2 DEF EndTrimmed
<1>5. /\ q \in Seq(A) /\ Len(q) <= Len(t) /\ Len(q) \in Nat
      /\ \A i \in 1..Len(q) : q[i] = t[i]
      /\ q # <<>> => q[Len(q)] \notin dropped
      /\ \A i \in 1..Len(t) : i > Len(q) => t[i] \in dropped
  BY <1>3 DEF EndTrimmed
<1>6. Len(q) <= Len(s)
  <2> SUFFICES ASSUME Len(q) > Len(s) PROVE FALSE
    BY <1>1, <1>5
  <2>1. Len(q) = Len(s) + 1 /\ q # <<>> /\ Len(q) \in 1..Len(q)
    BY <1>1, <1>5
  <2>2. q[Len(q)] = c
    BY <1>1, <1>5, <2>1
  <2> QED BY <1>5, <2>1, <2>2
<1>7. Len(q) = Len(r)
  <2>1. CASE Len(q) < Len(r)
    <3>1. Len(r) \in 1..Len(s) /\ Len(r) \in 1..Len(t) /\ r # <<>> /\ Len(r) \in 1..Len(r)
      BY <1>1, <1>4, <1>5, <2>1
    <3>2. t[Len(r)] \in dropped /\ t[Len(r)] = s[Len(r)] /\ r[Len(r)] = s[Len(r)]
      BY <1>1, <1>4, <1>5, <2>1, <3>1
    <3> QED BY <1>4, <3>1, <3>2
  <2>2. CASE Len(q) > Len(r)
    <3>1. Len(q) \in 1..Len(s) /\ Len(q) \in 1..Len(q) /\ q # <<>>
      BY <1>4, <1>5, <1>6, <2>2
    <3>2. s[Len(q)] \in dropped /\ t[Len(q)] = s[Len(q)] /\ q[Len(q)] = t[Len(q)]
      BY <1>1, <1>4, <1>5, <2>2, <3>1
    <3> QED BY <1>5, <3>1, <3>2
  <2> QED BY <1>4, <1>5, <2>1, <2>2
<1>8. \A i \in 1..Len(q) : q[i] = r[i]
  <2> SUFFICES ASSUME NEW i \in 1..Len(q) PROVE q[i] = r[i]
    OBVIOUS
  <2>1. i \in 1..Len(s) /\ i \in 1..Len(r)
    BY <1>4, <1>7
  <2> QED BY <1>1, <1>4, <1>5, <2>1
<1>9. q = r
  BY <1>4, <1>5, <1>7, <1>8, SeqEqual
<1> QED BY <1>9 DEF q, r, t

-----------------------------------------------------------------------------
(* Trimming at both ends. *)

TrimmedText(s) == s # <<>> => s[1] # " " /\ s[Len(s)] # " "

LEMMA TrimStartIs ==
  ASSUME NEW A, NEW s \in Seq(A), NEW dropped
  PROVE LET r == Paths!TrimStart(s, dropped)
        IN /\ r \in Seq(A) /\ (r # <<>> => r[1] \notin dropped)
           /\ (s # <<>> => s[1] \notin dropped) => r = s
<1> DEFINE T == Paths!Kept(s, dropped)
<1> DEFINE r == Paths!TrimStart(s, dropped)
<1>1. Len(s) \in Nat /\ T \in SUBSET (1..Len(s)) /\ \A i \in 1..Len(s) : i \in T <=> s[i] \notin dropped
  BY DEF Paths!Kept
<1> HIDE DEF T
<1>2. CASE T = {}
  <2>1. r = <<>>
    BY <1>2 DEF Paths!TrimStart, T
  <2>2. s # <<>> => 1 \in 1..Len(s)
    OBVIOUS
  <2>3. (s # <<>> => s[1] \notin dropped) => s = <<>>
    BY <1>1, <1>2, <2>2
  <2> QED BY <2>1, <2>3, EmptySeq
<1>3. CASE T # {}
  <2> DEFINE m == Paths!Min(T)
  <2>1. T \in SUBSET Nat
    BY <1>1
  <2>2. \E n \in T : \A k \in T : n <= k
    BY <1>3, <2>1, LeastNatural
  <2>3. m \in T /\ \A k \in T : m <= k
    BY <2>2 DEF Paths!Min
  <2>4. r = SubSeq(s, m, Len(s))
    BY <1>3 DEF Paths!TrimStart, T
  <2> HIDE DEF m
  <2>5. m \in 1..Len(s) /\ s[m] \notin dropped
    BY <1>1, <2>3
  <2> DEFINE q == SubSeq(s, m, Len(s))
  <2>6. q \in Seq(A) /\ Len(q) = Len(s) - m + 1 /\ \A i \in 1..(Len(s) - m + 1) : q[i] = s[m + i - 1]
    BY <1>1, <2>5, SubSeqProperties
  <2> HIDE DEF q
  <2>7. q[1] = s[m]
    <3>1. 1 \in 1..(Len(s) - m + 1) /\ m + 1 - 1 = m
      BY <1>1, <2>5
    <3> QED BY <2>6, <3>1
  <2>8. s # <<>> /\ (s[1] \notin dropped => m = 1)
    <3>1. s # <<>> /\ 1 \in 1..Len(s)
      BY <1>1, <2>5
    <3> QED BY <1>1, <2>3, <2>5, <3>1
  <2>9. m = 1 => q = s
    BY SubSeqFull DEF q
  <2> QED BY <2>4, <2>5, <2>6, <2>7, <2>8, <2>9 DEF q
<1> QED BY <1>2, <1>3

LEMMA TrimIs ==
  ASSUME NEW A, NEW s \in Seq(A)
  PROVE /\ Paths!Trim(s) \in Seq(A) /\ TrimmedText(Paths!Trim(s))
        /\ TrimmedText(s) => Paths!Trim(s) = s
<1> DEFINE r == Paths!TrimStart(s, Paths!Blanks)
<1> DEFINE q == Paths!TrimEnd(r, Paths!Blanks)
<1>1. r \in Seq(A) /\ (r # <<>> => r[1] \notin Paths!Blanks) /\ ((s # <<>> => s[1] \notin Paths!Blanks) => r = s)
  BY TrimStartIs
<1>2. Paths!Trim(s) = q
  BY DEF Paths!Trim
<1> HIDE DEF r
<1>3. EndTrimmed(r, Paths!Blanks, q, A)
  BY <1>1, TrimEndIs
<1>4. (r # <<>> => r[Len(r)] \notin Paths!Blanks) => q = r
  BY <1>1, TrimEndKeeps
<1> HIDE DEF q
<1>5. /\ q \in Seq(A) /\ Len(q) <= Len(r) /\ (\A i \in 1..Len(q) : q[i] = r[i])
      /\ q # <<>> => q[Len(q)] \notin Paths!Blanks
  BY <1>3 DEF EndTrimmed
<1>6. TrimmedText(q)
  <2> SUFFICES ASSUME q # <<>> PROVE q[1] # " " /\ q[Len(q)] # " "
    BY DEF TrimmedText
  <2>1. 1 \in 1..Len(q) /\ r # <<>>
    BY <1>1, <1>5
  <2> QED BY <1>1, <1>5, <2>1 DEF Paths!Blanks
<1>7. TrimmedText(s) => q = s
  BY <1>1, <1>4 DEF TrimmedText, Paths!Blanks
<1> QED BY <1>2, <1>5, <1>6, <1>7

-----------------------------------------------------------------------------
(* The last slash. *)

\* at is the last position of c, 0 if there is none: d is what is up to it, w
\* what follows.
ApartAt(s, c, at, d, w, A) ==
  /\ at \in 0..Len(s)
  /\ d \in Seq(A) /\ Len(d) = at /\ (\A i \in 1..at : d[i] = s[i]) /\ (at > 0 => d[at] = c)
  /\ w \in Seq(A) /\ Len(w) = Len(s) - at /\ (\A i \in 1..Len(w) : w[i] = s[at + i])
  /\ FreeOf(w, c) /\ s = d \o w

LEMMA LastAtIs ==
  ASSUME NEW A, NEW s \in Seq(A), NEW c
  PROVE ApartAt(s, c, Paths!LastAt(s, c), SubSeq(s, 1, Paths!LastAt(s, c)), Paths!After(s, Paths!LastAt(s, c)), A)
<1> DEFINE T == {i \in DOMAIN s : s[i] = c}
<1> DEFINE at == Paths!LastOf(T)
<1> DEFINE d == SubSeq(s, 1, at)
<1> DEFINE w == SubSeq(s, at + 1, Len(s))
<1>1. Len(s) \in Nat /\ T \in SUBSET (1..Len(s)) /\ \A i \in 1..Len(s) : i \in T <=> s[i] = c
  OBVIOUS
<1>2. Paths!LastAt(s, c) = at
  BY DEF Paths!LastAt
<1> HIDE DEF T
<1>3. at \in 0..Len(s) /\ (T = {} => at = 0) /\ (T # {} => at \in T) /\ \A i \in T : i <= at
  BY <1>1, LastOfFacts
<1>4. Paths!After(s, Paths!LastAt(s, c)) = w
  BY <1>2 DEF Paths!After
<1> HIDE DEF at
<1>5. d \in Seq(A) /\ Len(d) = at /\ \A i \in 1..at : d[i] = s[i]
  BY <1>3, FirstOnes DEF FirstOf
<1>6. at > 0 => d[at] = c
  <2> SUFFICES ASSUME at > 0 PROVE d[at] = c
    OBVIOUS
  <2>1. at \in 1..at /\ at \in T /\ at \in 1..Len(s)
    BY <1>1, <1>3
  <2> QED BY <1>1, <1>5, <2>1
<1>7. w \in Seq(A) /\ Len(w) = Len(s) - at /\ \A i \in 1..Len(w) : w[i] = s[at + i]
  <2>1. CASE at = Len(s)
    <3>1. w = <<>>
      BY <1>1, <2>1, SubSeqEmpty
    <3> QED BY <1>1, <2>1, <3>1, EmptySeq
  <2>2. CASE at < Len(s)
    <3>1. at + 1 \in 1..Len(s) /\ Len(s) \in (at + 1) - 1 .. Len(s)
      BY <1>1, <1>3, <2>2
    <3>2. w \in Seq(A) /\ Len(w) = Len(s) - (at + 1) + 1 /\ \A i \in 1..(Len(s) - (at + 1) + 1) : w[i] = s[(at + 1) + i - 1]
      BY <3>1, SubSeqProperties
    <3> HIDE DEF w
    <3>3. Len(w) = Len(s) - at /\ Len(w) = Len(s) - (at + 1) + 1
      BY <1>1, <1>3, <3>2
    <3>4. \A i \in 1..Len(w) : (at + 1) + i - 1 = at + i
      BY <1>1, <1>3
    <3> QED BY <3>2, <3>3, <3>4
  <2> QED BY <1>1, <1>3, <2>1, <2>2
<1>8. FreeOf(w, c)
  <2> SUFFICES ASSUME NEW i \in 1..Len(w) PROVE w[i] # c
    BY <1>7 DEF FreeOf
  <2>1. at + i \in 1..Len(s) /\ at + i > at
    BY <1>1, <1>3, <1>7
  <2>2. s[at + i] # c
    BY <1>1, <1>3, <2>1
  <2> QED BY <1>7, <2>2
<1>9. s = d \o w
  <2>1. s = SubSeq(s, 1, Len(s))
    BY SubSeqFull
  <2>2. d \o w = SubSeq(s, 1, Len(s))
    <3>1. 1 \in 1..Len(s) + 1 /\ at \in (1 - 1)..Len(s) /\ Len(s) \in at..Len(s)
      BY <1>1, <1>3
    <3> QED BY <3>1, ConcatAdjacentSubSeq
  <2> QED BY <2>1, <2>2, Zenon
<1> HIDE DEF d, w
<1>10. ApartAt(s, c, at, d, w, A)
  BY <1>3, <1>5, <1>6, <1>7, <1>8, <1>9, Zenon DEF ApartAt
<1> QED BY <1>2, <1>4, <1>10 DEF d

-----------------------------------------------------------------------------
(* The names of a path. *)

LEMMA SamePathSplit == \A s, sep : Paths!Split(s, sep) = Split(s, sep)
  BY DEF Paths!Split, Split, Paths!SplitMore, SplitMore
LEMMA SamePathSelect == \A s, S : Paths!Select(s, S) = Select(s, S)
  BY DEF Paths!Select, Select

\* The parts that are names.
RealNames(A) == Seq(A) \ {<<>>, <<".">>}
NamedOf(ps, A) == Select(ps, RealNames(A))

LEMMA NamesIs ==
  ASSUME NEW A, NEW s \in Seq(A)
  PROVE Paths!Names(s) = NamedOf(Split(s, "/"), A)
<1> DEFINE ps == Split(s, "/")
<1> DEFINE S == Paths!ToSet(ps) \ {<<>>, Paths!Dot}
<1>1. ps \in Seq(Seq(A))
  BY SplitType DEF PartsOver
<1>2. Paths!Names(s) = Select(ps, S)
  BY SamePathSplit, SamePathSelect DEF Paths!Names
<1>3. Paths!Dot = <<".">>
  BY DEF Paths!Dot, Paths!S
<1> HIDE DEF ps
<1>4. \A i \in 1..Len(ps) : ps[i] \in Seq(A) /\ ps[i] \in Paths!ToSet(ps)
  BY <1>1 DEF Paths!ToSet
<1> HIDE DEF S
<1>5. Agree(ps, S, RealNames(A))
  BY <1>3, <1>4 DEF Agree, RealNames, S
<1>6. Select(ps, S) = Select(ps, RealNames(A))
  BY <1>1, <1>5, SelectAlike
<1> QED BY <1>2, <1>6, Zenon DEF NamedOf, ps

LEMMA NamedType ==
  ASSUME NEW A, NEW ps \in Seq(Seq(A))
  PROVE NamedOf(ps, A) \in Seq(Seq(A)) /\ NamedOf(ps, A) \in Seq(RealNames(A))
<1>1. NamedOf(ps, A) \in Seq(Seq(A) \cap RealNames(A))
  BY SelectPicks DEF NamedOf
<1>2. Seq(Seq(A) \cap RealNames(A)) \subseteq Seq(Seq(A)) /\ Seq(Seq(A) \cap RealNames(A)) \subseteq Seq(RealNames(A))
  BY SeqMonotonic
<1> QED BY <1>1, <1>2

LEMMA NamesType ==
  ASSUME NEW A, NEW s \in Seq(A)
  PROVE Paths!Names(s) \in Seq(Seq(A))
<1>1. Split(s, "/") \in Seq(Seq(A))
  BY SplitType DEF PartsOver
<1> QED BY <1>1, NamesIs, NamedType

LEMMA NamesOfNothing == Paths!Names(<<>>) = <<>>
<1>1. <<>> \in Seq({"/"})
  BY EmptySeq
<1>2. Split(<<>>, "/") = <<<<>>>>
  BY SplitOfNothing
<1>3. <<>> \in Seq(Seq({"/"})) /\ <<<<>>>> = Append(<<>>, <<>>)
  BY EmptySeq
<1>4. Select(Append(<<>>, <<>>), RealNames({"/"})) = PickMore(Select(<<>>, RealNames({"/"})), <<>>, RealNames({"/"}))
  BY <1>1, <1>3, SelectOfMore
<1>5. Select(<<>>, RealNames({"/"})) = <<>>
  BY SelectOfNothing
<1>6. <<>> \notin RealNames({"/"})
  BY DEF RealNames
<1> QED BY <1>1, <1>2, <1>3, <1>4, <1>5, <1>6, NamesIs, Zenon DEF NamedOf, PickMore

\* What follows a slash adds its names.
NamesJoin(s, w) == Paths!Names(s \o w) = Paths!Names(s) \o Paths!Names(w)

LEMMA NamesBehindSlash ==
  ASSUME NEW A, NEW s \in Seq(A), NEW w \in Seq(A), s = <<>> \/ s[Len(s)] = "/"
  PROVE NamesJoin(s, w)
<1>1. CASE s = <<>>
  <2>1. s \o w = w /\ <<>> \o Paths!Names(w) = Paths!Names(w)
    BY <1>1, NamesType, ConcatEmptySeq
  <2> QED BY <1>1, <2>1, NamesOfNothing, Zenon DEF NamesJoin
<1>2. CASE s # <<>>
  <2>1. PICK r \in Seq(A), c \in A : s = Append(r, c)
    BY <1>2, SequenceEmptyOrAppend
  <2>2. c = s[Len(s)]
    BY <2>1, AppendProperties
  <2>3. c = "/"
    BY <1>2, <2>2
  <2>4. PICK ps \in Seq(Seq(A)), p \in Seq(A) : SplitsInto(r, "/", ps, p)
    BY SplitsIntoParts
  <2> DEFINE qs == Append(ps, p)
  <2>5. qs \in Seq(Seq(A)) /\ <<>> \in Seq(A) /\ s \o w \in Seq(A)
    BY AppendProperties, EmptySeq, ConcatProperties
  <2>6. SplitsInto(s, "/", qs, <<>>)
    <3>1. "/" \in A
      BY <2>3
    <3>2. SplitsInto(Append(r, "/"), "/", qs, <<>>)
      BY <2>4, <3>1, SplitAtSeparator
    <3> QED BY <2>1, <2>3, <3>2, Zenon
  <2> HIDE DEF qs
  <2>7. Split(s \o w, "/") = qs \o Split(w, "/")
    <3>1. SplitsApart(s, qs, w, "/")
      BY <2>5, <2>6, SplitBehindSeparator
    <3> QED BY <3>1, Zenon DEF SplitsApart
  <2>8. Split(s, "/") = Append(qs, <<>>)
    BY <2>6, Zenon DEF SplitsInto
  <2> DEFINE vs == Split(w, "/")
  <2>9. vs \in Seq(Seq(A))
    BY SplitType DEF PartsOver
  <2> HIDE DEF vs
  <2>10. NamedOf(qs \o vs, A) = NamedOf(qs, A) \o NamedOf(vs, A)
    <3>1. PicksApart(qs, vs, RealNames(A))
      BY <2>5, <2>9, SelectOfConcat
    <3> QED BY <3>1, Zenon DEF PicksApart, NamedOf
  <2>11. NamedOf(Append(qs, <<>>), A) = NamedOf(qs, A)
    <3>1. Select(Append(qs, <<>>), RealNames(A)) = PickMore(Select(qs, RealNames(A)), <<>>, RealNames(A))
      BY <2>5, SelectOfMore
    <3>2. <<>> \notin RealNames(A)
      BY DEF RealNames
    <3> QED BY <3>1, <3>2, Zenon DEF NamedOf, PickMore
  <2>12. /\ Paths!Names(s \o w) = NamedOf(Split(s \o w, "/"), A)
         /\ Paths!Names(s) = NamedOf(Split(s, "/"), A)
         /\ Paths!Names(w) = NamedOf(vs, A)
    BY <2>5, NamesIs DEF vs
  <2> QED BY <2>7, <2>8, <2>10, <2>11, <2>12, Zenon DEF NamesJoin, vs
<1> QED BY <1>1, <1>2

LEMMA NamesAtSlash ==
  ASSUME NEW A, NEW s \in Seq(A), "/" \in A
  PROVE Paths!Names(Append(s, "/")) = Paths!Names(s)
<1> DEFINE ps == Split(s, "/")
<1>1. ps \in Seq(Seq(A)) /\ <<>> \in Seq(A) /\ Append(s, "/") \in Seq(A)
  BY SplitType, EmptySeq, AppendProperties DEF PartsOver
<1>2. Split(Append(s, "/"), "/") = SplitMore(ps, "/", "/")
  BY SplitOfMore
<1>3. SplitMore(ps, "/", "/") = Append(ps, <<>>)
  BY DEF SplitMore
<1> HIDE DEF ps
<1>4. NamedOf(Append(ps, <<>>), A) = NamedOf(ps, A)
  <2>1. Select(Append(ps, <<>>), RealNames(A)) = PickMore(Select(ps, RealNames(A)), <<>>, RealNames(A))
    BY <1>1, SelectOfMore
  <2>2. <<>> \notin RealNames(A)
    BY DEF RealNames
  <2> QED BY <2>1, <2>2, Zenon DEF NamedOf, PickMore
<1>5. /\ Paths!Names(Append(s, "/")) = NamedOf(Split(Append(s, "/"), "/"), A)
      /\ Paths!Names(s) = NamedOf(ps, A)
  BY <1>1, NamesIs DEF ps
<1> QED BY <1>2, <1>3, <1>4, <1>5, Zenon

\* A text without a slash is one name.
LEMMA NamesOfName ==
  ASSUME NEW A, NEW w \in Seq(A), FreeOf(w, "/"), w \notin {<<>>, <<".">>}
  PROVE Paths!Names(w) = <<w>>
<1>0. <<>> \in Seq(A) /\ <<>> \in Seq(Seq(A))
  BY EmptySeq
<1>1. SplitsInto(<<>>, "/", <<>>, <<>>)
  <2>1. Append(<<>>, <<>>) = <<<<>>>>
    OBVIOUS
  <2> QED BY <2>1, SplitOfNothing, Zenon DEF SplitsInto
<1>2. SplitsInto(<<>> \o w, "/", <<>>, <<>> \o w)
  BY <1>0, <1>1, SplitOfRun
<1>3. <<>> \o w = w
  BY ConcatEmptySeq
<1>4. Split(w, "/") = Append(<<>>, w)
  BY <1>2, <1>3, Zenon DEF SplitsInto
<1>5. Select(Append(<<>>, w), RealNames(A)) = PickMore(Select(<<>>, RealNames(A)), w, RealNames(A))
  BY <1>0, SelectOfMore
<1>6. w \in RealNames(A)
  BY DEF RealNames
<1>7. Select(Append(<<>>, w), RealNames(A)) = Append(<<>>, w)
  BY <1>5, <1>6, SelectOfNothing, Zenon DEF PickMore
<1>8. Append(<<>>, w) = <<w>>
  OBVIOUS
<1> QED BY <1>4, <1>7, <1>8, NamesIs, Zenon DEF NamedOf

\* Slashes at the end are no names.
LEMMA NamesOfTrimmed ==
  ASSUME NEW A, NEW s \in Seq(A)
  PROVE Paths!Names(Paths!TrimEnd(s, Paths!Slashes)) = Paths!Names(s)
<1> DEFINE Good == {r \in Seq(A) : Paths!Names(Paths!TrimEnd(r, Paths!Slashes)) = Paths!Names(r)}
<1>1. <<>> \in Good
  <2>1. <<>> \in Seq(A)
    BY EmptySeq
  <2>2. Paths!TrimEnd(<<>>, Paths!Slashes) = <<>>
    BY <2>1, TrimEndKeeps
  <2> QED BY <2>1, <2>2
<1>2. ASSUME NEW r \in Seq(A), NEW c \in A, r \in Good PROVE Append(r, c) \in Good
  <2>0. Append(r, c) \in Seq(A)
    BY AppendProperties
  <2>1. CASE c = "/"
    <3>1. c \in Paths!Slashes /\ "/" \in A
      BY <2>1 DEF Paths!Slashes
    <3>2. Paths!TrimEnd(Append(r, c), Paths!Slashes) = Paths!TrimEnd(r, Paths!Slashes)
      BY <3>1, TrimEndDrops
    <3>3. Paths!Names(Append(r, "/")) = Paths!Names(r)
      BY <3>1, NamesAtSlash
    <3>4. Paths!Names(Append(r, c)) = Paths!Names(r)
      BY <2>1, <3>3, Zenon
    <3>5. Paths!Names(Paths!TrimEnd(r, Paths!Slashes)) = Paths!Names(r)
      BY <1>2
    <3> QED BY <2>0, <3>2, <3>4, <3>5, Zenon
  <2>2. CASE c # "/"
    <3> DEFINE t == Append(r, c)
    <3>1. t[Len(t)] \notin Paths!Slashes
      BY <2>2, AppendProperties DEF Paths!Slashes
    <3> HIDE DEF t
    <3>2. Paths!TrimEnd(t, Paths!Slashes) = t
      BY <2>0, <3>1, TrimEndKeeps DEF t
    <3> QED BY <2>0, <3>2 DEF t
  <2> QED BY <2>1, <2>2
<1> HIDE DEF Good
<1>3. Seq(A) \subseteq Good
  BY <1>1, <1>2, OneMoreMember
<1> QED BY <1>3 DEF Good

-----------------------------------------------------------------------------
(* Where a path leads. *)

\* What paths, names and numbers are written with.
Marks == STRING \cup {"/", ".", "~", " ", "download"}

LEMMA HomeIs ==
  Home \in Seq(Marks) /\ Home # <<>> /\ Home[1] = "/" /\ Home[Len(Home)] # " "
<1>1. Seq(STRING) \subseteq Seq(Marks)
  <2>1. STRING \subseteq Marks
    BY DEF Marks
  <2> HIDE DEF Marks
  <2> QED BY <2>1, SeqMonotonic
<1> QED BY <1>1, PathsAssumption

LEMMA RootedIs ==
  ASSUME NEW s \in Seq(Marks)
  PROVE Paths!IsRooted(s) <=> s # <<>> /\ s[1] = "/"
<1> HIDE DEF Marks
<1> QED BY DEF Paths!IsRooted

\* The directory d and the name w in it.
IsDirectoryText(d) == d = <<>> \/ d[Len(d)] = "/"
IsNameText(w) == FreeOf(w, "/") /\ w \notin {<<>>, <<".">>}

PlaceJoins(s, w) == Paths!Place(s \o w) = Paths!Place(s) \o Paths!Names(w)
LEMMA PlaceBehindSlash ==
  ASSUME NEW s \in Seq(Marks), NEW w \in Seq(Marks), s # <<>>, s[Len(s)] = "/"
  PROVE PlaceJoins(s, w)
<1> HIDE DEF Marks
<1> DEFINE t == s \o w
<1>1. t \in Seq(Marks) /\ t # <<>> /\ t[1] = s[1]
  <2>1. t \in Seq(Marks) /\ Len(t) = Len(s) + Len(w) /\ Len(s) > 0 /\ Len(w) \in Nat /\ Len(s) \in Nat
        /\ \A i \in 1..Len(s) + Len(w) : t[i] = IF i <= Len(s) THEN s[i] ELSE w[i - Len(s)]
    BY ConcatProperties
  <2>2. 1 \in 1..Len(s) + Len(w) /\ 1 <= Len(s)
    BY <2>1
  <2> HIDE DEF t
  <2> QED BY <2>1, <2>2
<1>2. Paths!IsRooted(t) <=> Paths!IsRooted(s)
  <2> HIDE DEF t
  <2> QED BY <1>1, RootedIs
<1>3. Paths!Names(t) = Paths!Names(s) \o Paths!Names(w)
  <2>1. NamesJoin(s, w)
    BY NamesBehindSlash
  <2> QED BY <2>1, Zenon DEF NamesJoin
<1>4. /\ Paths!Names(s) \in Seq(Seq(Marks)) /\ Paths!Names(w) \in Seq(Seq(Marks))
      /\ Paths!Names(Home) \in Seq(Seq(Marks))
  BY HomeIs, NamesType
<1>5. (Paths!Names(Home) \o Paths!Names(s)) \o Paths!Names(w) = Paths!Names(Home) \o (Paths!Names(s) \o Paths!Names(w))
  <2>1. Regroups(Paths!Names(Home), Paths!Names(s), Paths!Names(w))
    BY <1>4, Regroup
  <2> QED BY <2>1, Zenon DEF Regroups
<1> HIDE DEF t
<1>6. Paths!Place(t) = Paths!Place(s) \o Paths!Names(w)
  BY <1>2, <1>3, <1>5, Zenon DEF Paths!Place
<1> QED BY <1>6, Zenon DEF PlaceJoins, t

LEMMA PlaceType ==
  ASSUME NEW s \in Seq(Marks)
  PROVE Paths!Place(s) \in Seq(Seq(Marks))
<1> HIDE DEF Marks
<1>1. Paths!Names(s) \in Seq(Seq(Marks)) /\ Paths!Names(Home) \in Seq(Seq(Marks))
  BY HomeIs, NamesType
<1>2. Paths!Names(Home) \o Paths!Names(s) \in Seq(Seq(Marks))
  BY <1>1, ConcatProperties
<1> QED BY <1>1, <1>2, Zenon DEF Paths!Place

LEMMA PlaceOfNothing == Paths!Place(<<>>) = Paths!Names(Home)
<1> HIDE DEF Marks
<1>1. <<>> \in Seq(Marks) /\ Paths!Names(Home) \in Seq(Seq(Marks))
  BY HomeIs, NamesType, EmptySeq
<1>2. ~Paths!IsRooted(<<>>)
  BY DEF Paths!IsRooted
<1>3. Paths!Names(Home) \o <<>> = Paths!Names(Home)
  BY <1>1, ConcatEmptySeq
<1> QED BY <1>2, <1>3, NamesOfNothing, Zenon DEF Paths!Place

\* A name in a directory is one name more.
OneNameMore(d, w) ==
  /\ Paths!Names(d \o w) = Append(Paths!Names(d), w)
  /\ Paths!Place(d \o w) = Append(Paths!Place(d), w)

LEMMA ChildOfDirectory ==
  ASSUME NEW d \in Seq(Marks), NEW w \in Seq(Marks), IsDirectoryText(d), IsNameText(w)
  PROVE OneNameMore(d, w)
<1> HIDE DEF Marks
<1>1. Paths!Names(w) = <<w>>
  BY NamesOfName DEF IsNameText
<1>2. Paths!Names(d) \in Seq(Seq(Marks)) /\ Paths!Place(d) \in Seq(Seq(Marks)) /\ Paths!Names(Home) \in Seq(Seq(Marks))
  BY HomeIs, NamesType, PlaceType
<1>3. /\ Paths!Names(d) \o <<w>> = Append(Paths!Names(d), w)
      /\ Paths!Place(d) \o <<w>> = Append(Paths!Place(d), w)
  BY <1>2, AppendIsConcat
<1>4. Paths!Names(d \o w) = Append(Paths!Names(d), w)
  <2>1. NamesJoin(d, w)
    BY NamesBehindSlash DEF IsDirectoryText
  <2> QED BY <1>1, <1>3, <2>1, Zenon DEF NamesJoin
<1>5. Paths!Place(d \o w) = Append(Paths!Place(d), w)
  <2>1. CASE d # <<>>
    <3>1. PlaceJoins(d, w)
      BY <2>1, PlaceBehindSlash DEF IsDirectoryText
    <3> QED BY <1>1, <1>3, <3>1, Zenon DEF PlaceJoins
  <2>2. CASE d = <<>>
    <3>1. d \o w = w
      BY <2>2, ConcatEmptySeq
    <3>2. ~Paths!IsRooted(w)
      <4>1. w # <<>> => 1 \in DOMAIN w
        OBVIOUS
      <4> QED BY <4>1, RootedIs DEF IsNameText, FreeOf
    <3>3. Paths!Place(d) = Paths!Names(Home)
      BY <2>2, PlaceOfNothing
    <3> QED BY <1>1, <1>3, <3>1, <3>2, <3>3, Zenon DEF Paths!Place
  <2> QED BY <2>1, <2>2
<1> QED BY <1>4, <1>5, Zenon DEF OneNameMore

\* Without the slashes at its end a path leads to the same place, if it is not
\* all slashes.
LEMMA PlaceOfTrimmed ==
  ASSUME NEW s \in Seq(Marks), s # <<>> => Paths!TrimEnd(s, Paths!Slashes) # <<>>
  PROVE Paths!Place(Paths!TrimEnd(s, Paths!Slashes)) = Paths!Place(s)
<1> HIDE DEF Marks
<1> DEFINE r == Paths!TrimEnd(s, Paths!Slashes)
<1>1. EndTrimmed(s, Paths!Slashes, r, Marks)
  BY TrimEndIs
<1>2. Paths!Names(r) = Paths!Names(s)
  BY NamesOfTrimmed
<1>3. s # <<>> => r # <<>>
  OBVIOUS
<1> HIDE DEF r
<1>4. r \in Seq(Marks) /\ Len(r) <= Len(s) /\ \A i \in 1..Len(r) : r[i] = s[i]
  BY <1>1 DEF EndTrimmed
<1>5. Paths!IsRooted(r) <=> Paths!IsRooted(s)
  <2>1. r # <<>> => 1 \in 1..Len(r) /\ s # <<>>
    BY <1>4
  <2> QED BY <1>3, <1>4, <2>1, RootedIs
<1>6. Paths!Place(r) = Paths!Place(s)
  BY <1>2, <1>5, Zenon DEF Paths!Place
<1> QED BY <1>6 DEF r

LEMMA PlaceAtSlash ==
  ASSUME NEW s \in Seq(Marks), s # <<>>
  PROVE Paths!Place(Append(s, "/")) = Paths!Place(s)
<1>0. "/" \in Marks
  BY DEF Marks
<1> HIDE DEF Marks
<1> DEFINE t == Append(s, "/")
<1>1. t \in Seq(Marks) /\ t # <<>> /\ t[1] = s[1]
  <2>1. t \in Seq(Marks) /\ Len(t) = Len(s) + 1 /\ \A i \in 1..Len(s) : t[i] = s[i]
    BY <1>0, AppendProperties
  <2>2. 1 \in 1..Len(s)
    OBVIOUS
  <2> HIDE DEF t
  <2> QED BY <2>1, <2>2
<1>2. Paths!Names(t) = Paths!Names(s)
  BY <1>0, NamesAtSlash
<1> HIDE DEF t
<1>3. Paths!IsRooted(t) <=> Paths!IsRooted(s)
  BY <1>1, RootedIs
<1>4. Paths!Place(t) = Paths!Place(s)
  BY <1>2, <1>3, Zenon DEF Paths!Place
<1> QED BY <1>4 DEF t

\* The last name of a path that does not end in a slash.
LEMMA LastNameIs ==
  ASSUME NEW s \in Seq(Marks), s # <<>>, s[Len(s)] # "/", NEW at, NEW d, NEW w,
         ApartAt(s, "/", at, d, w, Marks)
  PROVE /\ IsDirectoryText(d) /\ w # <<>>
        /\ w # <<".">> => IsNameText(w) /\ OneNameMore(d, w)
<1> HIDE DEF Marks
<1>1. /\ at \in 0..Len(s)
      /\ d \in Seq(Marks) /\ Len(d) = at /\ (\A i \in 1..at : d[i] = s[i]) /\ (at > 0 => d[at] = "/")
      /\ w \in Seq(Marks) /\ Len(w) = Len(s) - at /\ FreeOf(w, "/")
  BY DEF ApartAt
<1>2. IsDirectoryText(d)
  BY <1>1 DEF IsDirectoryText
<1>3. w # <<>>
  <2> SUFFICES ASSUME w = <<>> PROVE FALSE
    OBVIOUS
  <2>1. at = Len(s) /\ at > 0 /\ at \in 1..at
    BY <1>1
  <2> QED BY <1>1, <2>1
<1>4. w # <<".">> => IsNameText(w)
  BY <1>1, <1>3 DEF IsNameText
<1> QED BY <1>1, <1>2, <1>3, <1>4, ChildOfDirectory

-----------------------------------------------------------------------------
(* Numbered names. *)

\* r is the name w with c put in at position k.
PutInAt(r, w, k, c) ==
  /\ r \in Seq(Marks) /\ Len(r) = Len(w) + 1 /\ k \in 1..Len(w) + 1
  /\ \A i \in 1..Len(w) + 1 : r[i] = IF i < k THEN w[i] ELSE IF i = k THEN c ELSE w[i - 1]

LEMMA PutInOnce ==
  ASSUME NEW w \in Seq(Marks), NEW k, NEW c, NEW r, NEW q, PutInAt(r, w, k, c), PutInAt(q, w, k, c)
  PROVE r = q
<1> HIDE DEF Marks
<1> QED BY SeqEqual DEF PutInAt

LEMMA PutInAtEnd ==
  ASSUME NEW w \in Seq(Marks), NEW c \in Marks
  PROVE PutInAt(w \o <<c>>, w, Len(w) + 1, c)
<1> HIDE DEF Marks
<1>1. w \o <<c>> = Append(w, c)
  BY AppendIsConcat
<1> DEFINE r == Append(w, c)
<1>2. r \in Seq(Marks) /\ Len(r) = Len(w) + 1 /\ Len(w) \in Nat /\ r[Len(w) + 1] = c /\ \A i \in 1..Len(w) : r[i] = w[i]
  BY AppendProperties
<1> HIDE DEF r
<1>3. PutInAt(r, w, Len(w) + 1, c)
  <2>1. \A i \in 1..Len(w) + 1 : (i < Len(w) + 1 => i \in 1..Len(w)) /\ (i < Len(w) + 1 \/ i = Len(w) + 1)
    BY <1>2
  <2>2. Len(w) + 1 \in 1..Len(w) + 1
    BY <1>2
  <2>3. \A i \in 1..Len(w) + 1 : r[i] = IF i < Len(w) + 1 THEN w[i] ELSE IF i = Len(w) + 1 THEN c ELSE w[i - 1]
    BY <1>2, <2>1
  <2> QED BY <1>2, <2>2, <2>3 DEF PutInAt
<1> QED BY <1>1, <1>3, Zenon DEF r

\* What is before position k, and from there on.
BeforeAndFrom(w, k, a, b) ==
  /\ a \in Seq(Marks) /\ Len(a) = k - 1 /\ \A i \in 1..k - 1 : a[i] = w[i]
  /\ b \in Seq(Marks) /\ Len(b) = Len(w) - k + 1 /\ \A i \in 1..Len(w) - k + 1 : b[i] = w[k + i - 1]
LEMMA PartsAt ==
  ASSUME NEW w \in Seq(Marks), NEW k \in 1..Len(w)
  PROVE BeforeAndFrom(w, k, SubSeq(w, 1, k - 1), SubSeq(w, k, Len(w)))
<1> HIDE DEF Marks
<1>1. Len(w) \in Nat /\ k - 1 \in 0..Len(w)
  OBVIOUS
<1> DEFINE a == SubSeq(w, 1, k - 1)
<1> DEFINE b == SubSeq(w, k, Len(w))
<1>2. a \in Seq(Marks) /\ Len(a) = k - 1 /\ \A i \in 1..k - 1 : a[i] = w[i]
  BY <1>1, FirstOnes DEF FirstOf
<1>3. b \in Seq(Marks) /\ Len(b) = Len(w) - k + 1 /\ \A i \in 1..Len(w) - k + 1 : b[i] = w[k + i - 1]
  BY <1>1, SubSeqProperties
<1> HIDE DEF a, b
<1>4. BeforeAndFrom(w, k, a, b)
  BY <1>2, <1>3 DEF BeforeAndFrom
<1> QED BY <1>4 DEF a, b

LEMMA PutInside ==
  ASSUME NEW w \in Seq(Marks), NEW c \in Marks, NEW k \in 1..Len(w), NEW a, NEW b,
         BeforeAndFrom(w, k, a, b)
  PROVE PutInAt((a \o <<c>>) \o b, w, k, c)
<1> HIDE DEF Marks
<1>1. /\ a \in Seq(Marks) /\ Len(a) = k - 1 /\ (\A i \in 1..k - 1 : a[i] = w[i])
      /\ b \in Seq(Marks) /\ Len(b) = Len(w) - k + 1 /\ (\A i \in 1..Len(w) - k + 1 : b[i] = w[k + i - 1])
      /\ Len(w) \in Nat
  BY DEF BeforeAndFrom
<1> DEFINE x == Append(a, c)
<1>2. a \o <<c>> = x
  BY <1>1, AppendIsConcat
<1>3. x \in Seq(Marks) /\ Len(x) = k /\ x[k] = c /\ \A i \in 1..k - 1 : x[i] = w[i]
  <2>1. x \in Seq(Marks) /\ Len(x) = Len(a) + 1 /\ x[Len(a) + 1] = c /\ \A i \in 1..Len(a) : x[i] = a[i]
    BY <1>1, AppendProperties
  <2> HIDE DEF x
  <2> QED BY <1>1, <2>1
<1> HIDE DEF x
<1> DEFINE z == x \o b
<1>4. ConcatenatesTo(x, b, z, Marks)
  BY <1>1, <1>3, Concatenated
<1> HIDE DEF z
<1>5. z \in Seq(Marks) /\ Len(z) = Len(w) + 1 /\ \A i \in 1..Len(w) + 1 : z[i] = IF i <= k THEN x[i] ELSE b[i - k]
  <2>1. Len(x) + Len(b) = Len(w) + 1
    BY <1>1, <1>3
  <2> QED BY <1>3, <1>4, <2>1 DEF ConcatenatesTo
<1>6. \A i \in 1..Len(w) + 1 : z[i] = IF i < k THEN w[i] ELSE IF i = k THEN c ELSE w[i - 1]
  <2> SUFFICES ASSUME NEW i \in 1..Len(w) + 1 PROVE z[i] = IF i < k THEN w[i] ELSE IF i = k THEN c ELSE w[i - 1]
    OBVIOUS
  <2>1. CASE i < k
    <3>1. i \in 1..k - 1 /\ i <= k
      BY <1>1, <2>1
    <3> QED BY <1>3, <1>5, <2>1, <3>1
  <2>2. CASE i = k
    BY <1>3, <1>5, <2>2
  <2>3. CASE i > k
    <3>1. i - k \in 1..Len(w) - k + 1 /\ k + (i - k) - 1 = i - 1 /\ ~(i <= k) /\ ~(i < k) /\ i # k
      BY <1>1, <2>3
    <3>2. b[i - k] = w[k + (i - k) - 1]
      BY <1>1, <3>1
    <3> QED BY <1>5, <3>1, <3>2
  <2> QED BY <1>1, <2>1, <2>2, <2>3
<1>7. PutInAt(z, w, k, c)
  <2>1. k \in 1..Len(w) + 1
    BY <1>1
  <2> QED BY <1>5, <1>6, <2>1 DEF PutInAt
<1> QED BY <1>2, <1>7, Zenon DEF z

\* Where the number goes.
NumberAt(w, isDirectory) ==
  IF isDirectory \/ Paths!LastAt(w, ".") <= 1 THEN Len(w) + 1 ELSE Paths!LastAt(w, ".")

LEMMA NumeralIs ==
  ASSUME NEW n \in CopyNumbers
  PROVE Numerals[n] \in Marks /\ Numerals[n] # "/" /\ Paths!Number(n) = <<Numerals[n]>>
BY PathsAssumption DEF Marks, Paths!Number, Paths!S

LEMMA LastDotIs ==
  ASSUME NEW w \in Seq(Marks)
  PROVE /\ Paths!LastAt(w, ".") \in 0..Len(w)
        /\ Paths!LastAt(w, ".") > 0 => w[Paths!LastAt(w, ".")] = "."
<1> HIDE DEF Marks
<1> DEFINE at == Paths!LastAt(w, ".")
<1> DEFINE d == SubSeq(w, 1, at)
<1> DEFINE v == Paths!After(w, at)
<1>1. ApartAt(w, ".", at, d, v, Marks)
  BY LastAtIs
<1> HIDE DEF at, d, v
<1>2. at \in 0..Len(w) /\ (\A i \in 1..at : d[i] = w[i]) /\ (at > 0 => d[at] = ".")
  BY <1>1 DEF ApartAt
<1>3. at > 0 => w[at] = "."
  <2>1. at > 0 => at \in 1..at
    BY <1>2
  <2> QED BY <1>2, <2>1
<1> QED BY <1>2, <1>3 DEF at

LEMMA NumberedNameIs ==
  ASSUME NEW w \in Seq(Marks), NEW n \in CopyNumbers, NEW isDirectory \in BOOLEAN
  PROVE PutInAt(Paths!NumberedName(w, n, isDirectory), w, NumberAt(w, isDirectory), Numerals[n])
<1>0. "." \in Marks
  BY DEF Marks
<1> HIDE DEF Marks
<1> DEFINE dot == Paths!LastAt(w, ".")
<1> DEFINE c == Numerals[n]
<1>1. dot \in 0..Len(w) /\ (dot > 0 => w[dot] = ".")
  BY LastDotIs
<1>2. c \in Marks /\ Paths!Number(n) = <<c>>
  BY NumeralIs
<1>3. CASE isDirectory \/ dot <= 1
  <2>1. Paths!NumberedName(w, n, isDirectory) = w \o <<c>>
    BY <1>2, <1>3 DEF Paths!NumberedName
  <2>2. NumberAt(w, isDirectory) = Len(w) + 1
    BY <1>3 DEF NumberAt
  <2>3. PutInAt(w \o <<c>>, w, Len(w) + 1, c)
    BY <1>2, PutInAtEnd
  <2> QED BY <2>1, <2>2, <2>3, Zenon
<1>4. CASE ~(isDirectory \/ dot <= 1)
  <2> DEFINE a == SubSeq(w, 1, dot - 1)
  <2> DEFINE b == SubSeq(w, dot, Len(w))
  <2> DEFINE v == Paths!After(w, dot)
  <2>1. Paths!NumberedName(w, n, isDirectory) = ((a \o <<c>>) \o <<".">>) \o v
    BY <1>2, <1>4 DEF Paths!NumberedName, Paths!Upto, Paths!Dot, Paths!S
  <2>2. NumberAt(w, isDirectory) = dot
    BY <1>4 DEF NumberAt
  <2> HIDE DEF c
  <2>3. ApartAt(w, ".", dot, SubSeq(w, 1, dot), v, Marks)
    BY LastAtIs
  <2> HIDE DEF dot
  <2>4. dot \in 1..Len(w) /\ w[dot] = "."
    BY <1>1, <1>4
  <2>5. BeforeAndFrom(w, dot, a, b)
    BY <2>4, PartsAt
  <2> HIDE DEF a, b, v
  <2>6. a \in Seq(Marks) /\ b \in Seq(Marks) /\ Len(b) = Len(w) - dot + 1 /\ \A i \in 1..Len(w) - dot + 1 : b[i] = w[dot + i - 1]
    BY <2>5 DEF BeforeAndFrom
  <2>7. v \in Seq(Marks) /\ Len(v) = Len(w) - dot /\ \A i \in 1..Len(v) : v[i] = w[dot + i]
    BY <2>3 DEF ApartAt
  <2>8. b = <<".">> \o v
    <3> DEFINE u == <<".">> \o v
    <3>1. <<".">> \in Seq(Marks) /\ Len(<<".">>) = 1 /\ <<".">>[1] = "."
      BY <1>0
    <3>2. ConcatenatesTo(<<".">>, v, u, Marks)
      BY <2>7, <3>1, Concatenated
    <3> HIDE DEF u
    <3>3. u \in Seq(Marks) /\ Len(u) = 1 + Len(v) /\ \A i \in 1..1 + Len(v) : u[i] = IF i <= 1 THEN "." ELSE v[i - 1]
      <4>1. /\ u \in Seq(Marks) /\ Len(u) = 1 + Len(v)
            /\ \A i \in 1..1 + Len(v) : u[i] = IF i <= 1 THEN <<".">>[i] ELSE v[i - 1]
        BY <3>1, <3>2 DEF ConcatenatesTo
      <4> QED BY <3>1, <4>1
    <3>4. Len(b) = Len(u)
      BY <2>4, <2>6, <2>7, <3>3
    <3>5. \A i \in 1..Len(b) : b[i] = u[i]
      <4> SUFFICES ASSUME NEW i \in 1..Len(b) PROVE b[i] = u[i]
        OBVIOUS
      <4>1. b[i] = w[dot + i - 1] /\ i \in 1..1 + Len(v)
        BY <2>4, <2>6, <2>7
      <4>2. CASE i = 1
        <5>1. dot + i - 1 = dot
          BY <2>4, <4>2
        <5> QED BY <2>4, <3>3, <4>1, <4>2, <5>1
      <4>3. CASE i > 1
        <5>1. i - 1 \in 1..Len(v) /\ dot + (i - 1) = dot + i - 1 /\ ~(i <= 1)
          BY <2>4, <2>7, <4>1, <4>3
        <5>2. v[i - 1] = w[dot + (i - 1)]
          BY <2>7, <5>1
        <5> QED BY <3>3, <4>1, <5>1, <5>2
      <4> QED BY <4>1, <4>2, <4>3
    <3> QED BY <2>6, <3>3, <3>4, <3>5, SeqEqual DEF u
  <2>9. ((a \o <<c>>) \o <<".">>) \o v = (a \o <<c>>) \o (<<".">> \o v)
    <3>1. <<".">> \in Seq(Marks) /\ <<c>> \in Seq(Marks)
      <4>1. <<c>> \in Seq(Marks)
        BY <1>2 DEF c
      <4> QED BY <1>0, <4>1
    <3>2. a \o <<c>> \in Seq(Marks)
      BY <2>6, <3>1, ConcatProperties
    <3>3. Regroups(a \o <<c>>, <<".">>, v)
      BY <2>7, <3>1, <3>2, Regroup
    <3> QED BY <3>3, Zenon DEF Regroups
  <2>10. PutInAt((a \o <<c>>) \o b, w, dot, c)
    BY <1>2, <2>4, <2>5, PutInside DEF c
  <2> QED BY <2>1, <2>2, <2>8, <2>9, <2>10, Zenon DEF c
<1> QED BY <1>3, <1>4

\* The local side puts it at the same place.
LEMMA NumberedLocalIs ==
  ASSUME NEW w \in Seq(Marks), w # Paths!DotDot, NEW n \in CopyNumbers, NEW isDirectory \in BOOLEAN
  PROVE PutInAt(Paths!numbered_local_name(w, n, isDirectory), w, NumberAt(w, isDirectory), Numerals[n])
<1> HIDE DEF Marks
<1> DEFINE dot == Paths!LastAt(w, ".")
<1> DEFINE c == Numerals[n]
<1> DEFINE stem == IF dot <= 1 THEN w ELSE SubSeq(w, 1, dot - 1)
<1>1. dot \in 0..Len(w)
  BY LastDotIs
<1>2. c \in Marks /\ Paths!Number(n) = <<c>>
  BY NumeralIs
<1>3. Paths!numbered_local_name(w, n, isDirectory) =
        IF isDirectory \/ stem = w THEN w \o <<c>> ELSE stem \o <<c>> \o SubSeq(w, dot, Len(w))
  BY <1>2 DEF Paths!numbered_local_name, Paths!file_name, Paths!Upto
<1>4. CASE isDirectory \/ dot <= 1
  <2>1. Paths!numbered_local_name(w, n, isDirectory) = w \o <<c>>
    BY <1>3, <1>4
  <2>2. NumberAt(w, isDirectory) = Len(w) + 1
    BY <1>4 DEF NumberAt
  <2>3. PutInAt(w \o <<c>>, w, Len(w) + 1, c)
    BY <1>2, PutInAtEnd
  <2> QED BY <2>1, <2>2, <2>3, Zenon
<1>5. CASE ~(isDirectory \/ dot <= 1)
  <2> DEFINE a == SubSeq(w, 1, dot - 1)
  <2> DEFINE b == SubSeq(w, dot, Len(w))
  <2>1. stem = a /\ NumberAt(w, isDirectory) = dot
    BY <1>5 DEF NumberAt
  <2> HIDE DEF c, dot, stem
  <2>2. dot \in 1..Len(w)
    BY <1>1, <1>5
  <2>3. BeforeAndFrom(w, dot, a, b)
    BY <2>2, PartsAt
  <2> HIDE DEF a
  <2>4. a # w
    BY <2>2, <2>3 DEF BeforeAndFrom
  <2>5. Paths!numbered_local_name(w, n, isDirectory) = (a \o <<c>>) \o b
    BY <1>3, <1>5, <2>1, <2>4
  <2> HIDE DEF b
  <2>6. PutInAt((a \o <<c>>) \o b, w, dot, c)
    BY <1>2, <2>2, <2>3, PutInside
  <2> QED BY <2>1, <2>5, <2>6, Zenon DEF c
<1> QED BY <1>4, <1>5

-----------------------------------------------------------------------------
LEMMA NameAdded ==
  ASSUME NEW S, NEW s \in Seq(S), NEW x
  PROVE Paths!Front(Append(s, x)) = s /\ Paths!Last(Append(s, x)) = x
<1>1. Parent(Append(s, x)) = s /\ Last(Append(s, x)) = x
  BY LastAdded
<1> QED BY <1>1 DEF Parent, Front, Last, Paths!Front, Paths!Last

\* What a name is after a number has been put in: a name.
LEMMA PutInName ==
  ASSUME NEW w \in Seq(Marks), IsNameText(w), NEW k, NEW c, c # "/", NEW r, PutInAt(r, w, k, c)
  PROVE IsNameText(r) /\ r # w
<1> HIDE DEF Marks
<1>1. /\ r \in Seq(Marks) /\ Len(r) = Len(w) + 1 /\ k \in 1..Len(w) + 1 /\ Len(w) \in Nat
      /\ \A i \in 1..Len(w) + 1 : r[i] = IF i < k THEN w[i] ELSE IF i = k THEN c ELSE w[i - 1]
  BY DEF PutInAt
<1>2. \A i \in 1..Len(w) : w[i] # "/"
  BY DEF IsNameText, FreeOf
<1>3. \A i \in 1..Len(r) : r[i] # "/"
  <2> SUFFICES ASSUME NEW i \in 1..Len(w) + 1 PROVE r[i] # "/"
    BY <1>1
  <2>1. CASE i < k
    <3>1. i \in 1..Len(w)
      BY <1>1, <2>1
    <3> QED BY <1>1, <1>2, <2>1, <3>1
  <2>2. CASE i = k
    BY <1>1, <2>2
  <2>3. CASE i > k
    <3>1. i - 1 \in 1..Len(w) /\ ~(i < k) /\ i # k
      BY <1>1, <2>3
    <3>2. w[i - 1] # "/"
      BY <1>2, <3>1
    <3> QED BY <1>1, <3>1, <3>2
  <2> QED BY <1>1, <2>1, <2>2, <2>3
<1>4. w # <<>> /\ Len(w) > 0
  BY DEF IsNameText
<1>5. Len(r) >= 2 /\ Len(r) # Len(w)
  BY <1>1, <1>4
<1>6. r # <<>> /\ r # <<".">>
  <2>1. Len(<<>>) = 0 /\ Len(<<".">>) = 1
    OBVIOUS
  <2>2. Len(r) # 0 /\ Len(r) # 1
    BY <1>1, <1>5
  <2> QED BY <2>1, <2>2, Zenon
<1> QED BY <1>1, <1>3, <1>5, <1>6 DEF IsNameText, FreeOf

LEMMA BehindTheFirst ==
  ASSUME NEW p \in Seq(Marks), NEW b \in Seq(Marks)
  PROVE Paths!EndsIn(p \o b, b)
<1> HIDE DEF Marks
<1> DEFINE z == p \o b
<1>1. ConcatenatesTo(p, b, z, Marks)
  BY Concatenated
<1> HIDE DEF z
<1>2. /\ z \in Seq(Marks) /\ Len(z) = Len(p) + Len(b) /\ Len(p) \in Nat /\ Len(b) \in Nat
      /\ \A i \in 1..Len(p) + Len(b) : z[i] = IF i <= Len(p) THEN p[i] ELSE b[i - Len(p)]
  BY <1>1 DEF ConcatenatesTo
<1>3. Len(z) - Len(b) = Len(p)
  BY <1>2
<1> DEFINE q == SubSeq(z, Len(p) + 1, Len(z))
<1>4. q = b
  <2>1. CASE b = <<>>
    <3>1. q = <<>>
      BY <1>2, <2>1, SubSeqEmpty
    <3> QED BY <2>1, <3>1
  <2>2. CASE b # <<>>
    <3>1. \A i \in Len(p) + 1 .. Len(z) : z[i] \in Marks
      BY <1>2
    <3>2. q \in Seq(Marks) /\ Len(q) = Len(b) /\ \A i \in 1..Len(b) : q[i] = z[Len(p) + 1 + i - 1]
      <4>1. Len(p) + 1 \in Int /\ Len(z) \in Int /\ Len(p) + 1 <= Len(z) /\ Len(z) - (Len(p) + 1) + 1 = Len(b)
        BY <1>2, <2>2
      <4> QED BY <3>1, <4>1, SubSeqProperties
    <3> HIDE DEF q
    <3>3. \A i \in 1..Len(b) : q[i] = b[i]
      <4> SUFFICES ASSUME NEW i \in 1..Len(b) PROVE q[i] = b[i]
        OBVIOUS
      <4>1. /\ Len(p) + 1 + i - 1 = Len(p) + i /\ Len(p) + i \in 1..Len(p) + Len(b) /\ ~(Len(p) + i <= Len(p))
            /\ (Len(p) + i) - Len(p) = i
        BY <1>2
      <4>2. q[i] = z[Len(p) + i]
        BY <3>2, <4>1
      <4>3. z[Len(p) + i] = b[(Len(p) + i) - Len(p)]
        BY <1>2, <4>1
      <4> QED BY <4>1, <4>2, <4>3
    <3> QED BY <3>2, <3>3, SeqEqual
  <2> QED BY <2>1, <2>2
<1>5. Paths!After(z, Len(z) - Len(b)) = q
  BY <1>3 DEF Paths!After
<1> HIDE DEF q
<1>6. Paths!EndsIn(z, b)
  BY <1>2, <1>4, <1>5 DEF Paths!EndsIn
<1> QED BY <1>6 DEF z

\* The directory and the name of a path that has one.
NamedPath(path, d, w) ==
  /\ d \in Seq(Marks) /\ w \in Seq(Marks) /\ IsDirectoryText(d) /\ IsNameText(w)
  /\ Paths!TrimEnd(path, Paths!Slashes) = d \o w
  /\ w = Paths!After(Paths!TrimEnd(path, Paths!Slashes), Paths!LastAt(Paths!TrimEnd(path, Paths!Slashes), "/"))
  /\ d = SubSeq(Paths!TrimEnd(path, Paths!Slashes), 1, Paths!LastAt(Paths!TrimEnd(path, Paths!Slashes), "/"))
  /\ Paths!NamesOf(path) = Append(Paths!Names(d), w)
  /\ Paths!Place(path) = Append(Paths!Place(d), w)
  /\ Paths!IsRooted(path) <=> Paths!IsRooted(d)

\* A path is rooted if its directory is.
LEMMA RootedAsDirectory ==
  ASSUME NEW d \in Seq(Marks), NEW w \in Seq(Marks), IsDirectoryText(d), IsNameText(w)
  PROVE Paths!IsRooted(d \o w) <=> Paths!IsRooted(d)
<1> HIDE DEF Marks
<1> DEFINE z == d \o w
<1>1. ConcatenatesTo(d, w, z, Marks)
  BY Concatenated
<1> HIDE DEF z
<1>2. /\ z \in Seq(Marks) /\ Len(z) = Len(d) + Len(w) /\ Len(d) \in Nat /\ Len(w) \in Nat /\ Len(w) > 0
      /\ \A i \in 1..Len(d) + Len(w) : z[i] = IF i <= Len(d) THEN d[i] ELSE w[i - Len(d)]
  BY <1>1 DEF ConcatenatesTo, IsNameText
<1>3. z # <<>> /\ 1 \in 1..Len(d) + Len(w)
  BY <1>2
<1>4. CASE d = <<>>
  <2>1. z[1] = w[1] /\ 1 \in 1..Len(w)
    <3>1. Len(d) = 0 /\ ~(1 <= Len(d)) /\ 1 - Len(d) = 1
      BY <1>4
    <3> QED BY <1>2, <1>3, <3>1
  <2>2. w[1] # "/"
    BY <2>1 DEF IsNameText, FreeOf
  <2> QED BY <1>2, <1>3, <1>4, <2>1, <2>2, RootedIs DEF z
<1>5. CASE d # <<>>
  <2>1. z[1] = d[1]
    BY <1>2, <1>3, <1>5
  <2> QED BY <1>2, <1>3, <1>5, <2>1, RootedIs DEF z
<1> QED BY <1>4, <1>5

LEMMA NamedPathIs ==
  ASSUME NEW path \in Seq(Marks), Paths!HasName(path)
  PROVE \E d, w : NamedPath(path, d, w)
<1> HIDE DEF Marks
<1> DEFINE t == Paths!TrimEnd(path, Paths!Slashes)
<1> DEFINE at == Paths!LastAt(t, "/")
<1> DEFINE d == SubSeq(t, 1, at)
<1> DEFINE w == Paths!After(t, at)
<1>1. w \notin {<<>>, <<".">>}
  BY DEF Paths!HasName, Paths!Dot, Paths!S
<1>2. EndTrimmed(path, Paths!Slashes, t, Marks)
  BY TrimEndIs
<1>2a. Paths!Names(Paths!TrimEnd(path, Paths!Slashes)) = Paths!Names(path)
  BY NamesOfTrimmed
<1>2b. (path # <<>> => Paths!TrimEnd(path, Paths!Slashes) # <<>>) => Paths!Place(Paths!TrimEnd(path, Paths!Slashes)) = Paths!Place(path)
  BY PlaceOfTrimmed
<1>2c. Paths!NamesOf(path) = Paths!Names(t)
  BY DEF Paths!NamesOf
<1>2d. (path # <<>> => t # <<>>) => Paths!Place(t) = Paths!Place(path)
  BY <1>2b
<1>3. t \in Seq(Marks) /\ Len(t) <= Len(path) /\ (\A i \in 1..Len(t) : t[i] = path[i])
      /\ (t # <<>> => t[Len(t)] # "/")
  BY <1>2 DEF EndTrimmed, Paths!Slashes
<1> DEFINE whole == t = Paths!TrimEnd(path, Paths!Slashes)
<1>3a. whole
  OBVIOUS
<1> HIDE DEF t, whole
<1>4. ApartAt(t, "/", at, d, w, Marks)
  BY <1>3, LastAtIs
<1>4a. w = Paths!After(t, Paths!LastAt(t, "/")) /\ d = SubSeq(t, 1, Paths!LastAt(t, "/"))
  OBVIOUS
<1> HIDE DEF d, w, at
<1>5. d \in Seq(Marks) /\ w \in Seq(Marks) /\ t = d \o w /\ Len(w) = Len(t) - at /\ at \in 0..Len(t)
  BY <1>4 DEF ApartAt
<1>6. t # <<>>
  BY <1>1, <1>3, <1>5
<1>7. IsDirectoryText(d) /\ IsNameText(w) /\ OneNameMore(d, w)
  BY <1>1, <1>3, <1>4, <1>6, LastNameIs
<1>8. Paths!Names(t) = Append(Paths!Names(d), w) /\ Paths!Place(t) = Append(Paths!Place(d), w)
  BY <1>5, <1>7, Zenon DEF OneNameMore
<1>9. Paths!IsRooted(path) <=> Paths!IsRooted(d)
  <2>1. Paths!IsRooted(t) <=> Paths!IsRooted(d)
    <3>1. Paths!IsRooted(d \o w) <=> Paths!IsRooted(d)
      BY <1>5, <1>7, RootedAsDirectory
    <3> QED BY <1>5, <3>1, Zenon
  <2>2. path # <<>> /\ 1 \in 1..Len(t)
    BY <1>3, <1>6
  <2> QED BY <1>3, <1>6, <2>1, <2>2, RootedIs
<1>10. NamedPath(path, d, w)
  <2>1. Paths!NamesOf(path) = Append(Paths!Names(d), w) /\ Paths!Place(path) = Append(Paths!Place(d), w)
    BY <1>2c, <1>2d, <1>6, <1>8, Zenon
  <2>2. w = Paths!After(Paths!TrimEnd(path, Paths!Slashes), Paths!LastAt(Paths!TrimEnd(path, Paths!Slashes), "/"))
        /\ d = SubSeq(Paths!TrimEnd(path, Paths!Slashes), 1, Paths!LastAt(Paths!TrimEnd(path, Paths!Slashes), "/"))
        /\ Paths!TrimEnd(path, Paths!Slashes) = d \o w
    BY <1>3a, <1>4a, <1>5, Zenon DEF whole
  <2> QED BY <1>5, <1>7, <1>9, <2>1, <2>2, Zenon DEF NamedPath
<1> QED BY <1>10

-----------------------------------------------------------------------------
LEMMA RootTrimmed == Paths!TrimEnd(<<"/">>, Paths!Slashes) = <<>>
<1>1. <<>> \in Seq({"/"}) /\ <<"/">> = Append(<<>>, "/")
  BY EmptySeq
<1>2. Paths!TrimEnd(Append(<<>>, "/"), Paths!Slashes) = Paths!TrimEnd(<<>>, Paths!Slashes)
  BY <1>1, TrimEndDrops DEF Paths!Slashes
<1>3. Paths!TrimEnd(<<>>, Paths!Slashes) = <<>>
  BY <1>1, TrimEndKeeps
<1> QED BY <1>1, <1>2, <1>3, Zenon

LEMMA SomethingBehind ==
  ASSUME NEW d \in Seq(Marks), NEW w \in Seq(Marks), w # <<>>
  PROVE d \o w # <<>>
<1> HIDE DEF Marks
<1>1. Len(d \o w) = Len(d) + Len(w) /\ Len(w) > 0 /\ Len(d) \in Nat /\ Len(w) \in Nat
  BY ConcatProperties
<1>2. Len(d \o w) # 0
  BY <1>1
<1> QED BY <1>2

\* The new path: the directory, and the name with the number in it.
NumbersIn(path, isDirectory, d, w) ==
  \A n \in CopyNumbers :
    Paths!numbered_conflict_path(path, n, isDirectory) = d \o Paths!NumberedName(w, n, isDirectory)
LEMMA NumberedPathIs ==
  ASSUME NEW path \in Seq(Marks), NEW d, NEW w, NamedPath(path, d, w), NEW isDirectory \in BOOLEAN
  PROVE NumbersIn(path, isDirectory, d, w)
<1> HIDE DEF Marks
<1> DEFINE t == Paths!TrimEnd(path, Paths!Slashes)
<1>1. /\ d \in Seq(Marks) /\ w \in Seq(Marks) /\ IsNameText(w)
      /\ t = d \o w /\ w = Paths!After(t, Paths!LastAt(t, "/")) /\ d = SubSeq(t, 1, Paths!LastAt(t, "/"))
  BY Zenon DEF NamedPath
<1>2. w # <<>>
  BY <1>1 DEF IsNameText
<1>3. t # <<>>
  BY <1>1, <1>2, SomethingBehind
<1>4. path # Paths!Slash
  BY <1>3, RootTrimmed DEF Paths!Slash, Paths!S
<1>5. ASSUME NEW n \in CopyNumbers
      PROVE Paths!numbered_conflict_path(path, n, isDirectory) = d \o Paths!NumberedName(w, n, isDirectory)
  <2>1. Paths!numbered_conflict_path(path, n, isDirectory) =
          SubSeq(t, 1, Paths!LastAt(t, "/")) \o Paths!NumberedName(Paths!After(t, Paths!LastAt(t, "/")), n, isDirectory)
    BY <1>4 DEF Paths!numbered_conflict_path
  <2> HIDE DEF t
  <2> QED BY <1>1, <2>1, Zenon
<1> QED BY <1>5 DEF NumbersIn

\* What is behind the same directory differs if the paths do.
LEMMA DifferentBehind ==
  ASSUME NEW d \in Seq(Marks), NEW x \in Seq(Marks), NEW y \in Seq(Marks), d \o x = d \o y
  PROVE x = y
<1> HIDE DEF Marks
<1> DEFINE u == d \o x
<1> DEFINE v == d \o y
<1>1. ConcatenatesTo(d, x, u, Marks) /\ ConcatenatesTo(d, y, v, Marks) /\ u = v
  BY Concatenated
<1> HIDE DEF u, v
<1>2. /\ Len(u) = Len(d) + Len(x) /\ Len(d) \in Nat /\ Len(x) \in Nat /\ Len(y) \in Nat
      /\ \A i \in 1..Len(d) + Len(x) : u[i] = IF i <= Len(d) THEN d[i] ELSE x[i - Len(d)]
      /\ Len(v) = Len(d) + Len(y)
      /\ \A i \in 1..Len(d) + Len(y) : v[i] = IF i <= Len(d) THEN d[i] ELSE y[i - Len(d)]
  BY <1>1 DEF ConcatenatesTo
<1>3. Len(x) = Len(y)
  BY <1>1, <1>2
<1>4. \A i \in 1..Len(x) : x[i] = y[i]
  <2> SUFFICES ASSUME NEW i \in 1..Len(x) PROVE x[i] = y[i]
    OBVIOUS
  <2>1. /\ Len(d) + i \in 1..Len(d) + Len(x) /\ Len(d) + i \in 1..Len(d) + Len(y)
        /\ ~(Len(d) + i <= Len(d)) /\ (Len(d) + i) - Len(d) = i
    BY <1>2, <1>3
  <2>2. u[Len(d) + i] = x[(Len(d) + i) - Len(d)] /\ v[Len(d) + i] = y[(Len(d) + i) - Len(d)]
    BY <1>2, <2>1
  <2> QED BY <1>1, <2>1, <2>2
<1> QED BY <1>3, <1>4, SeqEqual

\* What NumberedSibling and NumberedAlike say of one call.
MakesSibling(path, n, isDirectory, r) ==
  /\ Paths!Front(Paths!NamesOf(r)) = Paths!Front(Paths!NamesOf(path))
  /\ Paths!IsRooted(r) = Paths!IsRooted(path)
  /\ Paths!Last(Paths!NamesOf(r)) # Paths!Last(Paths!NamesOf(path))
  /\ \A m \in CopyNumbers \ {n} : Paths!numbered_conflict_path(path, m, isDirectory) # r
  /\ LET name == Paths!Last(Paths!NamesOf(path)) dot == Paths!LastAt(name, ".")
     IN dot > 1 /\ ~isDirectory => Paths!EndsIn(r, SubSeq(name, dot, Len(name)))
  /\ LET name == Paths!Last(Paths!NamesOf(path))
     IN name # Paths!DotDot => Paths!Last(Paths!NamesOf(r)) = Paths!numbered_local_name(name, n, isDirectory)

LEMMA NumberedPathIsSibling ==
  ASSUME NEW path \in Seq(Marks), Paths!HasName(path), NEW n \in CopyNumbers, NEW isDirectory \in BOOLEAN
  PROVE MakesSibling(path, n, isDirectory, Paths!numbered_conflict_path(path, n, isDirectory))
<1> HIDE DEF Marks
<1>1. PICK d, w : NamedPath(path, d, w)
  BY NamedPathIs
<1> DEFINE x == Paths!NumberedName(w, n, isDirectory)
<1> DEFINE r == Paths!numbered_conflict_path(path, n, isDirectory)
<1>2. /\ d \in Seq(Marks) /\ w \in Seq(Marks) /\ IsDirectoryText(d) /\ IsNameText(w)
      /\ Paths!NamesOf(path) = Append(Paths!Names(d), w)
      /\ Paths!IsRooted(path) <=> Paths!IsRooted(d)
  BY <1>1, Zenon DEF NamedPath
<1>3. \A m \in CopyNumbers :
        PutInAt(Paths!NumberedName(w, m, isDirectory), w, NumberAt(w, isDirectory), Numerals[m])
  BY <1>2, NumberedNameIs
<1>4. NumbersIn(path, isDirectory, d, w)
  BY <1>1, NumberedPathIs
<1>5. r = d \o x
  BY <1>4, Zenon DEF NumbersIn
<1>6. x \in Seq(Marks) /\ IsNameText(x) /\ x # w
  <2>1. PutInAt(x, w, NumberAt(w, isDirectory), Numerals[n])
    BY <1>3
  <2> HIDE DEF x
  <2>2. Numerals[n] # "/"
    BY NumeralIs
  <2>3. x \in Seq(Marks)
    BY <2>1 DEF PutInAt
  <2>4. IsNameText(x) /\ x # w
    BY <1>2, <2>1, <2>2, PutInName
  <2> QED BY <2>3, <2>4
<1>7. Paths!NamesOf(r) = Append(Paths!Names(d), x)
  <2> HIDE DEF r, x
  <2>1. OneNameMore(d, x)
    BY <1>2, <1>6, ChildOfDirectory
  <2>2. Paths!Names(r) = Append(Paths!Names(d), x)
    BY <1>5, <2>1, Zenon DEF OneNameMore
  <2>3. r \in Seq(Marks)
    BY <1>2, <1>5, <1>6, ConcatProperties
  <2>4. Paths!Names(Paths!TrimEnd(r, Paths!Slashes)) = Paths!Names(r)
    BY <2>3, NamesOfTrimmed
  <2> QED BY <2>2, <2>4, Zenon DEF Paths!NamesOf
<1>8. /\ Paths!Front(Paths!NamesOf(path)) = Paths!Names(d) /\ Paths!Last(Paths!NamesOf(path)) = w
      /\ Paths!Front(Paths!NamesOf(r)) = Paths!Names(d) /\ Paths!Last(Paths!NamesOf(r)) = x
  <2> HIDE DEF r, x
  <2>1. Paths!Names(d) \in Seq(Seq(Marks))
    BY <1>2, NamesType
  <2>2. \A y : Paths!Front(Append(Paths!Names(d), y)) = Paths!Names(d) /\ Paths!Last(Append(Paths!Names(d), y)) = y
    BY <2>1, NameAdded
  <2> QED BY <1>2, <1>7, <2>2, Zenon
<1>9. Paths!IsRooted(r) = Paths!IsRooted(path)
  <2> HIDE DEF r, x
  <2>1. Paths!IsRooted(d \o x) <=> Paths!IsRooted(d)
    BY <1>2, <1>6, RootedAsDirectory
  <2>2. Paths!IsRooted(r) <=> Paths!IsRooted(path)
    BY <1>2, <1>5, <2>1, Zenon
  <2>3. Paths!IsRooted(r) \in BOOLEAN /\ Paths!IsRooted(path) \in BOOLEAN
    BY DEF Paths!IsRooted
  <2> QED BY <2>2, <2>3
<1>10. ASSUME NEW m \in CopyNumbers \ {n} PROVE Paths!numbered_conflict_path(path, m, isDirectory) # r
  <2> DEFINE y == Paths!NumberedName(w, m, isDirectory)
  <2>1. PutInAt(y, w, NumberAt(w, isDirectory), Numerals[m]) /\ PutInAt(x, w, NumberAt(w, isDirectory), Numerals[n])
    BY <1>3
  <2>2. Paths!numbered_conflict_path(path, m, isDirectory) = d \o y
    BY <1>4, Zenon DEF NumbersIn
  <2> HIDE DEF x, y, r
  <2> DEFINE k == NumberAt(w, isDirectory)
  <2> HIDE DEF k
  <2>3. y \in Seq(Marks) /\ k \in 1..Len(w) + 1 /\ y[k] = Numerals[m] /\ x[k] = Numerals[n]
    <3>1. PutInAt(y, w, k, Numerals[m]) /\ PutInAt(x, w, k, Numerals[n])
      BY <2>1 DEF k
    <3>2. k \in 1..Len(w) + 1 /\ ~(k < k) /\ y \in Seq(Marks)
      BY <1>2, <3>1 DEF PutInAt
    <3> QED BY <3>1, <3>2 DEF PutInAt
  <2>4. Numerals[m] # Numerals[n]
    BY PathsAssumption
  <2>5. y # x
    BY <2>3, <2>4
  <2>6. d \o y # d \o x
    BY <1>2, <1>6, <2>3, <2>5, DifferentBehind
  <2> QED BY <1>5, <2>2, <2>6, Zenon
<1>11. ASSUME Paths!LastAt(w, ".") > 1, ~isDirectory
       PROVE Paths!EndsIn(r, SubSeq(w, Paths!LastAt(w, "."), Len(w)))
  <2> DEFINE k == Paths!LastAt(w, ".")
  <2> DEFINE a == SubSeq(w, 1, k - 1)
  <2> DEFINE b == SubSeq(w, k, Len(w))
  <2> DEFINE c == Numerals[n]
  <2>1. k \in 0..Len(w)
    BY <1>2, LastDotIs
  <2>2. PutInAt(x, w, k, c)
    <3>1. NumberAt(w, isDirectory) = k
      BY <1>11, <2>1 DEF NumberAt
    <3> QED BY <1>3, <3>1
  <2> HIDE DEF x, r, c
  <2>2a. k > 1
    BY <1>11
  <2> HIDE DEF k
  <2>3. k \in 1..Len(w)
    BY <2>1, <2>2a
  <2>4. BeforeAndFrom(w, k, a, b)
    BY <1>2, <2>3, PartsAt
  <2>4a. c \in Marks
    BY NumeralIs DEF c
  <2> HIDE DEF a, b
  <2>5. PutInAt((a \o <<c>>) \o b, w, k, c)
    BY <1>2, <2>3, <2>4, <2>4a, PutInside
  <2>6. x = (a \o <<c>>) \o b
    BY <1>2, <2>2, <2>5, PutInOnce
  <2>7. a \in Seq(Marks) /\ b \in Seq(Marks) /\ <<c>> \in Seq(Marks)
    <3>1. <<c>> \in Seq(Marks)
      BY <2>4a
    <3> QED BY <2>4, <3>1 DEF BeforeAndFrom
  <2> DEFINE u == a \o <<c>>
  <2>8. u \in Seq(Marks) /\ d \o u \in Seq(Marks)
    BY <1>2, <2>7, ConcatProperties
  <2> HIDE DEF u
  <2>9. (d \o u) \o b = d \o (u \o b)
    <3>1. Regroups(d, u, b)
      BY <1>2, <2>7, <2>8, Regroup
    <3> QED BY <3>1, Zenon DEF Regroups
  <2>10. Paths!EndsIn((d \o u) \o b, b)
    BY <2>7, <2>8, BehindTheFirst
  <2> QED BY <1>5, <2>6, <2>9, <2>10, Zenon DEF u, b, k
<1>12. w # Paths!DotDot => x = Paths!numbered_local_name(w, n, isDirectory)
  <2>0. SUFFICES ASSUME w # Paths!DotDot
                 PROVE  x = Paths!numbered_local_name(w, n, isDirectory)
    OBVIOUS
  <2>1. PutInAt(x, w, NumberAt(w, isDirectory), Numerals[n])
    BY <1>3
  <2>2. PutInAt(Paths!numbered_local_name(w, n, isDirectory), w, NumberAt(w, isDirectory), Numerals[n])
    BY <1>2, <2>0, NumberedLocalIs
  <2> HIDE DEF x
  <2> QED BY <1>2, <2>1, <2>2, PutInOnce
<1> HIDE DEF x, r
<1>13. MakesSibling(path, n, isDirectory, r)
  BY <1>6, <1>8, <1>9, <1>10, <1>11, <1>12, Zenon DEF MakesSibling
<1> QED BY <1>13 DEF r

-----------------------------------------------------------------------------
(* Lookups. *)

LEMMA LookedUpAtPlace ==
  ASSUME NEW path \in Seq(Marks), Paths!IsRooted(Paths!Trim(path)), Paths!HasName(Paths!Trim(path))
  PROVE Paths!LookedUp(path) = Paths!Place(Paths!Trim(path))
<1>0. "/" \in Marks
  BY DEF Marks
<1> HIDE DEF Marks
<1> DEFINE p == Paths!Trim(path)
<1>1. p \in Seq(Marks)
  BY TrimIs
<1> DEFINE t == Paths!TrimEnd(p, Paths!Slashes)
<1> DEFINE at == Paths!LastAt(t, "/")
<1> DEFINE parent == IF at <= 1 THEN Paths!Slash ELSE Paths!Upto(t, at)
<1>2. Paths!LookedUp(path) = Append(Paths!Place(parent), Paths!After(t, at))
  BY DEF Paths!LookedUp, Paths!split_remote_parent
<1>2a. Paths!IsRooted(p) /\ Paths!HasName(p)
  OBVIOUS
<1> HIDE DEF p
<1>3. PICK d, w : NamedPath(p, d, w)
  BY <1>1, <1>2a, NamedPathIs
<1>4. /\ d \in Seq(Marks) /\ IsDirectoryText(d) /\ w = Paths!After(t, at) /\ d = SubSeq(t, 1, at)
      /\ Paths!Place(p) = Append(Paths!Place(d), w) /\ Paths!IsRooted(d)
  BY <1>2a, <1>3, Zenon DEF NamedPath
<1>5. EndTrimmed(p, Paths!Slashes, t, Marks)
  BY <1>1, TrimEndIs
<1> HIDE DEF t
<1>6. t \in Seq(Marks)
  BY <1>5 DEF EndTrimmed
<1>7. ApartAt(t, "/", at, SubSeq(t, 1, at), Paths!After(t, at), Marks)
  BY <1>6, LastAtIs
<1>8. at \in 0..Len(t) /\ Len(d) = at /\ \A i \in 1..at : d[i] = t[i]
  BY <1>4, <1>7 DEF ApartAt
<1> HIDE DEF at
<1>9. d # <<>> /\ d[1] = "/" /\ d[Len(d)] = "/"
  BY <1>4, RootedIs DEF IsDirectoryText
<1>10. Paths!Place(parent) = Paths!Place(d)
  <2>1. CASE at <= 1
    <3>1. Len(d) = 1
      BY <1>4, <1>8, <1>9, <2>1
    <3>2. d = <<"/">>
      <4> DEFINE q == <<"/">>
      <4>1. q \in Seq(Marks) /\ Len(q) = 1 /\ q[1] = "/"
        BY <1>0
      <4> HIDE DEF q
      <4>2. \A i \in 1..Len(d) : d[i] = q[i]
        <5>1. \A i \in 1..Len(d) : i = 1
          BY <3>1
        <5> QED BY <1>9, <4>1, <5>1
      <4>3. d = q
        BY <1>4, <3>1, <4>1, <4>2, SeqEqual
      <4> QED BY <4>3 DEF q
    <3> QED BY <2>1, <3>2 DEF Paths!Slash, Paths!S
  <2>2. CASE at > 1
    <3> DEFINE e == SubSeq(t, 1, at - 1)
    <3>1. at - 1 \in 0..Len(t)
      BY <1>8, <2>2
    <3>2. e \in Seq(Marks) /\ Len(e) = at - 1 /\ \A i \in 1..at - 1 : e[i] = t[i]
      BY <1>6, <3>1, FirstOnes DEF FirstOf
    <3>3. parent = e
      BY <1>8, <2>2 DEF Paths!Upto
    <3> HIDE DEF e
    <3>4. Len(d) = Len(e) + 1 /\ \A i \in 1..Len(e) : d[i] = e[i]
      BY <1>8, <3>2
    <3>5. d = Append(e, d[Len(e) + 1])
      BY <1>4, <3>2, <3>4, IsAppend
    <3>6. d = Append(e, "/")
      BY <1>9, <3>4, <3>5
    <3>7. e # <<>>
      BY <1>8, <2>2, <3>2
    <3>8. Paths!Place(Append(e, "/")) = Paths!Place(e)
      BY <3>2, <3>7, PlaceAtSlash
    <3> QED BY <3>3, <3>6, <3>8, Zenon
  <2> QED BY <1>8, <2>1, <2>2
<1> HIDE DEF parent
<1>11. Paths!LookedUp(path) = Paths!Place(p)
  BY <1>2, <1>4, <1>10, Zenon
<1> QED BY <1>11 DEF p

-----------------------------------------------------------------------------
(* Uploads. *)

LEMMA NamesOfDot == Paths!Names(<<".">>) = <<>>
<1> DEFINE A == {"."}
<1>1. <<>> \in Seq(A) /\ <<".">> \in Seq(A) /\ "." \in A /\ <<".">> = Append(<<>>, ".")
  BY EmptySeq
<1>2. Split(<<>>, "/") = <<<<>>>> /\ <<<<>>>> = Append(<<>>, <<>>) /\ <<>> \in Seq(Seq(A))
  BY SplitOfNothing, EmptySeq
<1>3. Split(Append(<<>>, "."), "/") = SplitMore(Split(<<>>, "/"), ".", "/")
  BY <1>1, SplitOfMore
<1>3a. "." \in A /\ <<>> \in Seq(A) /\ <<>> \in Seq(Seq(A))
  BY <1>1, <1>2
<1>4. SplitMore(Append(<<>>, <<>>), ".", "/") = Append(<<>>, Append(<<>>, "."))
  <2> HIDE DEF A
  <2>1. \A ps \in Seq(Seq(A)), p \in Seq(A) : SplitMore(Append(ps, p), ".", "/") = Append(ps, Append(p, "."))
    BY <1>3a, SplitMoreOf
  <2> QED BY <1>3a, <2>1, Zenon
<1>5. Split(<<".">>, "/") = Append(<<>>, <<".">>)
  BY <1>1, <1>2, <1>3, <1>4, Zenon
<1> HIDE DEF A
<1>6. Select(Append(<<>>, <<".">>), RealNames(A)) = PickMore(Select(<<>>, RealNames(A)), <<".">>, RealNames(A))
  BY <1>1, <1>2, SelectOfMore
<1>7. <<".">> \notin RealNames(A)
  BY DEF RealNames
<1>8. Select(<<>>, RealNames(A)) = <<>>
  BY SelectOfNothing
<1>9. Paths!Names(<<".">>) = NamedOf(Split(<<".">>, "/"), A)
  BY <1>1, NamesIs
<1> QED BY <1>5, <1>6, <1>7, <1>8, <1>9, Zenon DEF NamedOf, PickMore

LEMMA PlaceOfHome == Paths!Place(Home) = Paths!Names(Home)
<1> HIDE DEF Marks
<1>1. Paths!IsRooted(Home)
  BY HomeIs, RootedIs
<1> QED BY <1>1 DEF Paths!Place

LEMMA PlaceOfDot == Paths!Place(<<".">>) = Paths!Names(Home)
<1>0. <<".">> \in Seq(Marks) /\ <<".">> # <<>> /\ <<".">>[1] # "/"
  BY DEF Marks
<1> HIDE DEF Marks
<1>1. ~Paths!IsRooted(<<".">>)
  BY <1>0, RootedIs
<1>2. Paths!Names(Home) \o <<>> = Paths!Names(Home)
  <2>1. Paths!Names(Home) \in Seq(Seq(Marks))
    BY HomeIs, NamesType
  <2> QED BY <2>1, ConcatEmptySeq
<1> QED BY <1>1, <1>2, NamesOfDot, Zenon DEF Paths!Place

\* What realpath answers for ".", or "." if it fails.
IsLogin(home) == home = Home \/ home = <<".">>

\* The home directory with a slash behind it.
HomeSlash(home) == IF home = Paths!Slash THEN Paths!Slash ELSE Paths!TrimEnd(home, Paths!Slashes) \o Paths!Slash
LeadsHome(e) ==
  /\ e \in Seq(Marks) /\ e # <<>> /\ e[Len(e)] = "/" /\ e[1] # " "
  /\ Paths!Place(e) = Paths!Names(Home)

LEMMA HomeSlashLeadsHome ==
  ASSUME NEW home, IsLogin(home)
  PROVE LeadsHome(HomeSlash(home))
<1>0. "/" \in Marks /\ "." \in Marks /\ Paths!Slash = <<"/">> /\ <<"/">> \in Seq(Marks) /\ <<".">> \in Seq(Marks)
  BY DEF Marks, Paths!Slash, Paths!S
<1> HIDE DEF Marks
<1>1. CASE home = Paths!Slash
  <2>1. home = Home
    <3>1. <<"/">> # <<".">>
      OBVIOUS
    <3> QED BY <1>0, <1>1, <3>1, Zenon DEF IsLogin
  <2>2. HomeSlash(home) = <<"/">>
    BY <1>0, <1>1 DEF HomeSlash
  <2>3. <<"/">> # <<>> /\ <<"/">>[Len(<<"/">>)] = "/" /\ <<"/">>[1] # " "
    OBVIOUS
  <2> QED BY <1>0, <1>1, <2>1, <2>2, <2>3, PlaceOfHome DEF LeadsHome
<1>2. CASE home # Paths!Slash
  <2> DEFINE q == Paths!TrimEnd(home, Paths!Slashes)
  <2> DEFINE e == Append(q, "/")
  <2>1. home \in Seq(Marks) /\ home # <<>>
    <3>1. <<".">> # <<>>
      OBVIOUS
    <3>2. <<".">> \in Seq(Marks)
      BY <1>0
    <3>3. home = Home \/ home = <<".">>
      BY DEF IsLogin
    <3> QED BY <3>1, <3>2, <3>3, HomeIs, Zenon
  <2>2. EndTrimmed(home, Paths!Slashes, q, Marks)
    BY <2>1, TrimEndIs
  <2>3. Paths!Names(q) = Paths!Names(home)
    BY <2>1, NamesOfTrimmed
  <2>4. HomeSlash(home) = q \o <<"/">>
    BY <1>0, <1>2 DEF HomeSlash
  <2> HIDE DEF q
  <2>5. q \in Seq(Marks) /\ Len(q) <= Len(home) /\ \A i \in 1..Len(q) : q[i] = home[i]
    BY <2>2 DEF EndTrimmed
  <2>6. q \o <<"/">> = e
    BY <1>0, <2>5, AppendIsConcat
  <2>7. e \in Seq(Marks) /\ Len(e) = Len(q) + 1 /\ Len(q) \in Nat /\ e[Len(q) + 1] = "/" /\ \A i \in 1..Len(q) : e[i] = q[i]
    BY <1>0, <2>5, AppendProperties
  <2>8. Paths!Names(e) = Paths!Names(q)
    BY <1>0, <2>5, NamesAtSlash
  <2> HIDE DEF e
  <2>9. e # <<>> /\ e[Len(e)] = "/"
    BY <2>7
  <2>10. CASE home = Home
    <3>1. e[1] = "/"
      <4>1. CASE q = <<>>
        BY <2>7, <4>1
      <4>2. CASE q # <<>>
        <5>1. 1 \in 1..Len(q)
          BY <2>5, <4>2
        <5> QED BY <2>5, <2>7, <2>10, <5>1, HomeIs
      <4> QED BY <4>1, <4>2
    <3>2. Paths!IsRooted(e)
      BY <2>7, <2>9, <3>1, RootedIs
    <3>3. Paths!Place(e) = Paths!Names(Home)
      BY <2>3, <2>8, <2>10, <3>2, Zenon DEF Paths!Place
    <3>4. e[1] # " "
      BY <3>1
    <3>5. LeadsHome(e)
      BY <2>7, <2>9, <3>3, <3>4 DEF LeadsHome
    <3> QED BY <2>4, <2>6, <3>5, Zenon
  <2>11. CASE home = <<".">>
    <3>0. <<".">>[Len(<<".">>)] \notin Paths!Slashes
      BY DEF Paths!Slashes
    <3>1. q = <<".">>
      <4>1. Paths!TrimEnd(<<".">>, Paths!Slashes) = <<".">>
        BY <1>0, <3>0, TrimEndKeeps
      <4> QED BY <2>11, <4>1 DEF q
    <3>2. Paths!Place(e) = Paths!Place(<<".">>)
      <4>1. <<".">> # <<>>
        OBVIOUS
      <4>2. Paths!Place(Append(<<".">>, "/")) = Paths!Place(<<".">>)
        BY <1>0, <4>1, PlaceAtSlash
      <4> QED BY <3>1, <4>2 DEF e
    <3>3. e[1] # " "
      <4>1. 1 \in 1..Len(q) /\ q[1] = "."
        BY <3>1
      <4> QED BY <2>7, <4>1
    <3>4. LeadsHome(e)
      BY <2>7, <2>9, <3>2, <3>3, PlaceOfDot DEF LeadsHome
    <3> QED BY <2>4, <2>6, <3>4, Zenon
  <2> QED BY <2>10, <2>11 DEF IsLogin
<1> QED BY <1>1, <1>2

\* Where a path is meant to lead, with "~" for the home directory.
MeantPlace(t) ==
  IF t = <<"~">> THEN Paths!Names(Home)
  ELSE IF Paths!IsPrefix(<<"~", "/">>, t) THEN Paths!Names(Home) \o Paths!Names(SubSeq(t, 3, Len(t)))
  ELSE Paths!Place(t)

\* What normalize_remote_path makes of it leads there, too.
NormalFor(r, t) ==
  /\ r \in Seq(Marks) /\ r # <<>> /\ TrimmedText(r)
  /\ Paths!Place(r) = MeantPlace(t)
  /\ t # <<>> /\ t[Len(t)] = "/" => r[Len(r)] = "/"

LEMMA TildeIs ==
  ASSUME NEW t \in Seq(Marks), Paths!IsPrefix(<<"~", "/">>, t)
  PROVE Len(t) >= 2 /\ t[1] = "~" /\ t[2] = "/"
<1>0. "~" \in Marks /\ "/" \in Marks
  BY DEF Marks
<1> HIDE DEF Marks
<1>1. <<"~", "/">> \in Seq(Marks) /\ Len(<<"~", "/">>) = 2 /\ <<"~", "/">>[1] = "~" /\ <<"~", "/">>[2] = "/"
  BY <1>0
<1>2. IsPrefix(<<"~", "/">>, t)
  BY DEF Paths!IsPrefix, IsPrefix
<1> DEFINE u == <<"~", "/">>
<1> HIDE DEF u
<1>3. u \in Seq(Marks) /\ Len(u) = 2 /\ u[1] = "~" /\ u[2] = "/" /\ IsPrefix(u, t)
  BY <1>1, <1>2 DEF u
<1>4. Len(u) <= Len(t) /\ \A i \in 1..Len(u) : u[i] = t[i]
  BY <1>3, PrefixIff
<1>5. 1 \in 1..Len(u) /\ 2 \in 1..Len(u)
  BY <1>3
<1> QED BY <1>3, <1>4, <1>5

LEMMA NormalIs ==
  ASSUME NEW path \in Seq(Marks), NEW home, IsLogin(home)
  PROVE NormalFor(Paths!normalize_remote_path(path, home), Paths!Trim(path))
<1>00. "." \in Marks /\ "~" \in Marks
  BY DEF Marks
<1> HIDE DEF Marks
<1>0. <<".">> \in Seq(Marks) /\ <<"~">> \in Seq(Marks)
  BY <1>00
<1> DEFINE t == Paths!Trim(path)
<1> DEFINE r == Paths!normalize_remote_path(path, home)
<1> DEFINE rest == SubSeq(t, 3, Len(t))
<1>1. t \in Seq(Marks) /\ TrimmedText(t)
  BY TrimIs
<1>2. r = IF t \in {<<>>, <<".">>, <<"~">>} THEN home
          ELSE IF Paths!IsPrefix(<<"~", "/">>, t) THEN Paths!remote_join(home, rest) ELSE t
  BY DEF Paths!normalize_remote_path, Paths!Dot, Paths!S
<1> HIDE DEF t, r
<1>3. CASE t \in {<<>>, <<".">>, <<"~">>}
  <2>1. r = home
    BY <1>2, <1>3
  <2>2. Paths!Place(home) = Paths!Names(Home)
    BY PlaceOfHome, PlaceOfDot DEF IsLogin
  <2>3. MeantPlace(t) = Paths!Names(Home)
    <3>1. CASE t = <<"~">>
      BY <3>1 DEF MeantPlace
    <3>2. CASE t # <<"~">>
      <4>1. ~Paths!IsPrefix(<<"~", "/">>, t)
        <5>1. Len(<<>>) = 0 /\ Len(<<".">>) = 1
          OBVIOUS
        <5>2. Len(t) = 0 \/ Len(t) = 1
          BY <1>3, <3>2, <5>1, Zenon
        <5>3. ~(Len(t) >= 2)
          BY <5>2
        <5> QED BY <1>1, <5>3, TildeIs
      <4> QED BY <1>3, <3>2, <4>1, PlaceOfNothing, PlaceOfDot DEF MeantPlace
    <3> QED BY <3>1, <3>2
  <2>4. home \in Seq(Marks) /\ home # <<>> /\ TrimmedText(home)
    <3>1. TrimmedText(Home)
      BY HomeIs DEF TrimmedText
    <3>2. TrimmedText(<<".">>) /\ <<".">> # <<>>
      BY DEF TrimmedText
    <3> QED BY <1>0, <3>1, <3>2, HomeIs, Zenon DEF IsLogin
  <2>5. ~(t # <<>> /\ t[Len(t)] = "/")
    <3>1. <<".">>[Len(<<".">>)] # "/" /\ <<"~">>[Len(<<"~">>)] # "/"
      OBVIOUS
    <3> QED BY <1>3, <3>1
  <2> QED BY <2>1, <2>2, <2>3, <2>4, <2>5, Zenon DEF NormalFor, t, r
<1>4. CASE t \notin {<<>>, <<".">>, <<"~">>} /\ Paths!IsPrefix(<<"~", "/">>, t)
  <2> DEFINE e == HomeSlash(home)
  <2>1. LeadsHome(e)
    BY HomeSlashLeadsHome
  <2>2. r = e \o rest
    <3>1. r = Paths!remote_join(home, rest)
      BY <1>2, <1>4
    <3> QED BY <3>1, Zenon DEF Paths!remote_join, HomeSlash
  <2>3. Len(t) >= 2 /\ t[2] = "/"
    BY <1>1, <1>4, TildeIs
  <2> HIDE DEF e
  <2>4. /\ e \in Seq(Marks) /\ e # <<>> /\ e[Len(e)] = "/" /\ e[1] # " "
        /\ Paths!Place(e) = Paths!Names(Home)
    BY <2>1 DEF LeadsHome
  <2>5. /\ rest \in Seq(Marks) /\ Len(rest) = Len(t) - 2
        /\ rest # <<>> => rest[Len(rest)] = t[Len(t)]
    <3>1. CASE Len(t) = 2
      <4>1. rest = <<>>
        BY <3>1, SubSeqEmpty
      <4> QED BY <3>1, <4>1, EmptySeq
    <3>2. CASE Len(t) > 2
      <4>1. \A i \in 3..Len(t) : t[i] \in Marks
        BY <1>1
      <4>1a. Len(t) \in Int /\ 3 <= Len(t) /\ Len(t) - 3 + 1 = Len(t) - 2
        BY <1>1, <3>2
      <4>2. rest \in Seq(Marks) /\ Len(rest) = Len(t) - 3 + 1 /\ \A i \in 1..Len(t) - 3 + 1 : rest[i] = t[3 + i - 1]
        BY <4>1, <4>1a, SubSeqProperties
      <4> HIDE DEF rest
      <4>3. Len(t) - 2 \in 1..Len(t) - 3 + 1 /\ 3 + (Len(t) - 2) - 1 = Len(t)
        BY <1>1, <3>2
      <4> QED BY <4>1a, <4>2, <4>3
    <3>3. Len(t) = 2 \/ Len(t) > 2
      <4>1. Len(t) \in Nat
        BY <1>1
      <4>2. Len(t) >= 2
        BY <2>3
      <4>3. \A k \in Nat : k >= 2 => k = 2 \/ k > 2
        OBVIOUS
      <4> QED BY <4>1, <4>2, <4>3, Zenon
    <3> QED BY <3>1, <3>2, <3>3, Zenon
  <2> HIDE DEF rest
  <2>6. Paths!Place(r) = Paths!Names(Home) \o Paths!Names(rest)
    <3>1. PlaceJoins(e, rest)
      BY <2>4, <2>5, PlaceBehindSlash
    <3> QED BY <2>2, <2>4, <3>1, Zenon DEF PlaceJoins
  <2>7. MeantPlace(t) = Paths!Names(Home) \o Paths!Names(rest)
    BY <1>4, Zenon DEF MeantPlace, rest
  <2>8. r \in Seq(Marks) /\ r # <<>> /\ r[1] = e[1] /\ r[Len(r)] = t[Len(t)]
    <3>1. ConcatenatesTo(e, rest, r, Marks)
      <4>1. ConcatenatesTo(e, rest, e \o rest, Marks)
        BY <2>4, <2>5, Concatenated
      <4> QED BY <2>2, <4>1, Zenon
    <3>1a. /\ r \in Seq(Marks) /\ Len(r) = Len(e) + Len(rest)
           /\ \A i \in 1..Len(e) + Len(rest) : r[i] = IF i <= Len(e) THEN e[i] ELSE rest[i - Len(e)]
      BY <3>1, Zenon DEF ConcatenatesTo
    <3>1b. Len(e) \in Nat /\ Len(rest) \in Nat /\ Len(e) > 0
      <4>1. e \in Seq(Marks) /\ e # <<>> /\ rest \in Seq(Marks)
        BY <2>4, <2>5, Zenon
      <4> QED BY <4>1
    <3>2. /\ r \in Seq(Marks) /\ Len(r) = Len(e) + Len(rest) /\ Len(e) > 0 /\ Len(e) \in Nat /\ Len(rest) \in Nat
          /\ \A i \in 1..Len(e) + Len(rest) : r[i] = IF i <= Len(e) THEN e[i] ELSE rest[i - Len(e)]
      BY <3>1a, <3>1b, Zenon
    <3>3. r # <<>> /\ r[1] = e[1]
      <4>1. 1 \in 1..Len(e) + Len(rest) /\ 1 <= Len(e)
        BY <3>2
      <4> QED BY <3>2, <4>1
    <3>4. CASE rest = <<>>
      <4>0. Len(rest) = 0
        BY <2>5, <3>4, EmptySeq
      <4>0a. Len(rest) = Len(t) - 2 /\ Len(t) \in Nat
        BY <1>1, <2>5
      <4>0b. Len(r) = Len(e) + Len(rest) /\ Len(e) > 0 /\ Len(e) \in Nat
        BY <3>2
      <4>1. Len(rest) = 0 /\ Len(t) = 2 /\ Len(r) = Len(e) /\ Len(e) \in 1..Len(e) + Len(rest)
        <5>1. \A k, l, m, n \in Nat :
                l = 0 /\ l = k - 2 /\ m = n + l /\ n > 0 => k = 2 /\ m = n /\ n \in 1..n + l
          OBVIOUS
        <5>2. Len(rest) \in Nat /\ Len(r) \in Nat
          BY <3>2, <2>5
        <5> QED BY <4>0, <4>0a, <4>0b, <5>1, <5>2, Zenon
      <4>2. r[Len(e)] = e[Len(e)]
        BY <3>2, <4>1
      <4>3. t[Len(t)] = "/"
        BY <2>3, <4>1
      <4> QED BY <2>4, <3>2, <3>3, <4>1, <4>2, <4>3
    <3>5. CASE rest # <<>>
      <4>1. Len(rest) > 0 /\ Len(r) \in 1..Len(e) + Len(rest) /\ ~(Len(r) <= Len(e)) /\ Len(r) - Len(e) = Len(rest)
        BY <2>5, <3>2, <3>5
      <4>2. r[Len(r)] = rest[Len(r) - Len(e)]
        BY <3>2, <4>1
      <4> QED BY <2>5, <3>2, <3>3, <3>5, <4>1, <4>2
    <3> QED BY <3>4, <3>5
  <2>9. t # <<>> /\ t[Len(t)] # " "
    BY <1>1, <1>4 DEF TrimmedText
  <2>10. TrimmedText(r) /\ (t # <<>> /\ t[Len(t)] = "/" => r[Len(r)] = "/")
    BY <2>4, <2>8, <2>9 DEF TrimmedText
  <2> QED BY <2>6, <2>7, <2>8, <2>10, Zenon DEF NormalFor, t, r
<1>5. CASE t \notin {<<>>, <<".">>, <<"~">>} /\ ~Paths!IsPrefix(<<"~", "/">>, t)
  <2>1. r = t
    BY <1>2, <1>5
  <2>2. MeantPlace(t) = Paths!Place(t)
    BY <1>5 DEF MeantPlace
  <2>3. NormalFor(r, t)
    BY <1>1, <1>5, <2>1, <2>2 DEF NormalFor
  <2> QED BY <2>3 DEF t, r
<1> QED BY <1>3, <1>4, <1>5

-----------------------------------------------------------------------------
\* x is at the place of r or directly inside, and at that of an existing
\* directory, or of one that is written with a slash, only to merge with it.
LandsWell(x, r, w, isDirectory, onDirectory) ==
  /\ Paths!Place(x) \in {Paths!Place(r), Append(Paths!Place(r), w)}
  /\ (onDirectory \/ r[Len(r)] = "/") /\ Paths!Place(x) = Paths!Place(r) =>
       isDirectory /\ Paths!Place(r) # <<>> /\ Paths!Last(Paths!Place(r)) = w

LEMMA LandsInside ==
  ASSUME NEW x, NEW r \in Seq(Marks), NEW w, NEW isDirectory, NEW onDirectory,
         Paths!Place(x) = Append(Paths!Place(r), w)
  PROVE LandsWell(x, r, w, isDirectory, onDirectory)
<1> HIDE DEF Marks
<1> DEFINE p == Paths!Place(r)
<1>1. p \in Seq(Seq(Marks))
  BY PlaceType
<1> HIDE DEF p
<1>2. Append(p, w) # p
  <2>1. Len(Append(p, w)) = Len(p) + 1 /\ Len(p) \in Nat
    BY <1>1
  <2> QED BY <2>1
<1> QED BY <1>2, Zenon DEF LandsWell, p

LEMMA LandsOnto ==
  ASSUME NEW x, NEW r \in Seq(Marks), NEW w, NEW onDirectory, Paths!Place(x) = Paths!Place(r),
         NEW p \in Seq(Seq(Marks)), Paths!Place(r) = Append(p, w)
  PROVE LandsWell(x, r, w, TRUE, onDirectory)
<1> HIDE DEF Marks
<1>1. Paths!Last(Append(p, w)) = w
  BY NameAdded
<1>2. Append(p, w) # <<>>
  OBVIOUS
<1> QED BY <1>1, <1>2, Zenon DEF LandsWell

\* The last name of what does not end in a slash.
LEMMA BaseNameIs ==
  ASSUME NEW q \in Seq(Marks), q # <<>>, q[Len(q)] # "/", NEW w, IsNameText(w), Paths!remote_basename(q) = w
  PROVE \E p \in Seq(Seq(Marks)) : Paths!Place(q) = Append(p, w)
<1> HIDE DEF Marks
<1> DEFINE at == Paths!LastAt(q, "/")
<1> DEFINE d == SubSeq(q, 1, at)
<1> DEFINE v == Paths!After(q, at)
<1>1. Paths!TrimEnd(q, Paths!Slashes) = q
  <2>1. q[Len(q)] \notin Paths!Slashes
    BY DEF Paths!Slashes
  <2> QED BY <2>1, TrimEndKeeps
<1>2. ApartAt(q, "/", at, d, v, Marks)
  BY LastAtIs
<1>3. Paths!remote_basename(q) = IF v = <<>> THEN Paths!S("download") ELSE v
  BY <1>1 DEF Paths!remote_basename
<1> HIDE DEF at, d, v
<1>4. IsDirectoryText(d) /\ v # <<>> /\ (v # <<".">> => IsNameText(v) /\ OneNameMore(d, v))
  BY <1>2, LastNameIs
<1>5. v = w
  BY <1>3, <1>4
<1>6. OneNameMore(d, v)
  BY <1>4, <1>5 DEF IsNameText
<1>7. q = d \o v /\ d \in Seq(Marks)
  BY <1>2, Zenon DEF ApartAt
<1>8. Paths!Place(q) = Append(Paths!Place(d), w)
  BY <1>5, <1>6, <1>7, Zenon DEF OneNameMore
<1>9. Paths!Place(d) \in Seq(Seq(Marks))
  BY <1>7, PlaceType
<1> QED BY <1>8, <1>9

LEMMA DestinationLandsWell ==
  ASSUME NEW r \in Seq(Marks), r # <<>>, TrimmedText(r), NEW w \in Seq(Marks), IsNameText(w),
         NEW isDirectory \in BOOLEAN, NEW onDirectory \in BOOLEAN,
         ~(isDirectory /\ w = <<"download">> /\ Len(r) > 1 /\ Paths!TrimEnd(r, Paths!Slashes) = <<>>)
  PROVE LandsWell(Paths!resolve_upload_destination_for_type(w, r, isDirectory, onDirectory),
                  r, w, isDirectory, onDirectory)
<1>0. "/" \in Marks
  BY DEF Marks
<1> HIDE DEF Marks
<1> DEFINE x == Paths!resolve_upload_destination_for_type(w, r, isDirectory, onDirectory)
<1> DEFINE q == Paths!TrimEnd(r, Paths!Slashes)
<1> DEFINE same == isDirectory /\ Paths!remote_basename(q) = w
<1>1. Paths!Trim(r) = r
  BY TrimIs
<1>2. Paths!EndsWithSlash(r) <=> r[Len(r)] = "/"
  BY DEF Paths!EndsWithSlash, Paths!Last
<1>3. x = IF r = <<".">> THEN w
          ELSE IF r = <<"/">> THEN <<"/">> \o w
          ELSE IF r[Len(r)] = "/" THEN (IF same THEN q ELSE r \o w)
          ELSE IF onDirectory /\ ~same THEN (q \o <<"/">>) \o w
          ELSE r
  <2>1. x = IF r \in {<<>>, Paths!Dot} THEN w
            ELSE IF r = Paths!Slash THEN Paths!Slash \o w
            ELSE IF Paths!EndsWithSlash(r) THEN (IF same THEN q ELSE r \o w)
            ELSE IF onDirectory /\ ~same THEN Paths!remote_join(r, w)
            ELSE r
    BY <1>1 DEF Paths!resolve_upload_destination_for_type
  <2>2. Paths!Dot = <<".">> /\ Paths!Slash = <<"/">>
    BY DEF Paths!Dot, Paths!Slash, Paths!S
  <2>3. r # <<"/">> => Paths!remote_join(r, w) = (q \o <<"/">>) \o w
    BY <2>2 DEF Paths!remote_join
  <2> HIDE DEF x, q, same
  <2> QED BY <1>2, <2>1, <2>2, <2>3, Zenon
<1>4. EndTrimmed(r, Paths!Slashes, q, Marks)
  BY TrimEndIs
<1>5. r[Len(r)] # "/" => q = r
  <2>1. r[Len(r)] # "/" => r[Len(r)] \notin Paths!Slashes
    BY DEF Paths!Slashes
  <2> QED BY <2>1, TrimEndKeeps
<1>6. q # <<>> => Paths!Place(q) = Paths!Place(r)
  BY PlaceOfTrimmed
<1>7. q = <<>> => Paths!remote_basename(q) = <<"download">>
  <2> SUFFICES ASSUME q = <<>> PROVE Paths!remote_basename(<<>>) = <<"download">>
    OBVIOUS
  <2>1. <<>> \in Seq(Marks)
    BY EmptySeq
  <2>2. Paths!TrimEnd(<<>>, Paths!Slashes) = <<>>
    BY <2>1, TrimEndKeeps
  <2> DEFINE at == Paths!LastAt(<<>>, "/")
  <2>3. ApartAt(<<>>, "/", at, SubSeq(<<>>, 1, at), Paths!After(<<>>, at), Marks)
    BY <2>1, LastAtIs
  <2> HIDE DEF at
  <2>4. Paths!After(<<>>, at) = <<>>
    <3> DEFINE v == Paths!After(<<>>, at)
    <3> DEFINE d == SubSeq(<<>>, 1, at)
    <3> HIDE DEF v, d
    <3>1. ApartAt(<<>>, "/", at, d, v, Marks)
      BY <2>3 DEF v, d
    <3>2. v \in Seq(Marks) /\ Len(v) = Len(<<>>) - at /\ at \in 0..Len(<<>>)
      BY <3>1, Zenon DEF ApartAt
    <3>3. Len(<<>>) = 0
      OBVIOUS
    <3>4. Len(v) = 0
      BY <3>2, <3>3
    <3>5. v = <<>>
      BY <3>2, <3>4, EmptySeq
    <3> QED BY <3>5 DEF v
  <2> QED BY <2>2, <2>4 DEF Paths!remote_basename, Paths!S, at
<1> HIDE DEF x
<1>8. q \in Seq(Marks) /\ Len(q) <= Len(r) /\ (q # <<>> => q[Len(q)] # "/")
  BY <1>4 DEF EndTrimmed, Paths!Slashes
<1>8a. ~(isDirectory /\ w = <<"download">> /\ Len(r) > 1 /\ q = <<>>)
  OBVIOUS
<1>8b. same <=> isDirectory /\ Paths!remote_basename(q) = w
  OBVIOUS
<1> HIDE DEF q, same
<1>9. CASE r = <<".">>
  <2>1. x = w
    BY <1>3, <1>9
  <2>2. <<>> \in Seq(Marks) /\ IsDirectoryText(<<>>) /\ <<>> \o w = w
    BY EmptySeq, ConcatEmptySeq DEF IsDirectoryText
  <2>3. OneNameMore(<<>>, w)
    BY <2>2, ChildOfDirectory
  <2>4. Paths!Place(w) = Append(Paths!Place(<<>>), w)
    BY <2>2, <2>3, Zenon DEF OneNameMore
  <2>5. Paths!Place(<<>>) = Paths!Place(r)
    BY <1>9, PlaceOfNothing, PlaceOfDot, Zenon
  <2>6. Paths!Place(x) = Append(Paths!Place(r), w)
    BY <2>1, <2>4, <2>5, Zenon
  <2> QED BY <2>6, LandsInside DEF x
<1>10. CASE r = <<"/">>
  <2>0. <<"/">> # <<".">> /\ <<"/">>[Len(<<"/">>)] = "/"
    OBVIOUS
  <2>1. x = r \o w
    BY <1>3, <1>10, <2>0, Zenon
  <2>2. IsDirectoryText(r)
    BY <1>10, <2>0 DEF IsDirectoryText
  <2>3. OneNameMore(r, w)
    BY <2>2, ChildOfDirectory
  <2>4. Paths!Place(x) = Append(Paths!Place(r), w)
    BY <2>1, <2>3, Zenon DEF OneNameMore
  <2> QED BY <2>4, LandsInside DEF x
<1>11. CASE r \notin {<<".">>, <<"/">>} /\ r[Len(r)] = "/" /\ ~same
  <2>1. x = r \o w
    BY <1>3, <1>11
  <2>2. IsDirectoryText(r)
    BY <1>11 DEF IsDirectoryText
  <2>3. OneNameMore(r, w)
    BY <2>2, ChildOfDirectory
  <2>4. Paths!Place(x) = Append(Paths!Place(r), w)
    BY <2>1, <2>3, Zenon DEF OneNameMore
  <2> QED BY <2>4, LandsInside DEF x
<1>12. CASE r \notin {<<".">>, <<"/">>} /\ r[Len(r)] = "/" /\ same
  <2>1. x = q
    BY <1>3, <1>12
  <2>2. Len(r) > 1
    <3> SUFFICES ASSUME ~(Len(r) > 1) PROVE FALSE
      OBVIOUS
    <3>1. Len(r) = 1
      <4>1. Len(r) \in Nat /\ Len(r) > 0
        OBVIOUS
      <4>2. \A k \in Nat : k > 0 /\ ~(k > 1) => k = 1
        OBVIOUS
      <4> QED BY <4>1, <4>2, Zenon
    <3> DEFINE u == <<"/">>
    <3>2. u \in Seq(Marks) /\ Len(u) = 1 /\ u[1] = "/"
      BY <1>0
    <3> HIDE DEF u
    <3>3. \A i \in 1..Len(r) : r[i] = u[i]
      <4>1. \A i \in 1..Len(r) : i = 1
        BY <3>1
      <4>2. r[1] = "/"
        BY <1>12, <3>1
      <4> QED BY <3>2, <4>1, <4>2
    <3>4. r = u
      BY <3>1, <3>2, <3>3, SeqEqual
    <3> QED BY <1>12, <3>4 DEF u
  <2>3. q # <<>>
    BY <1>7, <1>8a, <1>8b, <1>12, <2>2
  <2>4. PICK p \in Seq(Seq(Marks)) : Paths!Place(q) = Append(p, w)
    BY <1>8, <1>8b, <1>12, <2>3, BaseNameIs
  <2>5. Paths!Place(x) = Paths!Place(r) /\ Paths!Place(r) = Append(p, w)
    BY <1>6, <2>1, <2>3, <2>4, Zenon
  <2>6. isDirectory = TRUE
    BY <1>8b, <1>12
  <2>7. LandsWell(x, r, w, TRUE, onDirectory)
    BY <2>5, LandsOnto
  <2> QED BY <2>6, <2>7, Zenon DEF x
<1>13. CASE r \notin {<<".">>, <<"/">>} /\ r[Len(r)] # "/" /\ onDirectory /\ ~same
  <2>1. x = (r \o <<"/">>) \o w
    BY <1>3, <1>5, <1>13
  <2> DEFINE e == Append(r, "/")
  <2>2. r \o <<"/">> = e
    BY <1>0, AppendIsConcat
  <2>3. Paths!Place(e) = Paths!Place(r)
    BY PlaceAtSlash
  <2>4. e \in Seq(Marks) /\ e[Len(e)] = "/"
    BY <1>0, AppendProperties
  <2> HIDE DEF e
  <2>5. IsDirectoryText(e)
    BY <2>4 DEF IsDirectoryText
  <2>6. OneNameMore(e, w)
    BY <2>4, <2>5, ChildOfDirectory
  <2>7. Paths!Place(x) = Append(Paths!Place(r), w)
    BY <2>1, <2>2, <2>3, <2>6, Zenon DEF OneNameMore
  <2> QED BY <2>7, LandsInside DEF x
<1>14. CASE r \notin {<<".">>, <<"/">>} /\ r[Len(r)] # "/" /\ onDirectory /\ same
  <2>1. x = r /\ q = r
    BY <1>3, <1>5, <1>14
  <2>2. Paths!remote_basename(r) = w /\ isDirectory = TRUE
    BY <1>8b, <1>14, <2>1
  <2>3. PICK p \in Seq(Seq(Marks)) : Paths!Place(r) = Append(p, w)
    BY <1>14, <2>2, BaseNameIs
  <2>4. Paths!Place(x) = Paths!Place(r)
    BY <2>1
  <2>5. LandsWell(x, r, w, TRUE, onDirectory)
    BY <2>3, <2>4, LandsOnto
  <2> QED BY <2>2, <2>5, Zenon DEF x
<1>15. CASE r \notin {<<".">>, <<"/">>} /\ r[Len(r)] # "/" /\ ~onDirectory
  <2>1. x = r
    BY <1>3, <1>15
  <2>2. LandsWell(x, r, w, isDirectory, onDirectory)
    BY <1>15, <2>1 DEF LandsWell
  <2> QED BY <2>2 DEF x
<1> QED BY <1>9, <1>10, <1>11, <1>12, <1>13, <1>14, <1>15

-----------------------------------------------------------------------------
(* The calls. *)

PathsInv ==
  pathCall \in Paths!Calls /\ (pathResult = <<>> \/ pathResult = <<Paths!ResultOf(pathCall)>>)

LEMMA CallPathIs ==
  ASSUME NEW path \in Paths!Strings
  PROVE path \in Seq(Marks)
<1>1. PICK m \in 0..MaxPath : path \in [1..m -> Chars]
  BY DEF Paths!Strings, Paths!SeqOf
<1>2. m \in Nat
  <2>1. MaxPath \in Nat
    BY PathsAssumption, Zenon
  <2> QED BY <2>1
<1>3. path \in Seq(Chars)
  <2>1. \A k \in Nat : \A f \in [1..k -> Chars] : f \in Seq(Chars)
    BY ByPositions
  <2> QED BY <1>1, <1>2, <2>1, Zenon
<1>4. Chars \subseteq Marks
  BY PathsAssumption DEF Marks
<1> HIDE DEF Marks
<1> QED BY <1>3, <1>4, SeqMonotonic

LEMMA LocalNameIs ==
  ASSUME NEW w \in LocalNames
  PROVE w \in Seq(Marks) /\ IsNameText(w)
<1>1. w \in Seq(STRING) /\ w \notin {<<>>, <<".">>} /\ \A i \in DOMAIN w : w[i] # "/"
  BY PathsAssumption
<1>2. STRING \subseteq Marks
  BY DEF Marks
<1> HIDE DEF Marks
<1> QED BY <1>1, <1>2, SeqMonotonic DEF IsNameText, FreeOf

LEMMA ResultIs ==
  ASSUME PathsInv, NEW op, Paths!Returned(op)
  PROVE pathCall.op = op /\ Paths!Result = Paths!ResultOf(pathCall)
BY DEF PathsInv, Paths!Returned, Paths!NoResult, Paths!Result

LEMMA CallIs ==
  ASSUME PathsInv
  PROVE /\ pathCall.path \in Paths!Strings
        /\ pathCall.op = "number" => pathCall.n \in CopyNumbers /\ pathCall.isDirectory \in BOOLEAN
        /\ pathCall.op = "upload" =>
             /\ pathCall.local \in LocalNames /\ pathCall.isDirectory \in BOOLEAN
             /\ pathCall.onDirectory \in BOOLEAN /\ pathCall.home \in {Home, Paths!Dot}
<1> DEFINE c == pathCall
<1> HIDE DEF c
<1>1. \/ c \in [op : {"number"}, path : Paths!Strings, n : CopyNumbers, isDirectory : BOOLEAN]
      \/ c \in [op : {"upload"}, path : Paths!Strings, local : LocalNames, isDirectory : BOOLEAN,
                onDirectory : BOOLEAN, home : {Home, Paths!Dot}]
      \/ c \in [op : {"delete", "look_up"}, path : Paths!Strings]
  BY DEF PathsInv, Paths!Calls, c
<1>2. CASE c \in [op : {"number"}, path : Paths!Strings, n : CopyNumbers, isDirectory : BOOLEAN]
  BY <1>2 DEF c
<1>3. CASE c \in [op : {"upload"}, path : Paths!Strings, local : LocalNames, isDirectory : BOOLEAN,
                  onDirectory : BOOLEAN, home : {Home, Paths!Dot}]
  BY <1>3 DEF c
<1>4. CASE c \in [op : {"delete", "look_up"}, path : Paths!Strings]
  BY <1>4 DEF c
<1> QED BY <1>1, <1>2, <1>3, <1>4

LEMMA SiblingsFound ==
  ASSUME PathsInv
  PROVE Paths!NumberedSibling /\ Paths!NumberedAlike
<1> HIDE DEF Marks
<1> SUFFICES ASSUME Paths!Returned("number"), Paths!HasName(pathCall.path)
             PROVE Paths!NumberedSibling /\ Paths!NumberedAlike
  BY DEF Paths!NumberedSibling, Paths!NumberedAlike
<1>1. pathCall.op = "number" /\ Paths!Result = Paths!ResultOf(pathCall)
  BY ResultIs
<1>2. pathCall.n \in CopyNumbers /\ pathCall.isDirectory \in BOOLEAN /\ pathCall.path \in Seq(Marks)
  BY <1>1, CallIs, CallPathIs
<1>3. Paths!Result = Paths!numbered_conflict_path(pathCall.path, pathCall.n, pathCall.isDirectory)
  BY <1>1 DEF Paths!ResultOf
<1>4. MakesSibling(pathCall.path, pathCall.n, pathCall.isDirectory,
                   Paths!numbered_conflict_path(pathCall.path, pathCall.n, pathCall.isDirectory))
  BY <1>2, NumberedPathIsSibling
<1>5. MakesSibling(pathCall.path, pathCall.n, pathCall.isDirectory, Paths!Result)
  BY <1>3, <1>4, Zenon
<1> QED BY <1>5, Zenon DEF MakesSibling, Paths!NumberedSibling, Paths!NumberedAlike, Paths!AlikeHere

LEMMA LookupFound ==
  ASSUME PathsInv
  PROVE Paths!AbsoluteLookedUpWhereStored
<1> HIDE DEF Marks
<1> SUFFICES ASSUME Paths!Returned("look_up"), Paths!IsRooted(Paths!Trim(pathCall.path)),
                    Paths!HasName(Paths!Trim(pathCall.path))
             PROVE Paths!Result = Paths!Place(Paths!Trim(pathCall.path))
  BY DEF Paths!AbsoluteLookedUpWhereStored
<1>1. pathCall.op = "look_up" /\ Paths!Result = Paths!ResultOf(pathCall)
  BY ResultIs
<1>2. pathCall.path \in Seq(Marks)
  BY CallIs, CallPathIs
<1>3. Paths!Result = Paths!LookedUp(pathCall.path)
  BY <1>1 DEF Paths!ResultOf
<1> QED BY <1>2, <1>3, LookedUpAtPlace

LEMMA UploadFound ==
  ASSUME PathsInv
  PROVE Paths!UploadLandsAtOrInside
<1> HIDE DEF Marks
<1> SUFFICES ASSUME Paths!Returned("upload"), ~Paths!TakenForDownload(pathCall)
             PROVE Paths!LandsAtOrInside(pathCall)
  BY DEF Paths!UploadLandsAtOrInside
<1> DEFINE t == Paths!Trim(pathCall.path)
<1> DEFINE r == Paths!normalize_remote_path(pathCall.path, pathCall.home)
<1> DEFINE w == pathCall.local
<1> DEFINE x == Paths!Result
<1>1. pathCall.op = "upload" /\ Paths!Result = Paths!ResultOf(pathCall)
  BY ResultIs
<1>2. /\ pathCall.path \in Seq(Marks) /\ w \in LocalNames
      /\ pathCall.isDirectory \in BOOLEAN /\ pathCall.onDirectory \in BOOLEAN
  BY <1>1, CallIs, CallPathIs
<1>3. IsLogin(pathCall.home)
  BY <1>1, CallIs DEF IsLogin, Paths!Dot, Paths!S
<1>4. x = Paths!resolve_upload_destination_for_type(w, r, pathCall.isDirectory, pathCall.onDirectory)
  BY <1>1 DEF Paths!ResultOf
<1>5. NormalFor(r, t)
  BY <1>2, <1>3, NormalIs
<1>6. ~(pathCall.isDirectory /\ w = <<"download">> /\ Len(r) > 1 /\ Paths!TrimEnd(r, Paths!Slashes) = <<>>)
  BY DEF Paths!TakenForDownload, Paths!S
<1>7. t \in Seq(Marks)
  BY <1>2, TrimIs
<1>8. w \in Seq(Marks) /\ IsNameText(w)
  BY <1>2, LocalNameIs
<1> DEFINE at == IF t = Paths!S("~") THEN Paths!Names(Home)
                 ELSE IF Paths!IsPrefix(<<"~", "/">>, t) THEN Paths!Names(Home) \o Paths!Names(SubSeq(t, 3, Len(t)))
                 ELSE Paths!Place(t)
<1>9. Paths!LandsAtOrInside(pathCall) <=>
        /\ Paths!Place(x) \in {at, Append(at, w)}
        /\ (pathCall.onDirectory \/ Paths!EndsWithSlash(t)) /\ Paths!Place(x) = at =>
             pathCall.isDirectory /\ at # <<>> /\ Paths!Last(at) = w
  BY Zenon DEF Paths!LandsAtOrInside
<1> HIDE DEF t, r, w, x
<1>10. at = MeantPlace(t)
  BY DEF MeantPlace, Paths!S
<1> HIDE DEF at
<1>11. /\ r \in Seq(Marks) /\ r # <<>> /\ TrimmedText(r) /\ Paths!Place(r) = at
       /\ t # <<>> /\ t[Len(t)] = "/" => r[Len(r)] = "/"
  BY <1>5, <1>10, Zenon DEF NormalFor
<1>12. LandsWell(x, r, w, pathCall.isDirectory, pathCall.onDirectory)
  <2>1. LandsWell(Paths!resolve_upload_destination_for_type(w, r, pathCall.isDirectory, pathCall.onDirectory),
                  r, w, pathCall.isDirectory, pathCall.onDirectory)
    BY <1>2, <1>6, <1>8, <1>11, DestinationLandsWell
  <2> QED BY <1>4, <2>1, Zenon
<1>13. Paths!EndsWithSlash(t) <=> t # <<>> /\ t[Len(t)] = "/"
  BY DEF Paths!EndsWithSlash, Paths!Last
<1> QED BY <1>9, <1>11, <1>12, <1>13, Zenon DEF LandsWell

\* Paths mean what is done to them, whatever the paths, the names and the home
\* directory: a numbered name is a new sibling, the same on both sides unless
\* the path ends in "..", an upload lands where it was sent or just inside, and
\* an absolute path is looked up where it is stored.  (protocol.rs, resolve_upload_destination,
\* split_remote_parent)
THEOREM PathsLandRightAlways == LocalSpec => []PathsLandRight
<1>1. LocalInit => PathsInv
  <2>1. NoPath => PathsInv
    BY DEF NoPath, Paths!Init, PathsInv, Paths!NoResult
  <2>2. Paths!Init => PathsInv
    BY DEF Paths!Init, PathsInv, Paths!NoResult
  <2> QED BY <2>1, <2>2 DEF LocalInit
<1>2. PathsInv /\ [Copying \/ Calling \/ Masking \/ OnPaths]_localVars => PathsInv'
  <2> SUFFICES ASSUME PathsInv, [Copying \/ Calling \/ Masking \/ OnPaths]_localVars PROVE PathsInv'
    OBVIOUS
  <2>1. Paths!Return \/ UNCHANGED pathVars
    BY DEF Copying, Calling, Masking, OnPaths, localVars
  <2>2. CASE Paths!Return
    <3>1. pathCall' = pathCall /\ pathResult' = <<Paths!ResultOf(pathCall)>>
      BY <2>2 DEF Paths!Return
    <3> QED BY <3>1 DEF PathsInv
  <2>3. CASE UNCHANGED pathVars
    <3>1. pathCall' = pathCall /\ pathResult' = pathResult
      BY <2>3 DEF pathVars
    <3> QED BY <3>1 DEF PathsInv
  <2> QED BY <2>1, <2>2, <2>3
<1>3. PathsInv => PathsLandRight
  BY SiblingsFound, LookupFound, UploadFound DEF PathsLandRight
<1> QED BY <1>1, <1>2, <1>3, PTL DEF LocalSpec
=============================================================================
