------------------------ MODULE SerialTransferQueue ------------------------
(***************************************************************************)
(* What the transfer queue promises, without rows, processes, events or    *)
(* files: a first-come first-served server that runs one transfer at a     *)
(* time and is never idle while a transfer waits.  Transfers are numbered  *)
(* in the order in which they are submitted.                               *)
(*                                                                         *)
(* TransferQueueModel implements this specification; the mapping is the    *)
(* INSTANCE Serial of that module.                                         *)
(***************************************************************************)
EXTENDS Naturals

VARIABLES
  last,      \* the number of the latest submission
  waiting,   \* the transfers that have been submitted and not yet begun
  active,    \* the transfer being served, 0 if there is none
  open       \* FALSE once the application has ended

vars == <<last, waiting, active, open>>

None == 0

Init ==
  /\ last = 0
  /\ waiting = {}
  /\ active = None
  /\ open = TRUE

(***************************************************************************)
(* Serve the oldest of the transfers ts that can be begun: those before it *)
(* are refused on the spot, and if none can be begun nothing is left.      *)
(***************************************************************************)
Dispatch(ts) ==
  \/ \E t \in ts :
       /\ active' = t
       /\ waiting' = {u \in ts : u > t}
  \/ /\ active' = None
     /\ waiting' = {}

Submit ==
  /\ open
  /\ last' = last + 1
  /\ IF active = None
     THEN Dispatch(waiting \cup {last'})
     ELSE /\ waiting' = waiting \cup {last'}
          /\ UNCHANGED active
  /\ UNCHANGED open

\* A submission that is carried out at once and never waits.
Immediate ==
  /\ open
  /\ last' = last + 1
  /\ UNCHANGED <<waiting, active, open>>

\* The transfer being served ends, however it ends, and the next one begins.
End ==
  /\ open
  /\ active # None
  /\ Dispatch(waiting)
  /\ UNCHANGED <<last, open>>

\* The user drops everything.
Flush ==
  /\ open
  /\ active' = None
  /\ waiting' = {}
  /\ UNCHANGED <<last, open>>

Close ==
  /\ open
  /\ open' = FALSE
  /\ UNCHANGED <<last, waiting, active>>

Next == Submit \/ Immediate \/ End \/ Flush \/ Close

SafeSpec == Init /\ [][Next]_vars

=============================================================================
