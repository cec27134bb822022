------------------------ MODULE MCTransferQueueModel ------------------------
(***************************************************************************)
(* TransferQueueModel for TLC.  Three jobs are enough for one to run, one  *)
(* to wait behind it and one to be cleared above or below it; no job       *)
(* refers to more than its neighbours.                                     *)
(***************************************************************************)
EXTENDS TransferQueueModel
=============================================================================
