------------------------------ MODULE MCStores ------------------------------
(***************************************************************************)
(* The stores for TLC.                                                     *)
(***************************************************************************)
EXTENDS Stores, SequencesExt

\* Two versions of one profile, another one, one that is not valid and one
\* whose name starts with "#", in two processes.
Sftp(name, port, cred) ==
  [name |-> name, protocol |-> "sftp", host |-> "h", port |-> port, cred |-> cred]
MCProfiles ==
  { Sftp("a", "22", 1), Sftp("a", "2222", 0), Sftp("b", "none", 0),
    [name |-> "b", protocol |-> "local", host |-> "", port |-> "none", cred |-> 1],
    Sftp("#c", "22", 0), Sftp(" ", "22", 0) }
MCSessionOrder == <<" ", "#c", "a", "b">>

\* Two endpoints, two keys with one fingerprint under different algorithms.
MCHostOrder == <<"h:22", "h:23">>
MCKeys ==
  { [algorithm |-> "rsa", fingerprint |-> <<1, 1>>],
    [algorithm |-> "dsa", fingerprint |-> <<1, 1>>] }

\* No record, one record with texts of up to two characters, two records with texts of up
\* to one, over the characters the format treats in a way of their own and two
\* that it does not.
RecordsOf(length) == [1..2 -> SeqOf({"a", "t", "\\", "\t", "\n", "\r", "#"}, length)]
MCRecords == {<<>>} \cup [1..1 -> RecordsOf(2)] \cup [1..2 -> RecordsOf(1)]
=============================================================================
