----------------------------- MODULE Transfers ------------------------------
(***************************************************************************)
(* One transfer of any kind: an upload over SFTP, FTP or SCP, or a         *)
(* download over one of them.  Whatever kind runs, the variables of the    *)
(* others stay as they are.                                                *)
(***************************************************************************)
EXTENDS SftpUpload

CONSTANTS
  Kinds,             \* which of the four
  Given,             \* where an FTP upload goes, and a download
  Protocols,         \* of a download
  Locals,            \* local trees to start from
  ContestedHere,     \* local paths other programs create
  MayMistake,        \* see Download
  Contents, Before,  \* of the file of ScpUpload, here and on the server
  NoFile, Directory  \* what a path of ScpUpload may be besides a file

VARIABLES
  kind,
  protocol2, policy2, source2, tree2, others2, step2, item2, stack2,
  placed2, bytes2, result2,                   \* of FtpUpload and of Download
  path2, handle2, total2, done2, changed2, full2  \* of ScpUpload

Ftp == INSTANCE FtpUpload WITH
  policy <- policy2, source <- source2, remote <- tree2, others <- others2,
  step <- step2, item <- item2, stack <- stack2, placed <- placed2, bytes <- bytes2,
  result <- result2

Down == INSTANCE Download WITH
  Contested <- ContestedHere,
  protocol <- protocol2, policy <- policy2, source <- source2, local <- tree2,
  others <- others2, step <- step2, item <- item2, stack <- stack2, placed <- placed2,
  bytes <- bytes2, result <- result2

Scp == INSTANCE ScpUpload WITH
  path <- path2, handle <- handle2, remote <- tree2, step <- step2, total <- total2,
  done <- done2, result <- result2, changed <- changed2, full <- full2

\* Sources, remotes and locals are finite trees of files and directories, a
\* transfer goes to a path whose names are not empty, and the files of
\* ScpUpload have bytes.
AreNames(p) == \A i \in DOMAIN p : IsSequence(p[i]) /\ p[i] # <<>>
IsEntry(entry) ==
  \/ entry = File(entry.of, entry.size) /\ entry.size \in Nat
  \/ entry = Dir(entry.of)
ASSUME TransfersAssumption ==
  /\ \A tree \in Sources \cup Remotes \cup Locals :
       /\ IsFiniteSet(DOMAIN tree)
       /\ \A p \in DOMAIN tree : IsSequence(p) /\ IsEntry(tree[p])
  /\ \A tree \in Sources : \A p \in DOMAIN tree : AreNames(p)
  /\ \A tree \in Locals : IsTree(tree)
  /\ \A p \in Contested \cup ContestedHere : IsSequence(p) /\ p # Root
  /\ \A p \in {Given} \cup Givens :
       IsSequence(p) /\ p \notin {Root, Theirs} /\ AreNames(p)
  /\ IsSequence(Name) /\ Name # <<>>
  /\ Kinds \subseteq {"sftp_upload", "ftp_upload", "scp_upload", "download"}
  /\ Protocols \subseteq {"sftp", "ftp", "scp"} /\ MayMistake \in BOOLEAN
  /\ \A bytes \in Contents : IsSequence(bytes)
  /\ {NoFile, Directory} \cap Seq(UNION {ToSet(bytes) : bytes \in Contents}) = {}
  /\ NoFile # Directory

others3 == <<path2, handle2, total2, done2, changed2, full2>>
walk2 == <<policy2, source2, others2, item2, stack2, placed2, bytes2>>
second == <<protocol2, walk2, tree2, step2, result2, others3>>
allVars == <<vars, kind, second>>

OneOf(S) == CHOOSE x \in S : TRUE
Bare == [p \in {Root} |-> Dir(Theirs)]

NoSftp ==
  /\ policy = OneOf(Policies) /\ source = OneOf(Sources) /\ given = OneOf(Givens) /\ exact = FALSE
  /\ remote = OneOf(Remotes)
  /\ Init
NoWalk ==
  /\ protocol2 = "none" /\ policy2 = "none" /\ source2 = Bare /\ others2 = 0
  /\ item2 = NoItem /\ stack2 = <<>> /\ placed2 = <<>> /\ bytes2 = 0
NoScp ==
  /\ path2 = NoFile /\ handle2 = NoFile /\ total2 = 0 /\ done2 = 0
  /\ changed2 = FALSE /\ full2 = FALSE

TransferInit ==
  /\ kind \in Kinds
  /\ CASE kind = "sftp_upload" ->
            /\ Init /\ NoWalk /\ NoScp
            /\ tree2 = Bare /\ step2 = "none" /\ result2 = "none"
       [] kind = "ftp_upload" -> NoSftp /\ NoScp /\ protocol2 = "ftp" /\ Ftp!Init
       [] kind = "scp_upload" -> NoSftp /\ NoWalk /\ Scp!Init
       [] kind = "download" -> NoSftp /\ NoScp /\ Down!Init

SftpUploads == kind = "sftp_upload" /\ Us /\ UNCHANGED <<kind, second>>
FtpUploads == kind = "ftp_upload" /\ Ftp!Us /\ UNCHANGED <<vars, kind, protocol2, others3>>
ScpUploads == kind = "scp_upload" /\ Scp!Next /\ UNCHANGED <<vars, kind, protocol2, walk2>>
Downloads == kind = "download" /\ Down!Us /\ UNCHANGED <<vars, kind, others3>>

Interference ==
  \/ kind = "sftp_upload" /\ Other /\ UNCHANGED <<kind, second>>
  \/ kind = "ftp_upload" /\ Ftp!Other /\ UNCHANGED <<vars, kind, protocol2, others3>>
  \/ kind = "download" /\ Down!Other /\ UNCHANGED <<vars, kind, others3>>

Transferring == SftpUploads \/ FtpUploads \/ ScpUploads \/ Downloads

\* Without fairness: FTP sets no timeout, and a call may never be answered.
TransferSpec == TransferInit /\ [][Transferring \/ Interference]_allVars

-----------------------------------------------------------------------------

\* Every variable has its type, and without interference a transfer that
\* succeeds has left all that was not skipped, whole, where it says, whichever
\* protocol carried it; over SCP, also what is there before it ends is the
\* beginning of the file, never a mixture.
WholeIfUndisturbed ==
  /\ TypeOK /\ DeliveredIfUndisturbed
  /\ kind = "ftp_upload" => Ftp!TypeOK /\ Ftp!DeliveredIfUndisturbed
  /\ kind = "download" => Down!TypeOK /\ Down!DeliveredIfUndisturbed
  /\ kind = "scp_upload" => Scp!TypeOK /\ Scp!CompletedIsWhole /\ Scp!OnlyFilesAreSent /\ Scp!NoMixture

\* Whatever others do, what is in a directory arrives in the directory it was
\* put in; a download under Keep both numbers each name at most once.
EntriesArriveTogether ==
  /\ ArrivesTogether
  /\ kind = "ftp_upload" => Ftp!ArrivesTogether
  /\ kind = "download" => Down!NumberedOnce

\* Every byte is counted exactly once, whatever is skipped, merged or nested:
\* an SFTP upload ends at the total and never goes back, FTP uploads and
\* downloads report the size of what they have delivered.
BytesAreCounted ==
  /\ []ProgressEndsAtTotal /\ ProgressForward
  /\ [](kind = "ftp_upload" => Ftp!BytesOfDelivered)
  /\ [](kind = "download" => Down!BytesOfDelivered)

\* As long as nobody interferes, every step of an FTP upload and of a download
\* is one that the promise of the policy allows (see Destination), and it never
\* takes a directory away that matches one, if it knows what is a directory.
PromiseKept ==
  [][/\ kind = "ftp_upload" => Ftp!StepPromised
     /\ kind = "download" /\ ~MayMistake => Down!StepPromised /\ Down!MatchingDirectoryKept]_allVars

\* A directory that matches a directory is merged with it.
MatchingDirectoriesMerged == [][kind = "download" => Down!MatchingDirectoryKept]_allVars

\* No transfer goes on for ever once others leave its files alone: numbered
\* names run out of taken numbers, walks of entries, files of bytes.  In the end
\* it is over, or waits for a call that is not answered.
TransfersComeToRest == <>[][FALSE]_allVars
=============================================================================
