-------------------------- MODULE MCRemoteCommands --------------------------
(***************************************************************************)
(* RemoteCommands for TLC: the GUI's requests, on every protocol, and a    *)
(* shell's that forget or misspell something.                              *)
(***************************************************************************)
EXTENDS RemoteCommands

Flags == {"protocol", "host", "username", "port", "path", "local", "remote", "from", "to"}
Ask(command, protocol) ==
  [style |-> "remote", command |-> command, protocol |-> protocol, given |-> Flags,
   conflict |-> "none", junk |-> FALSE, port |-> "number", user |-> "named", gui |-> TRUE]
Plain == {Ask(c, p) : c \in {"list", "upload", "download", "mkdir", "delete", "rename"}, p \in Protocols}
Policies ==
  {[Ask(c, p) EXCEPT !.conflict = k] : c \in Transfers, p \in Live, k \in FileConflictPolicies}
Shell(r) == [r EXCEPT !.gui = FALSE]
Positionals ==
  {[Shell(Ask(c, "sftp")) EXCEPT !.style = "sftp", !.given = Positional(Ask(c, "sftp"))] :
     c \in {"list", "upload", "download", "mkdir", "delete"}}
Slips ==
  {[Shell(Ask("upload", "sftp")) EXCEPT !.given = Flags \ {f}] : f \in Flags}
    \cup {[Shell(Ask("list", "local")) EXCEPT !.given = Flags \ {"port"}],
          [Shell(Ask("list", "gopher")) EXCEPT !.junk = FALSE],
          [Shell(Ask("delete", "ftp")) EXCEPT !.junk = TRUE],
          [Shell(Ask("upload", "ftp")) EXCEPT !.conflict = "bad"],
          [Shell(Ask("mkdir", "sftp")) EXCEPT !.port = "word"],
          [Shell(Ask("mkdir", "ftps")) EXCEPT !.user = "blank"],
          [Shell(Ask("mkdir", "sftp")) EXCEPT !.user = "blank"],
          [Shell(Ask("delete", "sftp")) EXCEPT !.style = "sftp", !.given = {"host"}],
          Shell(Ask("other", "sftp")), Shell(Ask("capabilities", "s3")),
          [Shell(Ask("capabilities", "gopher")) EXCEPT !.given = {}]}
MCRequests == Plain \cup Policies \cup Positionals \cup Slips
MCVars ==
  { [v \in {} |-> "system"],
    [v \in {"SFTP_PASSWORD", "SCP_PASSWORD", "FTPS_PASSWORD"} |-> "system"],
    [v \in {"REMOTE_PASSWORD", "SCP_KEY"} |-> "system"],
    [v \in {"REMOTE_KEY", "SFTP_KEY"} |-> IF v = "REMOTE_KEY" THEN "blank" ELSE "system"],
    [v \in {"REMOTE_PASSWORD", "FTP_PASSWORD"} |-> IF v = "REMOTE_PASSWORD" THEN "blank" ELSE "system"] }
MCSystems ==
  [vars : MCVars, timeout : {0, 1}, linked : {TRUE}]
    \cup {[vars |-> [v \in {"SFTP_KEY"} |-> "system"], timeout |-> 0, linked |-> FALSE]}
MCLogins == {{}, {"password"}, {"key"}}
=============================================================================
