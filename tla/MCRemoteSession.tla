--------------------------- MODULE MCRemoteSession ---------------------------
(***************************************************************************)
(* RemoteSession for TLC.                                                  *)
(***************************************************************************)
EXTENDS RemoteSession

P(protocol) == [protocol |-> protocol, host |-> "plain", user |-> "some", ref |-> "r", port |-> "some"]
MCProfiles ==
  {P(p) : p \in {"sftp", "scp", "ftp", "ftps", "webdav", "s3"}}
    \cup {[P(p) EXCEPT !.host = "blank"] : p \in {"sftp", "scp", "ftp", "webdav", "s3"}}
    \cup {[P("s3") EXCEPT !.host = "bucket"], [P("sftp") EXCEPT !.port = "none"],
          [P("sftp") EXCEPT !.user = "none"], [P("ftp") EXCEPT !.user = "none"],
          [P("scp") EXCEPT !.ref = "blank"], [P("ftps") EXCEPT !.ref = "none"]}
MCLiveEnvs ==
  [host : {"none", "blank", "some"}, user : {"some", "none"}, ref : {"some", "blank"}, port : {"none", "some", "bad"}]
MCSecrets == {"password", "key", "token"}
MCLinked == {TRUE, FALSE}
MCDirectory == {"a", "b"}
=============================================================================
