----------------------------- MODULE MCSshTunnel -----------------------------
(***************************************************************************)
(* SshTunnel for TLC.  Three hosts and two ports make a restart towards    *)
(* another host, on the same port and on another one.                      *)
(***************************************************************************)
EXTENDS SshTunnel
=============================================================================
