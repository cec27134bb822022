--------------------------- MODULE TunnelService ---------------------------
(***************************************************************************)
(* What the rest of the GUI sees of the SSH tunnel: there is at most one,  *)
(* it forwards one local port to one host, and it may end by itself, which *)
(* nobody is told.  SshTunnel implements it; GuiSession uses it.           *)
(***************************************************************************)

CONSTANTS
  Hosts,       \* the servers transfers can reach
  LocalPorts,  \* local addresses a tunnel can listen on
  Nowhere      \* no host and no address

VARIABLE tunnel

NoTunnel == [phase |-> "none", port |-> Nowhere, host |-> Nowhere]

Tunnels == {NoTunnel} \cup [phase : {"connecting", "forwarding", "ended"},
                            port : LocalPorts, host : Hosts]

Init == tunnel = NoTunnel

\* Whatever ran before is gone.  ssh may still be logging in when the call
\* that started it returns.
Start(port, host) ==
  \E phase \in {"connecting", "forwarding"} :
    tunnel' = [phase |-> phase, port |-> port, host |-> host]

\* A stop, or a start that fails.
Stop == tunnel' = NoTunnel

Forward ==
  /\ tunnel.phase = "connecting"
  /\ tunnel' = [tunnel EXCEPT !.phase = "forwarding"]

End ==
  /\ tunnel.phase \in {"connecting", "forwarding"}
  /\ tunnel' = [tunnel EXCEPT !.phase = "ended"]

Next ==
  \/ \E port \in LocalPorts, host \in Hosts : Start(port, host)
  \/ Stop
  \/ Forward
  \/ End

Spec == Init /\ [][Next]_tunnel

=============================================================================
