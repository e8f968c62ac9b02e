---------------------------- MODULE MC_Transport ----------------------------
(* Transport instantiated for TLC: two clients (and, in some runs, one     *)
(* raw peer that never writes), one TLS parameter set, one port, and the   *)
(* three endpoint kinds Connector::connect treats differently: an IP       *)
(* address, a host name to resolve, and a Unix socket path (no keepalive). *)
EXTENDS Transport

CONSTANTS c1, c2, s1, p1

MCClients   == {c1, c2}
MCParams    == {p1}
MCPorts     == {5656}
MCTargets   == {t \in Targets : t.ep.kind # "UnixAbstract"}
MCModes     == {"Plain", "Tls", "StartTls"}
MCLiveTargets == {t \in Targets : t.ep.kind = "Ip"}
MCSymmetry  == Permutations(MCClients)
=============================================================================
