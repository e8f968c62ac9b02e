------------------------------ MODULE MC_Config ------------------------------
(* Small host, name and secret sets for checking Config with TLC. Host   *)
(* text is tokenised as in Config: "::1" is <<":", ":", "1">>.           *)
EXTENDS Config

CONSTANTS defaultUser, defaultWait, none

MCLocalhost == [kind |-> "name", text |-> <<"localhost">>]
MCName == [kind |-> "name", text |-> <<"db", ".", "example">>]
MCIp4 == [kind |-> "ip4", text |-> <<"127", ".", "0", ".", "0", ".", "1">>]
MCIp6 == [kind |-> "ip6", text |-> <<":", ":", "1">>]
MCUnix == [kind |-> "unix", text |-> <<"run", "/", "gel">>]
MCBad == [kind |-> "bad", text |-> <<>>]

(* Every host kind; IPv6 only where the run is about it. *)
MCHostsAll == {MCLocalhost, MCName, MCIp4, MCIp6, MCUnix, MCBad}
MCHostsNoIp6 == {MCLocalhost, MCName, MCIp4, MCUnix, MCBad}

MCPorts == {5656, 5000}
MCZeroPorts == {5656, 0}
MCUsers == {defaultUser, "u"}
MCWaits == {defaultWait, "1m"}

(* DER certificates of n bytes. The lists cover the three base64 tails *)
(* (n mod 3 = 1, 2, 0), a body of exactly one 64-digit line (48 bytes) *)
(* and one that needs a second line (49 bytes).                        *)
MCCert(n) == [i \in 1..n |-> (37 * i + n) % 256]
MCCAs == {<<MCCert(1), MCCert(2), MCCert(3)>>, <<MCCert(48), MCCert(49)>>}
=============================================================================
