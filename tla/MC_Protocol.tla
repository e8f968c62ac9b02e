----------------------------- MODULE MC_Protocol -----------------------------
(* One connection: the client asks for protocol 3; the server supports 3 *)
(* or only 2, so both the current and the legacy Frontend group occur.   *)
EXTENDS Protocol

CONSTANT none

MCOps == {"query", "start", "rollback", "dump", "restore"}
MCCards == {"One", "NoResult"}
MCServerVers == {2, 3}
=============================================================================
