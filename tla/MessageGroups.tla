---------------------------- MODULE MessageGroups ----------------------------
(***************************************************************************)
(* The message groups of gel-db-protocol/src/protocol.rs: which messages  *)
(* each direction and protocol version may carry, the mtype tag of each   *)
(* message, and the auth_status sub-tag of the messages that share 'R'.   *)
(* A message is named by its struct; its fields other than the tags do    *)
(* not decide how it is dispatched and are left out.                      *)
(***************************************************************************)
EXTENDS Integers, FiniteSets

(* message_group!(EdgeDBBackend: Message = [...]) *)
Backend ==
    {"AuthenticationOk", "AuthenticationRequiredSASLMessage",
     "AuthenticationSASLContinue", "AuthenticationSASLFinal", "ServerKeyData",
     "ParameterStatus", "ServerHandshake", "ReadyForCommand", "RestoreReady",
     "CommandComplete", "CommandDataDescription", "StateDataDescription",
     "Data", "DumpHeader", "DumpBlock", "ErrorResponse", "LogMessage"}

(* message_group!(EdgeDBFrontend2: ...), the legacy client messages. *)
Frontend2 ==
    {"ClientHandshake", "AuthenticationSASLInitialResponse",
     "AuthenticationSASLResponse", "Parse2", "Execute2", "Sync", "Terminate",
     "Dump2", "Restore", "RestoreBlock", "RestoreEof"}

(* message_group!(EdgeDBFrontend: ...), the current client messages. *)
Frontend ==
    {"ClientHandshake", "AuthenticationSASLInitialResponse",
     "AuthenticationSASLResponse", "Parse", "Execute", "Sync", "Terminate",
     "Dump3", "Restore", "RestoreBlock", "RestoreEof"}

(* The mtype of each server message struct. *)
BackendTag ==
    [ErrorResponse |-> "E", LogMessage |-> "L", ReadyForCommand |-> "Z",
     RestoreReady |-> "+", CommandComplete |-> "C",
     CommandDataDescription |-> "T", StateDataDescription |-> "s",
     Data |-> "D", DumpHeader |-> "@", DumpBlock |-> "=",
     ServerKeyData |-> "K", ParameterStatus |-> "S", ServerHandshake |-> "v",
     AuthenticationOk |-> "R", AuthenticationRequiredSASLMessage |-> "R",
     AuthenticationSASLContinue |-> "R", AuthenticationSASLFinal |-> "R"]

(* The mtype of each client message struct. *)
FrontendTag ==
    [Dump |-> ">", Dump2 |-> ">", Dump3 |-> ">", Sync |-> "S",
     Restore |-> "<", RestoreBlock |-> "=", RestoreEof |-> ".",
     Parse2 |-> "P", Parse |-> "P", Execute |-> "O", Execute2 |-> "O",
     ClientHandshake |-> "V", Terminate |-> "X",
     AuthenticationSASLInitialResponse |-> "p",
     AuthenticationSASLResponse |-> "r"]

(* The fixed auth_status of the four authentication messages. *)
AuthStatus ==
    [AuthenticationOk |-> 0, AuthenticationRequiredSASLMessage |-> 10,
     AuthenticationSASLContinue |-> 11, AuthenticationSASLFinal |-> 12]

NoStatus == -1

(* What a reader sees of a message before choosing its decoder: the tag, *)
(* and for an 'R' message the auth_status that follows mlen.             *)
Tag(m) == IF m \in DOMAIN BackendTag THEN BackendTag[m] ELSE FrontendTag[m]
Status(m) == IF m \in DOMAIN AuthStatus THEN AuthStatus[m] ELSE NoStatus
Wire(m) == [tag |-> Tag(m), status |-> Status(m), layout |-> m]

(* The dispatch of a message group (spec.md 4.2): the group's messages    *)
(* with the envelope's tag and, where the message has one, its sub-tag.  *)
Candidates(group, w) ==
    {m \in group : Tag(m) = w.tag /\ (Status(m) # NoStatus => Status(m) = w.status)}

(* The decoder a group selects, or UnexpectedMessage. *)
Decode(group, w) ==
    IF Cardinality(Candidates(group, w)) = 1
    THEN CHOOSE m \in Candidates(group, w) : TRUE
    ELSE "UnexpectedMessage"

(* The client message group of a negotiated major version (spec.md 3).  *)
FrontendFor(ver) == IF ver >= 3 THEN Frontend ELSE Frontend2

(* The client message of a group with a given tag, e.g. Parse or Parse2. *)
ClientMsg(group, tag) == CHOOSE m \in group : Tag(m) = tag

(* TransactionState: the byte of ReadyForCommand.transaction_state. *)
TransactionState ==
    [NotInTransaction |-> "I", InTransaction |-> "T", InFailedTransaction |-> "E"]

(* Cardinality::is_optional *)
IsOptional(card) == card \in {"NoResult", "AtMostOne", "Many"}
=============================================================================
