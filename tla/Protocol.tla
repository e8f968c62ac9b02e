------------------------------- MODULE Protocol -------------------------------
(***************************************************************************)
(* One client connection and its server over two FIFO message channels    *)
(* (spec.md 4.4, 5): handshake with at most one downgrade, trust or SASL  *)
(* authentication, pipelined Parse and Execute, error recovery by Sync,   *)
(* and Terminate.  The client encodes with the Frontend group of the      *)
(* version it negotiated; the server decodes with the group of the        *)
(* version it accepted; both dispatch through MessageGroups.  A message   *)
(* carries one argument: a version, a transaction state or a request.    *)
(***************************************************************************)
EXTENDS Naturals, Sequences, MessageGroups

CONSTANTS Ops, Cards, MaxOps, ReqVer, ServerVers, None

VARIABLES cstate, cver, downgraded, ctxn, creq, cphase, crows, cerr, clog,
          sstate, smax, sver, stxn, slogged, sres, c2s, s2c, garbled

cvars == <<cstate, cver, downgraded, ctxn, creq, cphase, crows, cerr, clog>>
svars == <<sstate, smax, sver, stxn, slogged, sres>>
vars == <<cvars, svars, c2s, s2c, garbled>>

ABS == INSTANCE ProtocolAbstract WITH
          state <- CASE cstate \in {"Connecting", "Authenticating"} -> "connecting"
                     [] cstate \in {"Idle", "Busy"} -> "idle"
                     [] OTHER -> "closed",
          txn <- ctxn, log <- clog

Env(m, arg) == [tag |-> Tag(m), status |-> Status(m), layout |-> m, arg |-> arg]

(* Client side: send with the negotiated group, read through Backend. *)
CGroup == FrontendFor(cver)
CSend(tag, arg) == Env(ClientMsg(CGroup, tag), arg)
CHead == IF s2c = <<>> THEN None ELSE Decode(Backend, Head(s2c))
CArg == Head(s2c).arg

(* Server side: read through the group of the accepted version. *)
SHead == IF c2s = <<>> THEN None ELSE Decode(FrontendFor(sver), Head(c2s))
SArg == Head(c2s).arg
SConsume == /\ c2s' = Tail(c2s)
            /\ garbled' = (garbled \/ SHead # Head(c2s).layout)
SReady(t) == Env("ReadyForCommand", t)

Init == /\ cstate = "Connecting" /\ cver = ReqVer /\ downgraded = FALSE
        /\ ctxn = "I" /\ creq = None /\ cphase = None /\ crows = 0
        /\ cerr = FALSE /\ clog = <<>>
        /\ sstate = "handshake" /\ smax \in ServerVers /\ sver = ReqVer
        /\ stxn = "I" /\ slogged = FALSE /\ sres = <<>>
        /\ c2s = <<Env("ClientHandshake", ReqVer)>> /\ s2c = <<>>
        /\ garbled = FALSE

-----------------------------------------------------------------------------
(* Server, from the handshake to authentication. *)
SHandshakeDowngrade ==
    /\ sstate = "handshake" /\ SHead = "ClientHandshake" /\ SArg > smax
    /\ SConsume /\ s2c' = Append(s2c, Env("ServerHandshake", smax))
    /\ UNCHANGED <<cvars, svars>>

SAccept(next, msgs) ==
    /\ sstate = "handshake" /\ SHead = "ClientHandshake" /\ SArg <= smax
    /\ SConsume /\ sver' = SArg /\ sstate' = next /\ s2c' = s2c \o msgs
    /\ UNCHANGED <<cvars, smax, stxn, slogged, sres>>

SAuthTrust == SAccept("ready", <<Env("AuthenticationOk", None),
                                 Env("ServerKeyData", None), SReady("I")>>)
SAuthSasl == SAccept("sasl", <<Env("AuthenticationRequiredSASLMessage", None)>>)

SSaslInitial ==
    /\ sstate = "sasl" /\ SHead = "AuthenticationSASLInitialResponse"
    /\ SConsume /\ sstate' = "sasl_cont"
    /\ s2c' = Append(s2c, Env("AuthenticationSASLContinue", None))
    /\ UNCHANGED <<cvars, smax, sver, stxn, slogged, sres>>

SSaslFinish(ok) ==
    /\ sstate = "sasl_cont" /\ SHead = "AuthenticationSASLResponse"
    /\ SConsume
    /\ IF ok
       THEN /\ sstate' = "ready"
            /\ s2c' = s2c \o <<Env("AuthenticationSASLFinal", None),
                               Env("AuthenticationOk", None), Env("ServerKeyData", None),
                               Env("ParameterStatus", None), SReady("I")>>
       ELSE /\ sstate' = "closed"
            /\ s2c' = Append(s2c, Env("ErrorResponse", None))
    /\ UNCHANGED <<cvars, smax, sver, stxn, slogged, sres>>

(* Server, commands.  A Parse of a query may fail (a syntax error), which *)
(* fails an open transaction; the Execute is where the transaction      *)
(* state decides the outcome.  After an error the server skips every     *)
(* message up to the next Sync.                                         *)
SParse(ok) ==
    /\ sstate = "ready" /\ SHead \in {"Parse", "Parse2"}
    /\ ok \/ SArg.op = "query"
    /\ SConsume
    /\ IF ok THEN /\ s2c' = Append(s2c, Env("CommandDataDescription", None))
                  /\ UNCHANGED <<sstate, stxn>>
             ELSE /\ s2c' = Append(s2c, Env("ErrorResponse", None))
                  /\ sstate' = "skip" /\ stxn' = ABS!FailTxn(stxn)
    /\ UNCHANGED <<cvars, smax, sver, slogged>>
    /\ sres' = IF ok THEN sres ELSE Append(sres, "error")

DataRows(n) == [i \in 1..n |-> Env("Data", None)]

SExecute ==
    /\ sstate = "ready" /\ SHead \in {"Execute", "Execute2"}
    /\ SConsume
    /\ \E o \in ABS!ServerRun(stxn, SArg.op), rows \in ABS!Rows(SArg.op) :
         /\ stxn' = o.txn
         /\ sres' = Append(sres, ABS!Result(o.ok, rows, SArg.card))
         /\ IF o.ok
            THEN /\ s2c' = s2c \o DataRows(rows)
                            \o <<Env("CommandComplete", None), SReady(o.txn)>>
                 /\ UNCHANGED sstate
            ELSE /\ s2c' = Append(s2c, Env("ErrorResponse", None))
                 /\ sstate' = "skip"
    /\ UNCHANGED <<cvars, smax, sver, slogged>>

(* Dump: DumpHeader, the DumpBlocks, CommandComplete (spec.md 4.4, 8). *)
SDump ==
    /\ sstate = "ready" /\ SHead \in {"Dump2", "Dump3"}
    /\ SConsume
    /\ \E o \in ABS!ServerRun(stxn, "dump"), blocks \in 0..1 :
         /\ stxn' = o.txn
         /\ sres' = Append(sres, ABS!Result(o.ok, 0, "NoResult"))
         /\ IF o.ok
            THEN /\ s2c' = s2c \o <<Env("DumpHeader", None)>>
                            \o [i \in 1..blocks |-> Env("DumpBlock", None)]
                            \o <<Env("CommandComplete", None), SReady(o.txn)>>
                 /\ UNCHANGED sstate
            ELSE /\ s2c' = Append(s2c, Env("ErrorResponse", None))
                 /\ sstate' = "skip"
    /\ UNCHANGED <<cvars, smax, sver, slogged>>

(* Restore: RestoreReady, then the client's blocks up to RestoreEof; a  *)
(* block the server cannot apply fails the restore.                     *)
SRestore ==
    /\ sstate = "ready" /\ SHead = "Restore"
    /\ SConsume
    /\ \E o \in ABS!ServerRun(stxn, "restore") :
         /\ stxn' = o.txn
         /\ sres' = IF o.ok THEN sres ELSE Append(sres, "error")
         /\ IF o.ok THEN /\ s2c' = Append(s2c, Env("RestoreReady", None))
                         /\ sstate' = "restoring"
                    ELSE /\ s2c' = Append(s2c, Env("ErrorResponse", None))
                         /\ sstate' = "skip"
    /\ UNCHANGED <<cvars, smax, sver, slogged>>

SRestoreBlock(ok) ==
    /\ sstate = "restoring" /\ SHead = "RestoreBlock"
    /\ SConsume
    /\ IF ok THEN UNCHANGED <<sstate, stxn, s2c>>
             ELSE /\ s2c' = Append(s2c, Env("ErrorResponse", None))
                  /\ sstate' = "skip" /\ stxn' = ABS!FailTxn(stxn)
    /\ UNCHANGED <<cvars, smax, sver, slogged>>
    /\ sres' = IF ok THEN sres ELSE Append(sres, "error")

SRestoreEof ==
    /\ sstate = "restoring" /\ SHead = "RestoreEof"
    /\ SConsume /\ sstate' = "ready"
    /\ s2c' = s2c \o <<Env("CommandComplete", None), SReady(stxn)>>
    /\ UNCHANGED <<cvars, smax, sver, stxn, slogged>>
    /\ sres' = Append(sres, ABS!Result(TRUE, 0, "NoResult"))

SSkip ==
    /\ sstate = "skip" /\ SHead \notin {None, "Sync"}
    /\ SConsume /\ UNCHANGED <<cvars, svars, s2c>>

SSync ==
    /\ sstate \in {"ready", "skip"} /\ SHead = "Sync"
    /\ SConsume /\ sstate' = "ready" /\ s2c' = Append(s2c, SReady(stxn))
    /\ UNCHANGED <<cvars, smax, sver, stxn, slogged, sres>>

STerminate ==
    /\ sstate = "ready" /\ SHead = "Terminate"
    /\ SConsume /\ sstate' = "closed"
    /\ UNCHANGED <<cvars, smax, sver, stxn, slogged, sres, s2c>>

(* The server may log to the client at any time, once here. *)
SLog ==
    /\ sstate \in {"ready", "skip"} /\ ~slogged
    /\ slogged' = TRUE /\ s2c' = Append(s2c, Env("LogMessage", None))
    /\ UNCHANGED <<cvars, sstate, smax, sver, stxn, sres, c2s, garbled>>
-----------------------------------------------------------------------------
(* Client, connecting.  A ServerHandshake with a lower version is        *)
(* answered once by a ClientHandshake at that version.                   *)
CRecv == s2c' = Tail(s2c)

CDowngrade ==
    /\ cstate = "Connecting" /\ CHead = "ServerHandshake"
    /\ CArg < cver /\ ~downgraded
    /\ CRecv /\ cver' = CArg /\ downgraded' = TRUE
    /\ c2s' = Append(c2s, Env("ClientHandshake", CArg))
    /\ UNCHANGED <<cstate, ctxn, creq, cphase, crows, cerr, clog, svars, garbled>>

CAuthOk ==
    /\ cstate \in {"Connecting", "Authenticating"} /\ CHead = "AuthenticationOk"
    /\ CRecv /\ cstate' = "Authenticating"
    /\ UNCHANGED <<cver, downgraded, ctxn, creq, cphase, crows, cerr, clog,
                   svars, c2s, garbled>>

CSaslNoReply(in, reply) ==
    /\ cstate \in {"Connecting", "Authenticating"} /\ CHead = in
    /\ CRecv /\ cstate' = "Authenticating"
    /\ UNCHANGED <<cver, downgraded, ctxn, creq, cphase, crows, cerr, clog,
                   svars, c2s, garbled>>

(* SASL: answer the request and each challenge; the final message only *)
(* precedes AuthenticationOk.                                           *)
CSasl(in, reply) ==
    /\ cstate \in {"Connecting", "Authenticating"} /\ CHead = in
    /\ CRecv /\ cstate' = "Authenticating"
    /\ c2s' = IF reply = None THEN c2s ELSE Append(c2s, CSend(reply, None))
    /\ UNCHANGED <<cver, downgraded, ctxn, creq, cphase, crows, cerr, clog,
                   svars, garbled>>

CAuthError ==
    /\ cstate \in {"Connecting", "Authenticating"} /\ CHead = "ErrorResponse"
    /\ CRecv /\ cstate' = "Closed"
    /\ UNCHANGED <<cver, downgraded, ctxn, creq, cphase, crows, cerr, clog,
                   svars, c2s, garbled>>

(* ServerKeyData, ParameterStatus and log messages are stored and the  *)
(* client goes on, except while it discards up to ReadyForCommand.       *)
CInfo ==
    /\ CHead \in {"ServerKeyData", "ParameterStatus", "StateDataDescription", "LogMessage"}
    /\ cphase # "drain"
    /\ CRecv /\ UNCHANGED <<cvars, svars, c2s, garbled>>

CReady ==
    /\ cstate = "Authenticating" /\ CHead = "ReadyForCommand"
    /\ CRecv /\ cstate' = "Idle" /\ ctxn' = CArg
    /\ UNCHANGED <<cver, downgraded, creq, cphase, crows, cerr, clog, svars, c2s, garbled>>

(* Client, requests.  A request sends its messages and waits in its first *)
(* phase; Parse and Execute are pipelined.                               *)
CBegin(req, msgs, phase) ==
    /\ cstate = "Idle" /\ Len(clog) < MaxOps
    /\ c2s' = c2s \o msgs
    /\ cstate' = "Busy" /\ creq' = req
    /\ cphase' = phase /\ crows' = 0 /\ cerr' = FALSE
    /\ UNCHANGED <<cver, downgraded, ctxn, clog, svars, s2c, garbled>>

CRequestRequestedGroup(op, card) ==
    LET g == FrontendFor(ReqVer) IN
    CBegin([op |-> op, card |-> card],
           <<Env(ClientMsg(g, "P"), [op |-> op, card |-> card]),
             Env(ClientMsg(g, "O"), [op |-> op, card |-> card])>>, "parse")

CRequest(op, card) ==
    CBegin([op |-> op, card |-> card],
           <<CSend("P", [op |-> op, card |-> card]),
             CSend("O", [op |-> op, card |-> card])>>, "parse")

CDump == CBegin([op |-> "dump", card |-> "NoResult"], <<CSend(">", None)>>, "dump")

CRestore ==
    CBegin([op |-> "restore", card |-> "NoResult"], <<CSend("<", None)>>, "restore_wait")

(* On RestoreReady the client streams its blocks and RestoreEof. *)
CRestoreStream ==
    /\ cstate = "Busy" /\ cphase = "restore_wait" /\ CHead = "RestoreReady"
    /\ CRecv /\ cphase' = "exec"
    /\ c2s' = c2s \o <<CSend("=", None), CSend(".", None)>>
    /\ UNCHANGED <<cstate, cver, downgraded, ctxn, creq, crows, cerr, clog, svars, garbled>>

(* Mutant: data rows are read but not counted. *)
CStepNoRowCount(phase, in, next) ==
    /\ cstate = "Busy" /\ cphase = phase /\ CHead = in
    /\ CRecv /\ cphase' = next
    /\ UNCHANGED <<cstate, cver, downgraded, ctxn, creq, crows, cerr, clog, svars, c2s, garbled>>

CStep(phase, in, next) ==
    /\ cstate = "Busy" /\ cphase = phase /\ CHead = in
    /\ CRecv /\ cphase' = next
    /\ crows' = IF in = "Data" THEN crows + 1 ELSE crows
    /\ UNCHANGED <<cstate, cver, downgraded, ctxn, creq, cerr, clog, svars, c2s, garbled>>

(* The phases in which the server may still answer with an error. *)
ErrorPhases == {"parse", "exec", "dump", "restore_wait"}

CErrorNoSync ==
    /\ cstate = "Busy" /\ cphase \in ErrorPhases /\ CHead = "ErrorResponse"
    /\ CRecv /\ cerr' = TRUE /\ cphase' = "drain"
    /\ UNCHANGED <<cstate, cver, downgraded, ctxn, creq, crows, clog, svars, c2s, garbled>>

(* An ErrorResponse mid-pipeline: send Sync, discard up to ReadyForCommand. *)
CError ==
    /\ cstate = "Busy" /\ cphase \in ErrorPhases /\ CHead = "ErrorResponse"
    /\ CRecv /\ cerr' = TRUE /\ cphase' = "drain"
    /\ c2s' = Append(c2s, CSend("S", None))
    /\ UNCHANGED <<cstate, cver, downgraded, ctxn, creq, crows, clog, svars, garbled>>

CDiscard ==
    /\ cstate = "Busy" /\ cphase = "drain" /\ CHead \notin {None, "ReadyForCommand"}
    /\ CRecv /\ UNCHANGED <<cvars, svars, c2s, garbled>>

CCompleteKeepsTxn ==
    /\ cstate = "Busy" /\ cphase \in {"done", "drain"} /\ CHead = "ReadyForCommand"
    /\ CRecv /\ cstate' = "Idle" /\ cphase' = None
    /\ clog' = Append(clog, [op |-> creq.op, card |-> creq.card,
                             result |-> ABS!Result(~cerr, crows, creq.card)])
    /\ UNCHANGED <<cver, downgraded, ctxn, creq, crows, cerr, svars, c2s, garbled>>

(* ReadyForCommand ends the request with its result and transaction state. *)
CComplete ==
    /\ cstate = "Busy" /\ cphase \in {"done", "drain"} /\ CHead = "ReadyForCommand"
    /\ CRecv /\ cstate' = "Idle" /\ ctxn' = CArg /\ cphase' = None
    /\ clog' = Append(clog, [op |-> creq.op, card |-> creq.card,
                             result |-> ABS!Result(~cerr, crows, creq.card)])
    /\ UNCHANGED <<cver, downgraded, creq, crows, cerr, svars, c2s, garbled>>

CTerminate ==
    /\ cstate = "Idle"
    /\ c2s' = Append(c2s, CSend("X", None)) /\ cstate' = "Closed"
    /\ UNCHANGED <<cver, downgraded, ctxn, creq, cphase, crows, cerr, clog,
                   svars, s2c, garbled>>

(* Mutant: the cancelled connection goes back to Idle and is reused. *)
CCancelReusable ==
    /\ cstate = "Busy" /\ cstate' = "Idle" /\ cphase' = None
    /\ UNCHANGED <<cver, downgraded, ctxn, creq, crows, cerr, clog,
                   svars, c2s, s2c, garbled>>

(* Spec 5: cancel() of an in-flight request drops the awaiting caller    *)
(* and does not advance the state machine; the connection is marked       *)
(* inconsistent, accepts no further request and can only be closed, with  *)
(* the answers to the dropped request still on the wire.                  *)
CCancel ==
    /\ cstate = "Busy" /\ cstate' = "Inconsistent"
    /\ UNCHANGED <<cver, downgraded, ctxn, creq, cphase, crows, cerr, clog,
                   svars, c2s, s2c, garbled>>

(* An inconsistent connection is closed by dropping its transport. *)
CCloseInconsistent ==
    /\ cstate = "Inconsistent" /\ cstate' = "Closed"
    /\ UNCHANGED <<cver, downgraded, ctxn, creq, cphase, crows, cerr, clog,
                   svars, c2s, s2c, garbled>>

-----------------------------------------------------------------------------
ServerStep ==
    \/ SHandshakeDowngrade \/ SAuthTrust \/ SAuthSasl \/ SSaslInitial
    \/ \E ok \in BOOLEAN : SSaslFinish(ok) \/ SParse(ok)
    \/ SExecute \/ SDump \/ SRestore \/ SRestoreEof
    \/ \E ok \in BOOLEAN : SRestoreBlock(ok)
    \/ SSkip \/ SSync \/ STerminate

ClientRecv ==
    \/ CDowngrade \/ CAuthOk \/ CAuthError \/ CInfo \/ CReady
    \/ CSasl("AuthenticationRequiredSASLMessage", "p")
    \/ CSasl("AuthenticationSASLContinue", "r")
    \/ CSasl("AuthenticationSASLFinal", None)
    \/ CStep("parse", "CommandDataDescription", "exec")
    \/ CStep("exec", "Data", "exec")
    \/ CStep("exec", "CommandComplete", "done")
    \/ CStep("dump", "DumpHeader", "dump_blocks")
    \/ CStep("dump_blocks", "DumpBlock", "dump_blocks")
    \/ CStep("dump_blocks", "CommandComplete", "done")
    \/ CRestoreStream
    \/ CError \/ CDiscard \/ CComplete

Next ==
    \/ ServerStep \/ SLog \/ ClientRecv \/ CTerminate
    \/ CCancel \/ CCloseInconsistent
    \/ \E op \in Ops \ {"dump", "restore"}, card \in Cards : CRequest(op, card)
    \/ CDump \/ CRestore

Spec == Init /\ [][Next]_vars

(* The server keeps reading its socket, and the client reads its own    *)
(* while a caller awaits a connect or a request; neither the caller's   *)
(* requests, their cancellation nor the server's log messages are       *)
(* forced.                                                               *)
FairSpec == Spec /\ WF_vars(ServerStep) /\ WF_vars(ClientRecv)

-----------------------------------------------------------------------------
(* The connection implements ProtocolAbstract: every request the client *)
(* completes carries the result the server gave that request, in order,  *)
(* and the transaction state the client tracks is the server's.  A       *)
(* cancelled connection is closed to its caller: were it reused, the next *)
(* request would read the dropped request's answers as its own.          *)
Refines == ABS!Spec

(* The i-th result the client logs is the outcome the server gave its    *)
(* i-th request: ok, a server error, or NoDataError for a command that  *)
(* returned no row under a non-optional cardinality.  Refines alone     *)
(* admits any result the server could have given; this relates the     *)
(* client's log to what the server actually did, across pipelining,     *)
(* errors skipped up to Sync, dump and restore sub-streams and cancel.   *)
ResultsAsServerGave ==
    /\ Len(clog) <= Len(sres)
    /\ \A i \in 1..Len(clog) : clog[i].result = sres[i]

(* Every message the server reads is decoded with the layout the client *)
(* encoded it with: after a downgrade the client must switch to the     *)
(* Frontend group of the negotiated version (Parse2, Execute2).          *)
DecodedAsSent == ~garbled

(* Every request the client sends is eventually completed, also after an *)
(* ErrorResponse, when the server waits for a Sync before it answers,   *)
(* unless its caller cancels it.                                         *)
RequestCompletes == cstate = "Busy" ~> cstate # "Busy"

(* Every connect settles: the handshake, a downgrade and each SASL round *)
(* trip end in a ready connection or a closed one, never in both sides   *)
(* waiting for the other.                                               *)
ConnectSettles ==
    cstate \in {"Connecting", "Authenticating"} ~> cstate \in {"Idle", "Closed"}
=============================================================================
