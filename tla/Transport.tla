------------------------------ MODULE Transport ------------------------------
(***************************************************************************)
(* gel-stream client and server transport.                                 *)
(*                                                                         *)
(* Clients run Connector::connect (src/gel-stream/src/client/              *)
(* connection.rs) against one listening Acceptor (src/gel-stream/src/      *)
(* server/acceptor.rs) whose AcceptedStream::poll_next hands accepted      *)
(* sockets to the server, running the TLS handshake first when the         *)
(* acceptor was built with should_upgrade.  Raw peers (Stalling) open a    *)
(* socket and never send a byte.                                           *)
(*                                                                         *)
(* Each socket is a pair of reliable FIFO byte streams (TCP), kept as      *)
(* append-only histories c2s / s2c with read indices, so properties can    *)
(* speak about everything ever sent.  The TLS handshake is abstracted to   *)
(* Hello -> ServerHello -> Finished; certificate verification is a         *)
(* nondeterministic outcome.  Application data is one message kind,        *)
(* tagged with whether it went through TLS.                                *)
(***************************************************************************)
EXTENDS Target, Sequences, SequencesExt, FiniteSets

CONSTANTS
    Clients,            \* peers running Connector::connect
    Stalling,           \* peers that connect and never send anything
    TransportTargets,   \* the targets a Connector may be built with
    ServerModes,        \* acceptor constructors: "Plain", "Tls", "StartTls"
    MaxData,            \* bound on application messages per client
    None                \* model value: no pending upgrade future

Peers == Clients \cup Stalling

ASSUME /\ Clients \cap Stalling = {}
       /\ TransportTargets \subseteq Targets
       /\ ServerModes \subseteq {"Plain", "Tls", "StartTls"}
       /\ MaxData \in Nat
       /\ None \notin Peers

VARIABLES
    serverMode, \* which Acceptor constructor built the listener
    target,     \* [Clients -> Target]: Connector.target
    keepalive,  \* [Clients -> BOOLEAN]: Connector.keepalive is Some
    cphase,     \* [Clients -> phase of the client]
    ctls,       \* [Clients -> BOOLEAN]: the client stream is TLS-upgraded
    cka,        \* [Clients -> BOOLEAN]: keepalive was set on the socket
    cerr,       \* [Clients -> last error returned to the client]
    c2s, s2c,   \* [Peers -> Seq(Msg)]: bytes sent in each direction
    srd, crd,   \* [Peers -> Nat]: how much of c2s / s2c has been read
    accepted,   \* Seq(Peers): sockets in the order the listener accepted them
    backlog,    \* Seq(Peers): accepted, not yet taken by poll_next
    pending,    \* AcceptedStream.upgrade_future: the peer it upgrades, or None
    hs,         \* [Peers -> {"hello","finished"}]: server handshake progress
    yielded,    \* Seq([peer, ok]): items returned by poll_next
    stls        \* [Peers -> BOOLEAN]: the server stream is TLS-upgraded

cvars == <<target, keepalive, cphase, ctls, cka, cerr>>
vars == <<serverMode, cvars, c2s, s2c, srd, crd, accepted, backlog, pending,
          hs, yielded, stls>>

Phases == {"init", "handshaking", "connected", "failed", "closed"}
Errors == {"none", "Resolve", "Refused", "Io", "Ssl", "Certificate",
           "InvalidTlsProtocolData", "Eof", "SslUnsupportedByClient",
           "SslAlreadyUpgraded"}
Kinds2 == {"Hello", "ServerHello", "Finished", "Data", "Close"}
Msgs == [kind : Kinds2, enc : BOOLEAN]

Msg(k) == [kind |-> k, enc |-> FALSE]
DataMsg(e) == [kind |-> "Data", enc |-> e]

(* Acceptor::new_tls / new_tcp_tls set should_upgrade; new_starttls and    *)
(* new_tcp_starttls keep a TLS provider for a later secure_upgrade.        *)
ShouldUpgrade == serverMode = "Tls"

Unread(p)       == srd[p] < Len(c2s[p])
NextIn(p)       == c2s[p][srd[p] + 1]
ClientUnread(c) == crd[c] < Len(s2c[c])
ClientNextIn(c) == s2c[c][crd[c] + 1]

YieldedSeq  == [i \in 1..Len(yielded) |-> yielded[i].peer]
YieldedOk(p) == \E i \in 1..Len(yielded) : yielded[i] = [peer |-> p, ok |-> TRUE]
PendingSeq  == IF pending = None THEN <<>> ELSE <<pending>>
DataSent(c) == Len(SelectSeq(c2s[c], LAMBDA m : m.kind = "Data"))

SendC2S(p, m) == c2s' = [c2s EXCEPT ![p] = Append(@, m)]
SendS2C(p, m) == s2c' = [s2c EXCEPT ![p] = Append(@, m)]
Accept(p) == /\ accepted' = Append(accepted, p)
             /\ backlog' = Append(backlog, p)
srvVars == <<srd, s2c, accepted, backlog, pending, hs, yielded, stls>>

TypeOK ==
    /\ serverMode \in ServerModes
    /\ target \in [Clients -> TransportTargets]
    /\ keepalive \in [Clients -> BOOLEAN]
    /\ cphase \in [Clients -> Phases]
    /\ ctls \in [Clients -> BOOLEAN]
    /\ \A c \in Clients : cka[c] \in IF IsTcp(target[c]) THEN BOOLEAN ELSE {FALSE}
    /\ cerr \in [Clients -> Errors]
    /\ c2s \in [Peers -> Seq(Msgs)] /\ s2c \in [Peers -> Seq(Msgs)]
    /\ srd \in [Peers -> Nat] /\ crd \in [Peers -> Nat]
    /\ accepted \in Seq(Peers) /\ backlog \in Seq(Peers)
    /\ pending \in Peers \cup {None}
    /\ hs \in [Peers -> {"hello", "finished"}]
    /\ yielded \in Seq([peer : Peers, ok : BOOLEAN])
    /\ stls \in [Peers -> BOOLEAN]

Init ==
    /\ serverMode \in ServerModes
    /\ target \in [Clients -> TransportTargets]
    /\ keepalive \in [Clients -> BOOLEAN]
    /\ cphase = [c \in Clients |-> "init"]
    /\ ctls = [c \in Clients |-> FALSE]
    /\ cka = [c \in Clients |-> FALSE]
    /\ cerr = [c \in Clients |-> "none"]
    /\ c2s = [p \in Peers |-> <<>>] /\ s2c = [p \in Peers |-> <<>>]
    /\ srd = [p \in Peers |-> 0] /\ crd = [p \in Peers |-> 0]
    /\ accepted = <<>> /\ backlog = <<>>
    /\ pending = None
    /\ hs = [p \in Peers |-> "hello"]
    /\ yielded = <<>>
    /\ stls = [p \in Peers |-> FALSE]
-----------------------------------------------------------------------------
(***************************************************************************)
(* Client: Connector::connect.                                             *)
(***************************************************************************)

(* resolve_remote(host).await? (only for an Unresolved target) or          *)
(* connect().await? fails: no socket was opened.                           *)
ConnectFail(c) ==
    /\ cphase[c] = "init"
    /\ \E e \in IF target[c].ep.kind = "Host" THEN {"Resolve", "Refused"}
                                             ELSE {"Refused"} :
          /\ cphase' = [cphase EXCEPT ![c] = "failed"]
          /\ cerr' = [cerr EXCEPT ![c] = e]
    /\ UNCHANGED <<serverMode, target, keepalive, ctls, cka, c2s, crd, srvVars>>

(* Mutant: keepalive set without the is_tcp() check. *)
ConnectSocketAnySocket(c) ==
    LET t  == target[c]
        ka == keepalive[c]
        Fail(e) == /\ cphase' = [cphase EXCEPT ![c] = "failed"]
                   /\ cerr' = [cerr EXCEPT ![c] = e]
                   /\ SendC2S(c, Msg("Close"))
                   /\ UNCHANGED cka
    IN
    /\ cphase[c] = "init"
    /\ Accept(c)
    /\ \/ ka /\ Fail("Io")
       \/ MaybeSsl(t) # NoParams /\ Fail("Ssl")
       \/ /\ cka' = [cka EXCEPT ![c] = ka]
          /\ IF MaybeSsl(t) # NoParams /\ ~IsStarttls(t)
             THEN /\ cphase' = [cphase EXCEPT ![c] = "handshaking"]
                  /\ SendC2S(c, Msg("Hello"))
             ELSE /\ cphase' = [cphase EXCEPT ![c] = "connected"]
                  /\ UNCHANGED c2s
          /\ UNCHANGED cerr
    /\ UNCHANGED <<serverMode, target, keepalive, ctls, crd, srd, s2c,
                   pending, hs, yielded, stls>>

(* Mutant: the is_starttls() test inverted. *)
ConnectSocketInverted(c) ==
    LET t  == target[c]
        ka == keepalive[c] /\ IsTcp(t)
        Fail(e) == /\ cphase' = [cphase EXCEPT ![c] = "failed"]
                   /\ cerr' = [cerr EXCEPT ![c] = e]
                   /\ SendC2S(c, Msg("Close"))
                   /\ UNCHANGED cka
    IN
    /\ cphase[c] = "init"
    /\ Accept(c)
    /\ \/ ka /\ Fail("Io")
       \/ MaybeSsl(t) # NoParams /\ Fail("Ssl")
       \/ /\ cka' = [cka EXCEPT ![c] = ka]
          /\ IF MaybeSsl(t) # NoParams /\ IsStarttls(t)
             THEN /\ cphase' = [cphase EXCEPT ![c] = "handshaking"]
                  /\ SendC2S(c, Msg("Hello"))
             ELSE /\ cphase' = [cphase EXCEPT ![c] = "connected"]
                  /\ UNCHANGED c2s
          /\ UNCHANGED cerr
    /\ UNCHANGED <<serverMode, target, keepalive, ctls, crd, srd, s2c,
                   pending, hs, yielded, stls>>

(* The socket connects: the listener has accepted it.  The rest of         *)
(* connect() then runs up to its first await on the peer: set_keepalive    *)
(* (TCP only) and D::init_client may fail with `?`, dropping the socket;   *)
(* a Tls target starts secure_upgrade, whose first poll writes the         *)
(* ClientHello; NoTls and StartTls targets return the stream at once.      *)
ConnectSocket(c) ==
    LET t  == target[c]
        ka == keepalive[c] /\ IsTcp(t)
        Fail(e) == /\ cphase' = [cphase EXCEPT ![c] = "failed"]
                   /\ cerr' = [cerr EXCEPT ![c] = e]
                   /\ SendC2S(c, Msg("Close"))
                   /\ UNCHANGED cka
    IN
    /\ cphase[c] = "init"
    /\ Accept(c)
    /\ \/ ka /\ Fail("Io")
       \/ MaybeSsl(t) # NoParams /\ Fail("Ssl")
       \/ /\ cka' = [cka EXCEPT ![c] = ka]
          /\ IF MaybeSsl(t) # NoParams /\ ~IsStarttls(t)
             THEN /\ cphase' = [cphase EXCEPT ![c] = "handshaking"]
                  /\ SendC2S(c, Msg("Hello"))
             ELSE /\ cphase' = [cphase EXCEPT ![c] = "connected"]
                  /\ UNCHANGED c2s
          /\ UNCHANGED cerr
    /\ UNCHANGED <<serverMode, target, keepalive, ctls, crd, srd, s2c,
                   pending, hs, yielded, stls>>

(* UpgradableStream::secure_upgrade, client side, takes the next message   *)
(* from the server: a ServerHello is verified (certificate and name) and   *)
(* answered with Finished; anything else fails the handshake.  A failed    *)
(* stream is dropped, closing the socket.                                  *)
HandshakeStep(c) ==
    LET m == ClientNextIn(c)
        Fail(e) == /\ cphase' = [cphase EXCEPT ![c] = "failed"]
                   /\ cerr' = [cerr EXCEPT ![c] = e]
                   /\ SendC2S(c, Msg("Close"))
                   /\ UNCHANGED ctls
    IN
    /\ cphase[c] = "handshaking"
    /\ ClientUnread(c)
    /\ crd' = [crd EXCEPT ![c] = @ + 1]
    /\ \/ /\ m.kind = "ServerHello"
          /\ cphase' = [cphase EXCEPT ![c] = "connected"]
          /\ ctls' = [ctls EXCEPT ![c] = TRUE]
          /\ SendC2S(c, Msg("Finished"))
          /\ UNCHANGED cerr
       \/ m.kind = "ServerHello" /\ Fail("Certificate")
       \/ m.kind = "Data" /\ Fail("InvalidTlsProtocolData")
       \/ m.kind = "Close" /\ Fail("Eof")
    /\ UNCHANGED <<serverMode, target, keepalive, cka, srvVars>>

(* The application writes to a connected stream (UpgradableStream          *)
(* poll_write): through TLS once upgraded, in the clear before.            *)
SendData(c) ==
    /\ cphase[c] = "connected"
    /\ DataSent(c) < MaxData
    /\ SendC2S(c, DataMsg(ctls[c]))
    /\ UNCHANGED <<serverMode, cvars, crd, srvVars>>

(* UpgradableStream::secure_upgrade on a connected stream: refused without *)
(* touching the socket when the stream has no TLS parameters               *)
(* (SslUnsupportedByClient) or is already upgraded (SslAlreadyUpgraded);   *)
(* otherwise the handshake starts with a ClientHello (a StartTls stream).  *)
SecureUpgrade(c) ==
    /\ cphase[c] = "connected"
    /\ \/ /\ MaybeSsl(target[c]) = NoParams
          /\ cerr' = [cerr EXCEPT ![c] = "SslUnsupportedByClient"]
          /\ UNCHANGED <<cphase, c2s>>
       \/ /\ ctls[c]
          /\ cerr' = [cerr EXCEPT ![c] = "SslAlreadyUpgraded"]
          /\ UNCHANGED <<cphase, c2s>>
       \/ /\ MaybeSsl(target[c]) # NoParams /\ ~ctls[c]
          /\ cphase' = [cphase EXCEPT ![c] = "handshaking"]
          /\ SendC2S(c, Msg("Hello"))
          /\ UNCHANGED cerr
    /\ UNCHANGED <<serverMode, target, keepalive, ctls, cka, crd, srvVars>>

(* The stream, or the connect() future during its handshake (a connect    *)
(* timeout), is dropped: the socket closes.                                *)
Drop(c) ==
    /\ cphase[c] \in {"connected", "handshaking"}
    /\ cphase' = [cphase EXCEPT ![c] = "closed"]
    /\ SendC2S(c, Msg("Close"))
    /\ UNCHANGED <<serverMode, target, keepalive, ctls, cka, cerr, crd, srvVars>>

(* A raw peer opens a socket to the listener and never writes.             *)
RawConnect(p) ==
    /\ p \notin ToSet(accepted)
    /\ Accept(p)
    /\ UNCHANGED <<serverMode, cvars, c2s, crd, srd, s2c, pending, hs,
                   yielded, stls>>
-----------------------------------------------------------------------------
(***************************************************************************)
(* Server: AcceptedStream::poll_next and the server application.           *)
(***************************************************************************)

(* Mutant: the Pending arm forgets to store the future back. *)
UpgradePollForget(p) ==
    LET m == NextIn(p) IN
    /\ Unread(p)
    /\ srd' = [srd EXCEPT ![p] = @ + 1]
    /\ \/ /\ hs[p] = "hello" /\ m.kind = "Hello"
          /\ SendS2C(p, Msg("ServerHello"))
          /\ hs' = [hs EXCEPT ![p] = "finished"]
          /\ pending' = None
          /\ UNCHANGED <<yielded, stls>>
       \/ /\ hs[p] = "finished" /\ m.kind = "Finished"
          /\ yielded' = Append(yielded, [peer |-> p, ok |-> TRUE])
          /\ stls' = [stls EXCEPT ![p] = TRUE]
          /\ pending' = None
          /\ UNCHANGED <<s2c, hs>>
       \/ /\ ~(hs[p] = "hello" /\ m.kind = "Hello")
          /\ ~(hs[p] = "finished" /\ m.kind = "Finished")
          /\ yielded' = Append(yielded, [peer |-> p, ok |-> FALSE])
          /\ pending' = None
          /\ SendS2C(p, Msg("Close"))
          /\ UNCHANGED <<hs, stls>>

(* Mutant: a failed handshake is swallowed instead of returned. *)
UpgradePollSwallow(p) ==
    LET m == NextIn(p) IN
    /\ Unread(p)
    /\ srd' = [srd EXCEPT ![p] = @ + 1]
    /\ \/ /\ hs[p] = "hello" /\ m.kind = "Hello"
          /\ SendS2C(p, Msg("ServerHello"))
          /\ hs' = [hs EXCEPT ![p] = "finished"]
          /\ pending' = p
          /\ UNCHANGED <<yielded, stls>>
       \/ /\ hs[p] = "finished" /\ m.kind = "Finished"
          /\ yielded' = Append(yielded, [peer |-> p, ok |-> TRUE])
          /\ stls' = [stls EXCEPT ![p] = TRUE]
          /\ pending' = None
          /\ UNCHANGED <<s2c, hs>>
       \/ /\ ~(hs[p] = "hello" /\ m.kind = "Hello")
          /\ ~(hs[p] = "finished" /\ m.kind = "Finished")
          /\ pending' = p
          /\ SendS2C(p, Msg("Close"))
          /\ UNCHANGED <<hs, stls, yielded>>

(* One poll of the upgrade future (Box::pin(async { secure_upgrade().await; *)
(* Ok(stream) })) for the socket of peer p, which has input to read:       *)
(*   Pending      the ClientHello was answered; the future is stored back  *)
(*                in self.upgrade_future;                                  *)
(*   Ready(Ok)    the client's Finished completed the handshake: the       *)
(*                upgraded stream is returned;                             *)
(*   Ready(Err)   anything else: the error is returned, the stream inside  *)
(*                the future is dropped and its socket closed.             *)
(* With no input the poll is Pending and nothing changes.                  *)
UpgradePoll(p) ==
    LET m == NextIn(p) IN
    /\ Unread(p)
    /\ srd' = [srd EXCEPT ![p] = @ + 1]
    /\ \/ /\ hs[p] = "hello" /\ m.kind = "Hello"
          /\ SendS2C(p, Msg("ServerHello"))
          /\ hs' = [hs EXCEPT ![p] = "finished"]
          /\ pending' = p
          /\ UNCHANGED <<yielded, stls>>
       \/ /\ hs[p] = "finished" /\ m.kind = "Finished"
          /\ yielded' = Append(yielded, [peer |-> p, ok |-> TRUE])
          /\ stls' = [stls EXCEPT ![p] = TRUE]
          /\ pending' = None
          /\ UNCHANGED <<s2c, hs>>
       \/ /\ ~(hs[p] = "hello" /\ m.kind = "Hello")
          /\ ~(hs[p] = "finished" /\ m.kind = "Finished")
          /\ yielded' = Append(yielded, [peer |-> p, ok |-> FALSE])
          /\ pending' = None
          /\ SendS2C(p, Msg("Close"))
          /\ UNCHANGED <<hs, stls>>

(* AcceptedStream::poll_next, one call that makes progress.  A stored      *)
(* upgrade future is polled first and the listener is not looked at.       *)
(* Otherwise the next accepted socket is taken; with should_upgrade a new  *)
(* upgrade future is created and polled once, else the plain stream is     *)
(* returned.                                                               *)
ServerPoll ==
    /\ \/ /\ pending # None
          /\ UpgradePoll(pending)
          /\ UNCHANGED backlog
       \/ /\ pending = None
          /\ backlog # <<>>
          /\ backlog' = Tail(backlog)
          /\ LET p == Head(backlog) IN
             \/ /\ ~ShouldUpgrade
                /\ yielded' = Append(yielded, [peer |-> p, ok |-> TRUE])
                /\ UNCHANGED <<srd, s2c, pending, hs, stls>>
             \/ ShouldUpgrade /\ UpgradePoll(p)
             \/ /\ ShouldUpgrade /\ ~Unread(p)
                /\ pending' = p
                /\ UNCHANGED <<srd, s2c, hs, yielded, stls>>
    /\ UNCHANGED <<serverMode, cvars, c2s, crd, accepted>>

(* The server application reading a stream poll_next returned Ok: on a     *)
(* StartTls acceptor it runs secure_upgrade when the client's Hello        *)
(* arrives (Hello answered, then Finished completes it); a plain server    *)
(* answers a TLS Hello in the clear (the test server's "No TLS!"); data    *)
(* and end-of-stream are consumed.                                         *)
ServerApp(p) ==
    LET m == NextIn(p) IN
    /\ YieldedOk(p)
    /\ Unread(p)
    /\ srd' = [srd EXCEPT ![p] = @ + 1]
    /\ \/ /\ m.kind = "Hello" /\ serverMode = "StartTls"
          /\ ~stls[p] /\ hs[p] = "hello"
          /\ SendS2C(p, Msg("ServerHello"))
          /\ hs' = [hs EXCEPT ![p] = "finished"]
          /\ UNCHANGED stls
       \/ /\ m.kind = "Finished" /\ serverMode = "StartTls"
          /\ ~stls[p] /\ hs[p] = "finished"
          /\ stls' = [stls EXCEPT ![p] = TRUE]
          /\ UNCHANGED <<s2c, hs>>
       \/ /\ m.kind = "Hello" /\ serverMode = "Plain"
          /\ SendS2C(p, DataMsg(FALSE))
          /\ UNCHANGED <<hs, stls>>
       \/ /\ m.kind \in {"Data", "Close"}
          /\ UNCHANGED <<s2c, hs, stls>>
    /\ UNCHANGED <<serverMode, cvars, c2s, crd, accepted, backlog, pending,
                   yielded>>

ClientStep(c) ==
    \/ ConnectFail(c) \/ ConnectSocket(c) \/ HandshakeStep(c)
    \/ SendData(c) \/ SecureUpgrade(c) \/ Drop(c)

Next ==
    \/ \E c \in Clients : ClientStep(c)
    \/ \E p \in Stalling : RawConnect(p)
    \/ ServerPoll
    \/ \E p \in Peers : ServerApp(p)

(* The executor polls the accept loop and every task whose waker fired;    *)
(* each client task keeps running until its connection is done.           *)
Fairness ==
    /\ WF_vars(ServerPoll)
    /\ \A p \in Peers : WF_vars(ServerApp(p))
    /\ \A c \in Clients : WF_vars(ClientStep(c))

Spec == Init /\ [][Next]_vars
FairSpec == Spec /\ Fairness
-----------------------------------------------------------------------------
(* Every socket the listener accepted is, in accept order, either already  *)
(* returned by poll_next (as a stream or as a handshake error), held in    *)
(* the one stored upgrade future, or still waiting in the listener:        *)
(* poll_next never loses, duplicates or reorders a connection.             *)
AcceptConservation ==
    accepted = YieldedSeq \o PendingSeq \o backlog

(* A client never writes application data in the clear on a Tls target,   *)
(* and on a StartTls target only before it started the handshake:          *)
(* Connector::connect must finish secure_upgrade before returning a Tls    *)
(* stream, and a failed upgrade must not leave a usable plain stream.      *)
PlaintextOnlyBeforeTls ==
    \A c \in Clients : \A i \in 1..Len(c2s[c]) :
        c2s[c][i] = DataMsg(FALSE) =>
            \/ MaybeSsl(target[c]) = NoParams
            \/ /\ IsStarttls(target[c])
               /\ \A j \in 1..(i - 1) : c2s[c][j].kind # "Hello"

(* Every connection a Connector opened is eventually handed to the server  *)
(* by poll_next, as a stream or as an error (spec 5: accepted connections  *)
(* are processed independently).                                           *)
AcceptedEventuallyYielded ==
    \A c \in Clients :
        (c \in ToSet(accepted)) ~> (c \in ToSet(YieldedSeq))
=============================================================================
