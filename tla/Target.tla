------------------------------- MODULE Target -------------------------------
(***************************************************************************)
(* The connection target of gel-stream (src/gel-stream/src/common/         *)
(* target.rs): an endpoint, resolved or not, plus the TLS mode and the TLS *)
(* parameters attached to it.  This module holds the data and the pure     *)
(* operators; TargetOps.tla runs the mutators as a state machine and       *)
(* Transport.tla uses the queries that Connector::connect makes.           *)
(*                                                                         *)
(* Data abstraction: an address, host name or socket path is reduced to    *)
(* its kind; a port is a member of the small set Ports; a TlsParameters    *)
(* value is a member of the set Params.                                    *)
(***************************************************************************)
EXTENDS Naturals

CONSTANTS
    Params,     \* TlsParameters values (model values)
    NoParams,   \* model value: "no TLS parameters" (Option::None)
    Ports,      \* port numbers a target may carry
    NoPort      \* model value: the endpoint has no port (Unix sockets)

ASSUME NoParams \notin Params /\ NoPort \notin Ports /\ Ports \subseteq Nat

(* MaybeResolvedTarget / ResolvedTarget, by kind:
   "Ip"           Resolved(SocketAddr)
   "Host"         Unresolved(host, port, interface)
   "UnixPath"     Resolved(UnixSocketAddr) with a pathname
   "UnixAbstract" Resolved(UnixSocketAddr) in the Linux abstract namespace *)
TcpKinds  == {"Ip", "Host"}
UnixKinds == {"UnixPath", "UnixAbstract"}
Kinds     == TcpKinds \cup UnixKinds

Endpoints ==
    [kind : TcpKinds, port : Ports] \cup [kind : UnixKinds, port : {NoPort}]

(* TargetInner: NoTls(target) | Tls(target, params) | StartTls(target, params) *)
Modes == {"NoTls", "Tls", "StartTls"}

Targets ==
    [mode : {"NoTls"}, ep : Endpoints, params : {NoParams}]
      \cup [mode : {"Tls", "StartTls"}, ep : Endpoints, params : Params]

(* Every constructor of Target (new, new_tls, new_starttls and the        *)
(* new_resolved, new_unix and new_tcp families) yields one of these:       *)
(* new_tls and new_starttls accept a TargetName built by new_unix_path or  *)
(* new_unix_domain, so every mode is reachable with every endpoint kind.   *)
Constructible == Targets

(* MaybeResolvedTarget::port: only TCP endpoints have one. *)
Port(t) == t.ep.port

(* Target::is_tcp: the endpoint has a port. *)
IsTcp(t) == t.ep.port # NoPort

(* MaybeResolvedTarget::path: Some only for a Unix socket with a pathname;  *)
(* as_pathname() is None for an abstract-namespace socket.                  *)
HasPath(t) == t.ep.kind = "UnixPath"

(* Target::is_starttls *)
IsStarttls(t) == t.mode = "StartTls"

(* Target::maybe_ssl *)
MaybeSsl(t) == IF t.mode = "NoTls" THEN NoParams ELSE t.params

(* Results of the mutators, Option<...> in the code:
   NotApplied                  None (try_set_tls on a path, try_remove_tls on NoTls,
                               try_set_port on a Unix socket)
   [applied |-> TRUE, old |-> x]  Some(x), x being the previous params
                               (NoParams for Some(None)) or the old port *)
NotApplied == [applied |-> FALSE]
Applied(x) == [applied |-> TRUE, old |-> x]

(* Target::try_set_tls: returns <<result, new target>>. *)
TrySetTls(t, p) ==
    IF HasPath(t)
    THEN <<NotApplied, t>>
    ELSE <<Applied(MaybeSsl(t)),
           [t EXCEPT !.mode = IF t.mode = "NoTls" THEN "Tls" ELSE t.mode,
                     !.params = p]>>

(* Target::try_remove_tls: None for a NoTls target, else Some(old params). *)
TryRemoveTls(t) ==
    <<IF t.mode = "NoTls" THEN NotApplied ELSE Applied(t.params),
      [t EXCEPT !.mode = "NoTls", !.params = NoParams]>>

(* Mutant: set_port without the check that the endpoint has a port. *)
TrySetPortAnyEndpoint(t, n) == <<Applied(t.ep.port), [t EXCEPT !.ep.port = n]>>

(* Target::try_set_port / MaybeResolvedTarget::set_port *)
TrySetPort(t, n) ==
    IF IsTcp(t)
    THEN <<Applied(t.ep.port), [t EXCEPT !.ep.port = n]>>
    ELSE <<NotApplied, t>>

=============================================================================
