------------------------------ MODULE TargetOps ------------------------------
(***************************************************************************)
(* A Target owned by a caller who applies its mutators in any order:      *)
(* try_set_tls, try_remove_tls and try_set_port (target.rs).  Each action  *)
(* is one whole call; `result` holds what the call returned.               *)
(***************************************************************************)
EXTENDS Target

VARIABLES
    target,     \* the Target value
    result      \* [op, val]: the last call and its return value

vars == <<target, result>>

Ops == {"none", "try_set_tls", "try_remove_tls", "try_set_port"}
Results == {NotApplied} \cup
           [applied : {TRUE}, old : Params \cup {NoParams} \cup Ports]

TypeOK ==
    /\ target \in Targets
    /\ result \in [op : Ops, val : Results]

Init ==
    /\ target \in Constructible
    /\ result = [op |-> "none", val |-> NotApplied]

(* Target::try_set_tls(params) *)
SetTls(p) ==
    LET r == TrySetTls(target, p)
    IN /\ target' = r[2]
       /\ result' = [op |-> "try_set_tls", val |-> r[1]]

(* Target::try_remove_tls() *)
RemoveTls ==
    LET r == TryRemoveTls(target)
    IN /\ target' = r[2]
       /\ result' = [op |-> "try_remove_tls", val |-> r[1]]

(* Target::try_set_port(port) *)
SetPort(n) ==
    LET r == TrySetPort(target, n)
    IN /\ target' = r[2]
       /\ result' = [op |-> "try_set_port", val |-> r[1]]

Next ==
    \/ \E p \in Params : SetTls(p)
    \/ RemoveTls
    \/ \E n \in Ports : SetPort(n)

Spec == Init /\ [][Next]_vars

-----------------------------------------------------------------------------
(* Spec 3 and 8: "Unix targets cannot carry TLS parameters (attempts to    *)
(* attach are silently rejected)"; "For all Unix targets: try_set_tls      *)
(* returns not applied".  The code only rejects targets whose path() is    *)
(* Some, i.e. Unix sockets bound to a pathname.                            *)
UnixTargetsRejectTls ==
    [][(result'.op = "try_set_tls" /\ target.ep.kind \in UnixKinds) =>
           (result'.val = NotApplied /\ target' = target)]_vars
=============================================================================
