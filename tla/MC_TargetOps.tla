---------------------------- MODULE MC_TargetOps ----------------------------
(* Model-checking instance of TargetOps: two parameter sets, the default   *)
(* port and the placeholder's port 0.  A caller sets up a connection from  *)
(* two independent values, a Target and the classic ConnectionOptions;    *)
(* MCSpec interleaves the Target mutators with ConnectionOptions::try_into *)
(* over every set of options.                                              *)
EXTENDS TargetOps

CONSTANTS p1, p2, None

VARIABLES opts, res

MCParams == {p1, p2}
MCPorts  == {0, 5656}

CO == INSTANCE ConnectionOptions

MCVars == <<vars, opts, res>>

MCInit == Init /\ CO!Init

(* Each step is one call on one of the two values. *)
MCSetTls(p) == SetTls(p) /\ UNCHANGED <<opts, res>>
MCRemoveTls == RemoveTls /\ UNCHANGED <<opts, res>>
MCSetPort(n) == SetPort(n) /\ UNCHANGED <<opts, res>>
MCConvert == CO!Convert /\ UNCHANGED vars

MCNext == \/ \E p \in Params : MCSetTls(p)
          \/ MCRemoveTls
          \/ \E n \in Ports : MCSetPort(n)
          \/ MCConvert

MCSpec == MCInit /\ [][MCNext]_MCVars

(* spec.md 3: try_into refuses exactly the option sets holding one of the *)
(* three exclusive pairs and carries every option of a set it accepts     *)
(* into the Params (ConnectionOptions!ExclusiveOrComplete).               *)
ExclusiveOrComplete == CO!ExclusiveOrComplete
====
