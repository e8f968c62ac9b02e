--------------------------- MODULE ProtocolAbstract ---------------------------
(***************************************************************************)
(* What a connection promises its caller (spec.md 4.4, 5): after it has   *)
(* connected, each request runs atomically against the server's          *)
(* transaction state and completes with the outcome the server gave it;   *)
(* requests complete in the order they were made, one at a time.          *)
(***************************************************************************)
EXTENDS Naturals, Sequences, MessageGroups

CONSTANTS Ops, Cards, MaxOps

VARIABLES state, txn, log

vars == <<state, txn, log>>

TxnStates == {"I", "T", "E"}
Results == {"ok", "error", "nodata"}
Entries == [op : Ops, card : Cards, result : Results]

(* A failed command inside a transaction fails the transaction. *)
FailTxn(t) == IF t = "T" THEN "E" ELSE t

(* What the server may do with a request in a transaction state: the     *)
(* outcome and the state it leaves.  A failed transaction refuses every  *)
(* command but a rollback; a rollback always returns to no transaction.  *)

ServerRun(t, op) ==
    CASE op = "rollback" -> {[ok |-> TRUE, txn |-> "I"]}
      [] t = "E" -> {[ok |-> FALSE, txn |-> "E"]}
      [] op = "start" /\ t = "I" -> {[ok |-> TRUE, txn |-> "T"]}
      [] op = "start" -> {[ok |-> FALSE, txn |-> "E"]}
      [] OTHER -> {[ok |-> TRUE, txn |-> t],
                   [ok |-> FALSE, txn |-> FailTxn(t)]}

(* Rows a successful command may return: a query any number (here 0..1), *)
(* a transaction command, a dump or a restore none.                      *)
Rows(op) == IF op = "query" THEN 0..1 ELSE {0}

(* The caller's result: a server error, or NoDataError when no row came *)
(* back under a cardinality that is not optional.                       *)
Result(ok, rows, card) ==
    CASE ~ok -> "error"
      [] rows = 0 /\ ~IsOptional(card) -> "nodata"
      [] OTHER -> "ok"

Init == state = "connecting" /\ txn = "I" /\ log = <<>>

Connect == state = "connecting" /\ state' = "idle" /\ UNCHANGED <<txn, log>>

Run == /\ state = "idle"
       /\ Len(log) < MaxOps
       /\ \E op \in Ops, card \in Cards :
            \E o \in ServerRun(txn, op), rows \in Rows(op) :
               /\ log' = Append(log, [op |-> op, card |-> card,
                                      result |-> Result(o.ok, rows, card)])
               /\ txn' = o.txn
       /\ UNCHANGED state

Close == state # "closed" /\ state' = "closed" /\ UNCHANGED <<txn, log>>

Next == Connect \/ Run \/ Close

Spec == Init /\ [][Next]_vars
=============================================================================
