------------------------------ MODULE OrderStates ------------------------------
(***************************************************************************)
(* The order statuses of the OMS and its transition table                  *)
(* (crates/oms/src/order.rs and crates/oms/src/state_machine.rs).          *)
(* Everything here is a constant-level operator: the modules that keep     *)
(* orders take their guards from it.                                       *)
(***************************************************************************)

Terminal == {"Filled", "Cancelled", "Rejected", "Expired"}

OrderStatuses ==
  {"Created", "Validated", "PendingSubmit", "Submitted", "Accepted",
   "PartiallyFilled", "Completed"} \cup Terminal

IsTerminal(s) == s \in Terminal
IsActive(s) == ~IsTerminal(s) /\ s # "Completed"

(* The white list StateMachine::new builds, as a relation.                 *)
Transitions ==
  LET fails  == {"Cancelled", "Rejected", "Expired"}
      filled == {"PartiallyFilled", "Filled"}
  IN  {"Created"}         \X ({"Validated", "PendingSubmit"} \cup fails)
 \cup {"Validated"}       \X ({"PendingSubmit"} \cup fails)
 \cup {"PendingSubmit"}   \X ({"Submitted"} \cup fails)
 \cup {"Submitted"}       \X ({"Accepted"} \cup filled \cup fails)
 \cup {"Accepted"}        \X (filled \cup fails)
 \cup {"PartiallyFilled"} \X (filled \cup fails)

(* StateMachine::validate_transition: only PartiallyFilled may repeat.     *)
ValidTransition(from, to) ==
  /\ ~IsTerminal(from)
  /\ from # "Completed"
  /\ from = to => from = "PartiallyFilled"
  /\ <<from, to>> \in Transitions

(* Mutant: Failed is passed on unmapped.                                   *)
FromExecution_Unmapped(s) == IF s = "Queued" THEN "PendingSubmit" ELSE s

(* OrderStatus::from_execution: what a gateway's status means to the OMS.  *)
FromExecution(s) ==
  CASE s = "Queued" -> "PendingSubmit"
    [] s = "Failed" -> "Rejected"
    [] OTHER -> s
================================================================================
