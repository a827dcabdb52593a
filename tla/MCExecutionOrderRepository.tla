--------------------- MODULE MCExecutionOrderRepository ---------------------
(***************************************************************************)
(* Two callers and a two-unit order.  The events walk it to the broker and  *)
(* hold one of each hazard: a partial fill and one that fills it all       *)
(* (together an overfill), a cancellation that races them, two timestamps  *)
(* in any order, another broker's order id, and an event id used twice.    *)
(***************************************************************************)
EXTENDS ExecutionOrderRepository, TLC

CONSTANTS W1, W2, None

Ev(id, type, at, qty, broker) ==
  [id |-> id, type |-> type, at |-> at, qty |-> qty, broker |-> broker]

MCQuantity == 2
MCWorkers == {W1, W2}

MCEvents ==
  { Ev("ask", "RISK_REQUESTED", 1, 0, None),
    Ev("yes", "RISK_APPROVED", 1, 0, None),
    Ev("go", "SUBMIT_STARTED", 1, 0, None),
    Ev("sent", "SUBMIT_CONFIRMED", 1, 0, "b1"),
    Ev("part", "FILL", 1, 1, "b1"),
    Ev("full", "FILL", 2, 2, "b1"),
    Ev("cancel", "CANCEL_REQUESTED", 1, 0, None),
    Ev("gone", "CANCEL_CONFIRMED", 2, 0, "b1"),
    Ev("part", "EXPIRED", 2, 0, "b2") }

WorkerSymmetry == Permutations(MCWorkers)
=============================================================================
