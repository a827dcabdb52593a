------------------------- MODULE OrderStateMachine -------------------------
(***************************************************************************)
(* The pure order reducer of packages/execution/state_machine.py.          *)
(*                                                                         *)
(* An OrderState of the code is here two values, because the database      *)
(* keeps them in two tables: the order row, and the set of processed event *)
(* ids, which the reducer only tests for membership.  Decimal quantities   *)
(* are counted in units, timestamps are natural numbers, and the creation  *)
(* time of an order is 0.                                                  *)
(***************************************************************************)
EXTENDS Integers

CONSTANTS
  Quantity,   \* requested quantity of the order, in units
  Events,     \* the order events the callers may pass
  NoBroker    \* "no broker order id" (None)

OrderStatuses ==
  {"CREATED", "RISK_PENDING", "RISK_REJECTED", "APPROVED", "SUBMITTING",
   "SUBMITTED", "ACKNOWLEDGED", "PARTIALLY_FILLED", "FILLED",
   "CANCEL_PENDING", "CANCELLED", "REJECTED", "EXPIRED",
   "RECONCILIATION_REQUIRED"}

EventTypes ==
  {"RISK_REQUESTED", "RISK_APPROVED", "RISK_REJECTED", "SUBMIT_STARTED",
   "SUBMIT_CONFIRMED", "SUBMISSION_UNKNOWN", "BROKER_ACKNOWLEDGED", "FILL",
   "CANCEL_REQUESTED", "CANCEL_CONFIRMED", "BROKER_REJECTED", "EXPIRED"}

Reasons ==
  {"none", "OUT_OF_ORDER_EVENT", "CONFLICTING_BROKER_ORDER_ID", "OVERFILL",
   "SUBMISSION_OUTCOME_UNKNOWN"}

(* What OrderEvent.__post_init__ lets through; broker may be NoBroker. *)
WellFormedEvent(e) ==
  /\ DOMAIN e = {"id", "type", "at", "qty", "broker"}
  /\ e.type \in EventTypes
  /\ e.at \in Nat
  /\ e.qty \in Nat
  /\ (e.type = "FILL") <=> (e.qty > 0)

ASSUME QuantityAssumption == Quantity \in Nat \ {0}

ASSUME EventsAssumption == Events # {} /\ \A e \in Events : WellFormedEvent(e)

BrokerIds == {e.broker : e \in Events} \cup {NoBroker}

OrderRows ==
  [status : OrderStatuses, filled : Nat, broker : BrokerIds, lastAt : Nat,
   version : Nat, reason : Reasons]

InitialRow ==
  [status |-> "CREATED", filled |-> 0, broker |-> NoBroker, lastAt |-> 0,
   version |-> 0, reason |-> "none"]

(* A slip the runs must notice: a submission that may be started again. *)
TransitionsWithRetry ==
  { <<"CREATED", "RISK_REQUESTED", "RISK_PENDING">>,
    <<"RISK_PENDING", "RISK_APPROVED", "APPROVED">>,
    <<"APPROVED", "SUBMIT_STARTED", "SUBMITTING">>,
    <<"SUBMITTING", "SUBMIT_STARTED", "SUBMITTING">>,
    <<"SUBMITTING", "SUBMIT_CONFIRMED", "SUBMITTED">> }

Transitions ==
  { <<"CREATED", "RISK_REQUESTED", "RISK_PENDING">>,
    <<"RISK_PENDING", "RISK_APPROVED", "APPROVED">>,
    <<"RISK_PENDING", "RISK_REJECTED", "RISK_REJECTED">>,
    <<"APPROVED", "SUBMIT_STARTED", "SUBMITTING">>,
    <<"SUBMITTING", "SUBMIT_CONFIRMED", "SUBMITTED">>,
    <<"SUBMITTING", "SUBMISSION_UNKNOWN", "RECONCILIATION_REQUIRED">>,
    <<"SUBMITTED", "BROKER_ACKNOWLEDGED", "ACKNOWLEDGED">>,
    <<"SUBMITTED", "BROKER_REJECTED", "REJECTED">>,
    <<"ACKNOWLEDGED", "BROKER_REJECTED", "REJECTED">>,
    <<"SUBMITTED", "CANCEL_REQUESTED", "CANCEL_PENDING">>,
    <<"ACKNOWLEDGED", "CANCEL_REQUESTED", "CANCEL_PENDING">>,
    <<"PARTIALLY_FILLED", "CANCEL_REQUESTED", "CANCEL_PENDING">>,
    <<"CANCEL_PENDING", "CANCEL_CONFIRMED", "CANCELLED">>,
    <<"SUBMITTED", "EXPIRED", "EXPIRED">>,
    <<"ACKNOWLEDGED", "EXPIRED", "EXPIRED">> }

(* Slips the runs must notice: a cancelled order that fills, and a pending  *)
(* cancellation that does not.                                              *)
FillableWhenCancelled ==
  {"SUBMITTED", "ACKNOWLEDGED", "PARTIALLY_FILLED", "CANCEL_PENDING", "CANCELLED"}

FillableUntilCancel == {"SUBMITTED", "ACKNOWLEDGED", "PARTIALLY_FILLED"}

Fillable == {"SUBMITTED", "ACKNOWLEDGED", "PARTIALLY_FILLED", "CANCEL_PENDING"}

-----------------------------------------------------------------------------
(* The checks of apply_order_event, in the order the code makes them.  The  *)
(* duplicate test comes first and belongs to the caller, who knows the ids. *)

Stale(s, e) == e.at < s.lastAt

ConflictingBroker(s, e) ==
  e.broker # NoBroker /\ s.broker # NoBroker /\ s.broker # e.broker

Allowed(s, e) ==
  IF e.type = "FILL" THEN s.status \in Fillable
  ELSE \E t \in OrderStatuses : <<s.status, e.type, t>> \in Transitions

(* The reducer raises ValueError and the state is untouched. *)
Refused(s, e) == ~Stale(s, e) /\ ~ConflictingBroker(s, e) /\ ~Allowed(s, e)

(* A slip the runs must notice: one unit too many is let through. *)
OverfillsByTwo(s, e) == e.type = "FILL" /\ s.filled + e.qty > Quantity + 1

Overfills(s, e) == e.type = "FILL" /\ s.filled + e.qty > Quantity

NextStatus(s, e) ==
  IF e.type = "FILL"
  THEN IF s.filled + e.qty = Quantity THEN "FILLED" ELSE "PARTIALLY_FILLED"
  ELSE CHOOSE t \in OrderStatuses : <<s.status, e.type, t>> \in Transitions

RequiresReconciliation(s, e, why) ==
  [s EXCEPT !.status = "RECONCILIATION_REQUIRED",
            !.lastAt = IF e.at > @ THEN e.at ELSE @,
            !.version = @ + 1,
            !.reason = why]

(* A slip the runs must notice: the broker's id is not kept. *)
AdvancedWithoutBroker(s, e) ==
  [status |-> NextStatus(s, e), filled |-> s.filled + e.qty, broker |-> s.broker,
   lastAt |-> e.at, version |-> s.version + 1, reason |-> s.reason]

Advanced(s, e) ==
  [status |-> NextStatus(s, e),
   filled |-> s.filled + e.qty,
   broker |-> IF e.broker # NoBroker THEN e.broker ELSE s.broker,
   lastAt |-> e.at,
   version |-> s.version + 1,
   reason |-> IF NextStatus(s, e) = "RECONCILIATION_REQUIRED"
              THEN "SUBMISSION_OUTCOME_UNKNOWN" ELSE s.reason]

(* The row after an event that is neither a duplicate nor refused. *)
ApplyOrderEvent(s, e) ==
  CASE Stale(s, e) -> RequiresReconciliation(s, e, "OUT_OF_ORDER_EVENT")
    [] ~Stale(s, e) /\ ConflictingBroker(s, e) ->
         RequiresReconciliation(s, e, "CONFLICTING_BROKER_ORDER_ID")
    [] ~Stale(s, e) /\ ~ConflictingBroker(s, e) /\ Overfills(s, e) ->
         RequiresReconciliation(s, e, "OVERFILL")
    [] OTHER -> Advanced(s, e)
=============================================================================
