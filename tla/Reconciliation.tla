--------------------------- MODULE Reconciliation ---------------------------
(***************************************************************************)
(* packages/execution/reconciliation.py: the comparison of the local       *)
(* orders with the orders the broker reports.  Locals and reports are      *)
(* sequences, because a broker order id may occur twice in either; of      *)
(* several occurrences the first is the one compared.                      *)
(***************************************************************************)
EXTENDS Integers, Sequences

CONSTANT NoBroker   \* "no broker order id" (None)

(* A slip the runs must notice: a submission in flight needs no broker id. *)
PreBrokerStatesAndMore ==
  {"CREATED", "RISK_PENDING", "RISK_REJECTED", "APPROVED", "SUBMITTING",
   "RECONCILIATION_REQUIRED"}

PreBrokerStates == {"CREATED", "RISK_PENDING", "RISK_REJECTED", "APPROVED"}

Issue(type, id) == [type |-> type, id |-> id]

(* The indices that enter the dictionary of a loop over orders. *)
FirstOf(orders) ==
  {i \in DOMAIN orders :
     /\ orders[i].broker # NoBroker
     /\ \A j \in 1 .. i - 1 : orders[j].broker # orders[i].broker}

Repeated(orders) ==
  {Issue("DUPLICATE_BROKER_ORDER", orders[i].broker) :
     i \in {i \in DOMAIN orders : orders[i].broker # NoBroker} \ FirstOf(orders)}

Unassigned(locals) ==
  {Issue("MISSING_BROKER_ORDER", NoBroker) :
     i \in {i \in DOMAIN locals : /\ locals[i].broker = NoBroker
                                  /\ locals[i].status \notin PreBrokerStates}}

(* Pairs of a local order and the report it is compared with. *)
Matched(locals, reports) ==
  {p \in FirstOf(locals) \X FirstOf(reports) :
     locals[p[1]].broker = reports[p[2]].broker}

Mismatched(locals, reports) ==
  {Issue("FILLED_QUANTITY_MISMATCH", locals[p[1]].broker) :
     p \in {p \in Matched(locals, reports) :
             \/ locals[p[1]].quantity # reports[p[2]].quantity
             \/ locals[p[1]].filled # reports[p[2]].filled}}
  \cup
  {Issue("STATUS_MISMATCH", locals[p[1]].broker) :
     p \in {p \in Matched(locals, reports) :
             locals[p[1]].status # reports[p[2]].status}}

ReconcileIssues(locals, reports) ==
  LET matched == Matched(locals, reports)
  IN Repeated(locals) \cup Repeated(reports) \cup Unassigned(locals)
     \cup {Issue("MISSING_BROKER_ORDER", locals[i].broker) :
             i \in FirstOf(locals) \ {p[1] : p \in matched}}
     \cup {Issue("UNKNOWN_BROKER_ORDER", reports[i].broker) :
             i \in FirstOf(reports) \ {p[2] : p \in matched}}
     \cup Mismatched(locals, reports)

SafeToTrade(locals, reports) == ReconcileIssues(locals, reports) = {}
=============================================================================
