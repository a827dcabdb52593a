--------------------------- MODULE OrderExecution ---------------------------
(***************************************************************************)
(* One order from its creation to its end at the broker: coordinators that *)
(* record lifecycle events and call the broker adapter, the broker, which  *)
(* reports what happens to the order as a stream of callbacks, and the     *)
(* callback handler, which records them.  Callbacks come at least once,    *)
(* late, and unless inOrder in any order.                                  *)
(*                                                                         *)
(* The repository is used through what it promises (OrderLedger), which    *)
(* ExecutionOrderRepositoryProofs shows it keeps under concurrent callers. *)
(* The broker and the coordinators are outside the repository of the code: *)
(* they are modelled from the adapters and the reducer that serve them.    *)
(***************************************************************************)
EXTENDS OrderLedger, Sequences

CONSTANTS
  BrokerId,   \* the id the broker gives the order
  MaxTime,    \* bound: the clock stops here
  MaxLocal    \* bound: events the coordinators record

ASSUME BrokerAssumption == BrokerId # NoBroker

VARIABLES
  inOrder,    \* a callback is delivered only after those before it were recorded
  now,        \* the clock that stamps local and broker events
  locals,     \* number of events the coordinators have recorded
  call,       \* the place_order call in flight: none, sending, received, failed
  placed,     \* number of orders the broker has received
  book,       \* the broker's own view of the order
  asked,      \* the broker has been asked to cancel
  stream,     \* the callbacks the broker has emitted
  seen,       \* the callbacks delivered at least once
  refused     \* the callbacks whose every delivery so far raised ValueError

ledger == <<exists, row, log>>
broker == <<placed, book, asked, stream>>
handler == <<seen, refused>>
vars == <<ledger, inOrder, now, locals, call, broker, handler>>

R == INSTANCE Reconciliation

Init ==
  /\ LedgerInit
  /\ inOrder \in BOOLEAN
  /\ now = 1 /\ locals = 0 /\ call = "none"
  /\ placed = 0 /\ book = [status |-> "NONE", filled |-> 0] /\ asked = FALSE
  /\ stream = <<>> /\ seen = {} /\ refused = {}

-----------------------------------------------------------------------------
(* Coordinators. *)

Create == Open /\ UNCHANGED <<inOrder, now, locals, call, broker, handler>>

(* A coordinator records an event of its own, with a fresh id. *)
RecordLocal(type, id) ==
  /\ locals < MaxLocal
  /\ locals' = locals + 1
  /\ Record([id |-> <<"local", locals + 1>>, type |-> type, at |-> now,
             qty |-> 0, broker |-> id])
  /\ UNCHANGED <<inOrder, now, handler>>

Decide ==
  /\ \E type \in {"RISK_REQUESTED", "RISK_APPROVED", "RISK_REJECTED"} :
       RecordLocal(type, NoBroker)
  /\ UNCHANGED <<call, broker>>

(* The coordinator whose SUBMIT_STARTED was recorded, and no other, goes on *)
(* to place_order.                                                          *)
Submit ==
  /\ call = "none"
  /\ RecordLocal("SUBMIT_STARTED", NoBroker)
  /\ call' = "sending"
  /\ UNCHANGED broker

(* place_order raises before the request leaves: the risk decision does not *)
(* match the request, or no execution authorizer is wired.                  *)
DispatchRefused ==
  /\ call = "sending"
  /\ call' = "failed"
  /\ UNCHANGED <<ledger, inOrder, now, locals, broker, handler>>

(* The POST reaches the broker; the adapters never repeat it. *)
BrokerReceives ==
  /\ call = "sending"
  /\ call' = "received"
  /\ placed' = placed + 1
  /\ book' = [book EXCEPT !.status = "SUBMITTED"]
  /\ UNCHANGED <<ledger, inOrder, now, locals, asked, stream, handler>>

(* The response has an order id: the submission is confirmed. *)
Confirm ==
  /\ call = "received"
  /\ RecordLocal("SUBMIT_CONFIRMED", BrokerId)
  /\ call' = "none"
  /\ UNCHANGED broker

(* BrokerAPIError, a lost response, a timeout while the request is still on *)
(* its way, or a coordinator that finds the order submitting after a        *)
(* restart: nobody knows whether it was placed.                             *)
Uncertain ==
  /\ RecordLocal("SUBMISSION_UNKNOWN", NoBroker)
  /\ call' \in {"none", call} \cap {"none", "sending"}
  /\ UNCHANGED broker

(* The coordinator dies with its call; another one may take over. *)
CoordinatorDies ==
  /\ call # "none"
  /\ call' = "none"
  /\ UNCHANGED <<ledger, inOrder, now, locals, broker, handler>>

(* Record the request, then cancel_order, whose request may be lost. *)
RequestCancel ==
  /\ RecordLocal("CANCEL_REQUESTED", NoBroker)
  /\ asked' \in {asked, TRUE}
  /\ UNCHANGED <<call, placed, book, stream>>

-----------------------------------------------------------------------------
(* The broker. *)

Emit(type, qty, status) ==
  /\ stream' = Append(stream, [id |-> <<"broker", Len(stream) + 1>>, type |-> type,
                               at |-> now, qty |-> qty, broker |-> BrokerId])
  /\ book' = [status |-> status, filled |-> book.filled + qty]
  /\ UNCHANGED <<ledger, inOrder, now, locals, call, placed, asked, handler>>

Working == {"SUBMITTED", "ACKNOWLEDGED", "PARTIALLY_FILLED"}

BrokerAcks == book.status = "SUBMITTED" /\ Emit("BROKER_ACKNOWLEDGED", 0, "ACKNOWLEDGED")

BrokerFills ==
  \E q \in 1 .. Quantity - book.filled :
    /\ book.status \in Working
    /\ Emit("FILL", q, IF book.filled + q = Quantity THEN "FILLED" ELSE "PARTIALLY_FILLED")

BrokerRejects ==
  book.status \in {"SUBMITTED", "ACKNOWLEDGED"} /\ Emit("BROKER_REJECTED", 0, "REJECTED")

BrokerExpires == book.status \in Working /\ Emit("EXPIRED", 0, "EXPIRED")

BrokerCancels == book.status \in Working /\ asked /\ Emit("CANCEL_CONFIRMED", 0, "CANCELLED")

-----------------------------------------------------------------------------
(* The callback handler: every delivery, first or repeated, is one apply(). *)
Deliver(i) ==
  /\ exists
  /\ inOrder => 1 .. i - 1 \subseteq seen \ refused
  /\ seen' = seen \cup {i}
  /\ \/ Record(stream[i]) /\ refused' = refused \ {i}
     \/ Duplicate(stream[i]) /\ UNCHANGED <<ledger, refused>>
     \/ /\ ~Duplicate(stream[i]) /\ Refused(row, stream[i])
        /\ refused' = refused \cup {i}
        /\ UNCHANGED ledger
  /\ UNCHANGED <<inOrder, now, locals, call, broker>>

Tick ==
  /\ now < MaxTime
  /\ now' = now + 1
  /\ UNCHANGED <<ledger, inOrder, locals, call, broker, handler>>

Next ==
  \/ Create \/ Decide \/ Submit \/ DispatchRefused \/ BrokerReceives
  \/ Confirm \/ Uncertain \/ CoordinatorDies \/ RequestCancel
  \/ BrokerAcks \/ BrokerFills \/ BrokerRejects \/ BrokerExpires \/ BrokerCancels
  \/ \E i \in DOMAIN stream : Deliver(i)
  \/ Tick

Spec == Init /\ [][Next]_vars

-----------------------------------------------------------------------------
(* The order as the coordinators know it: what it has been filled is at most  *)
(* its quantity whatever is delivered, and a refusal is of a delivery.        *)
Rows ==
  [status : OrderStatuses, filled : Nat, broker : {BrokerId, NoBroker},
   lastAt : Nat, version : Nat, reason : Reasons]

StreamEvents ==
  [id : {"broker"} \X Nat, type : EventTypes, at : Nat, qty : Nat, broker : {BrokerId}]

BookStatuses ==
  {"SUBMITTED", "ACKNOWLEDGED", "PARTIALLY_FILLED", "FILLED", "REJECTED", "EXPIRED",
   "CANCELLED"}

TypeOK ==
  /\ row \in Rows /\ row.filled <= Quantity /\ now \in Nat /\ locals \in Nat
  /\ call \in {"none", "sending", "received", "failed"} /\ placed \in Nat
  /\ book \in [status : BookStatuses \cup {"NONE"}, filled : 0 .. Quantity]
  /\ stream \in Seq(StreamEvents) /\ refused \subseteq seen /\ seen \subseteq DOMAIN stream

(* One local order is at most one order at the broker, though coordinators   *)
(* die between recording, sending and confirming and others take over: the   *)
(* reducer lets SUBMIT_STARTED be recorded once and knows no way back        *)
(* (state_machine.py:79-98, "can never be ... retried blindly",              *)
(* docs/architecture/order-lifecycle.md:5-6).                                *)
AtMostOneBrokerOrder == placed <= 1

(* The local order never runs ahead of the broker: repeated, late and        *)
(* reordered callbacks count no fill twice, and an end the local order       *)
(* reports is the end the broker gave it, with all its fills unless the      *)
(* stream was reordered within an instant (state_machine.py:108-150).        *)
NeverAheadOfBroker ==
  /\ row.filled <= book.filled
  /\ row.status \in {"FILLED", "CANCELLED", "REJECTED", "EXPIRED"} =>
       row.status = book.status /\ (inOrder => row.filled = book.filled)

LocalOrders ==
  IF exists THEN <<[broker |-> row.broker, status |-> row.status,
                    quantity |-> Quantity, filled |-> row.filled]>> ELSE <<>>

BrokerReport ==
  IF placed > 0 THEN <<[broker |-> BrokerId, status |-> book.status,
                        quantity |-> Quantity, filled |-> book.filled]>> ELSE <<>>

Safe == R!SafeToTrade(LocalOrders, BrokerReport)

(* Nothing the handler is not told about can be lost: once every callback of *)
(* an order the broker has finished is delivered and none was refused, an    *)
(* order that is not waiting for an operator reconciles with the broker      *)
(* (state_machine.py:108-150 against reconciliation.py:55-136).              *)
DrainedMeansReconciled ==
  (/\ seen = DOMAIN stream /\ refused = {}
   /\ book.status \notin Working
   /\ row.status \notin {"SUBMITTING", "RECONCILIATION_REQUIRED"}) => Safe

(* An order whose submission or fills are in doubt locks new trading until   *)
(* an operator has looked: reconciliation is safe only in step with the      *)
(* broker (reconciliation.py:58).                                            *)
DoubtIsUnsafe ==
  (\/ row.status \in {"SUBMITTING", "RECONCILIATION_REQUIRED"}
   \/ row.filled # book.filled
   \/ placed > 0 /\ row.broker # BrokerId) => ~Safe

(* "Fills may arrive from SUBMITTED, ACKNOWLEDGED, PARTIALLY_FILLED, or      *)
(* CANCEL_PENDING" (docs/architecture/order-lifecycle.md:9-11): with the     *)
(* stream in order, a fill is refused only while the submission is not yet   *)
(* confirmed, and so is recorded once it is, or under reconciliation, where  *)
(* the broker has to be asked anyway.                                        *)
InOrderFillsKept ==
  [][ \A i \in refused' : inOrder /\ stream'[i].type = "FILL" =>
        i \in refused \/ row.status \in {"SUBMITTING", "RECONCILIATION_REQUIRED"} ]_vars

(* "real broker streams can race an acknowledgement or cancellation" and     *)
(* fills "are retained when a partially filled remainder is cancelled"       *)
(* (docs/architecture/order-lifecycle.md:10-12): in an in-order stream the   *)
(* broker's confirmation of a cancellation is recorded.                      *)
CancelConfirmationKept ==
  \A i \in refused : inOrder => stream[i].type # "CANCEL_CONFIRMED"
=============================================================================
