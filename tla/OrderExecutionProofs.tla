------------------------ MODULE OrderExecutionProofs ------------------------
(***************************************************************************)
(* What holds of one order at its broker for every quantity, clock, stream *)
(* of callbacks and number of coordinators.  It is placed at most once: a  *)
(* status from before the submission means that nothing was sent, and the  *)
(* reducer never goes back to one.  It is never ahead of the broker, keeps *)
(* the fills of a stream in order, and reconciles once the stream is       *)
(* drained: the fills recorded are the sum of the callbacks applied, a     *)
(* part of all the broker emitted, and an end is the broker's last word.   *)
(***************************************************************************)
EXTENDS OrderExecution, TLAPS

BeforeSubmission == {"CREATED", "RISK_PENDING", "RISK_REJECTED", "APPROVED"}

IsEvent(e) ==
  /\ e.type \in EventTypes /\ e.at \in Nat /\ e.qty \in Nat
  /\ e.broker \in {BrokerId, NoBroker}

(* A transition, and a status from before the submission, come from a status *)
(* from before the submission.                                              *)
LEMMA NextStatusFacts ==
  ASSUME NEW s \in Rows, NEW e, IsEvent(e), Allowed(s, e)
  PROVE  /\ NextStatus(s, e) \in OrderStatuses
         /\ NextStatus(s, e) \in BeforeSubmission => s.status \in BeforeSubmission
         /\ e.type = "SUBMIT_STARTED" =>
              s.status = "APPROVED" /\ NextStatus(s, e) = "SUBMITTING"
<1>1. CASE e.type = "FILL"
  BY <1>1 DEF NextStatus, OrderStatuses, BeforeSubmission
<1>2. CASE e.type # "FILL"
  <2>1. PICK t \in OrderStatuses : <<s.status, e.type, t>> \in Transitions
    BY <1>2 DEF Allowed
  <2>2. /\ NextStatus(s, e) \in OrderStatuses
        /\ <<s.status, e.type, NextStatus(s, e)>> \in Transitions
    BY <1>2, <2>1 DEF NextStatus
  <2> QED
    BY <2>2 DEF Transitions, BeforeSubmission
<1> QED
  BY <1>1, <1>2

(* What one application of the reducer does to the order of the submission. *)
LEMMA AppliedFacts ==
  ASSUME NEW s \in Rows, NEW e, IsEvent(e), ~Refused(s, e)
  PROVE  LET r == ApplyOrderEvent(s, e)
         IN /\ r \in Rows
            /\ r.lastAt \in {s.lastAt, e.at}
            /\ r.filled \in {s.filled, s.filled + e.qty}
            /\ r.broker \in {s.broker, e.broker}
            /\ r.status \in BeforeSubmission => s.status \in BeforeSubmission
<1>1. s.filled + e.qty \in Nat /\ s.version + 1 \in Nat
  BY DEF Rows, IsEvent
<1>2. ASSUME NEW why \in Reasons
      PROVE  LET r == RequiresReconciliation(s, e, why)
             IN /\ r \in Rows
                /\ r.lastAt \in {s.lastAt, e.at}
                /\ r.filled \in {s.filled, s.filled + e.qty}
                /\ r.broker \in {s.broker, e.broker}
                /\ r.status \notin BeforeSubmission
  BY <1>1 DEF RequiresReconciliation, Rows, IsEvent, OrderStatuses, BeforeSubmission
<1>3. ASSUME Allowed(s, e)
      PROVE  LET r == Advanced(s, e)
             IN /\ r \in Rows
                /\ r.lastAt \in {s.lastAt, e.at}
                /\ r.filled \in {s.filled, s.filled + e.qty}
                /\ r.broker \in {s.broker, e.broker}
                /\ r.status \in BeforeSubmission => s.status \in BeforeSubmission
  BY <1>1, <1>3, NextStatusFacts DEF Advanced, Rows, IsEvent, Reasons
<1>4. {"OUT_OF_ORDER_EVENT", "CONFLICTING_BROKER_ORDER_ID", "OVERFILL"} \subseteq Reasons
  BY DEF Reasons
<1> QED
  BY <1>2, <1>3, <1>4 DEF ApplyOrderEvent, Refused

-----------------------------------------------------------------------------
(* The inductive invariant. *)

ClockInv ==
  /\ now \in Nat
  /\ locals \in Nat
  /\ row \in Rows
  /\ row.lastAt <= now
  /\ stream \in Seq(StreamEvents)
  /\ \A i \in DOMAIN stream : stream[i].at <= now

SubmissionInv ==
  /\ book \in [status : BookStatuses \cup {"NONE"}, filled : Nat]
  /\ placed \in {0, 1}
  /\ placed = 0 => book = [status |-> "NONE", filled |-> 0] /\ stream = <<>>
  /\ call \in {"none", "sending", "received", "failed"}
  /\ call = "sending" => placed = 0
  /\ call = "received" => placed = 1
  /\ row.status \in BeforeSubmission => placed = 0 /\ call = "none"

(* Nothing is known of an order the broker has not received. *)
KnowledgeInv ==
  /\ placed = 0 => row.filled = 0 /\ row.broker = NoBroker
  /\ ~exists => row = InitialRow

Inv == ClockInv /\ SubmissionInv /\ KnowledgeInv

LEMMA InitInv == Init => Inv
<1> SUFFICES ASSUME Init PROVE Inv
  OBVIOUS
<1>1. InitialRow \in Rows /\ InitialRow.lastAt = 0
  BY DEF InitialRow, Rows, OrderStatuses, Reasons
<1>2. InitialRow.filled = 0 /\ InitialRow.broker = NoBroker
  BY DEF InitialRow
<1> QED
  BY <1>1, <1>2 DEF Init, LedgerInit, Inv, ClockInv, SubmissionInv, KnowledgeInv

(* A recorded event of the coordinators or of the stream. *)
LEMMA RecordFacts ==
  ASSUME Inv, NEW e, IsEvent(e), e.at <= now, Record(e)
  PROVE  /\ row' \in Rows
         /\ row'.lastAt <= now
         /\ row'.filled \in {row.filled, row.filled + e.qty}
         /\ row'.broker \in {row.broker, e.broker}
         /\ row'.status \in BeforeSubmission => row.status \in BeforeSubmission
         /\ exists /\ exists'
BY AppliedFacts DEF Inv, ClockInv, Record

(* An event a coordinator records: the clock stands still, the order of the  *)
(* submission is kept, and SUBMIT_STARTED is recorded in APPROVED only.      *)
LEMMA LocalFacts ==
  ASSUME Inv, NEW type \in EventTypes, type # "FILL",
         NEW id \in {BrokerId, NoBroker}, RecordLocal(type, id), stream' = stream
  PROVE  /\ ClockInv'
         /\ row'.filled = row.filled
         /\ row'.broker \in {row.broker, id}
         /\ exists'
         /\ row'.status \in BeforeSubmission => row.status \in BeforeSubmission
         /\ type = "SUBMIT_STARTED" /\ id = NoBroker =>
              row.status = "APPROVED" /\ row'.status \notin BeforeSubmission
<1> DEFINE e == [id |-> <<"local", locals + 1>>, type |-> type, at |-> now,
                 qty |-> 0, broker |-> id]
<1>1. Record(e) /\ now' = now /\ locals' = locals + 1
  BY DEF RecordLocal
<1>2. IsEvent(e) /\ e.at <= now
  BY DEF Inv, ClockInv, IsEvent
<1>3. /\ row' \in Rows /\ row'.lastAt <= now
      /\ row'.filled \in {row.filled, row.filled + e.qty}
      /\ row'.broker \in {row.broker, e.broker}
      /\ row'.status \in BeforeSubmission => row.status \in BeforeSubmission
      /\ exists'
  BY <1>1, <1>2, RecordFacts
<1>4. ClockInv'
  BY <1>1, <1>3 DEF Inv, ClockInv
<1>5. row'.filled = row.filled /\ row'.broker \in {row.broker, id}
  BY <1>3 DEF Inv, ClockInv, Rows
<1>6. ASSUME type = "SUBMIT_STARTED", id = NoBroker
      PROVE  row.status = "APPROVED" /\ row'.status \notin BeforeSubmission
  <2>1. ~Stale(row, e)
    BY DEF Inv, ClockInv, Rows, Stale
  <2>2. ~ConflictingBroker(row, e)
    BY <1>6 DEF ConflictingBroker
  <2>3. Allowed(row, e)
    BY <1>1, <2>1, <2>2 DEF Record, Refused
  <2>4. row.status = "APPROVED" /\ NextStatus(row, e) = "SUBMITTING"
    BY <1>2, <1>6, <2>3, NextStatusFacts DEF Inv, ClockInv
  <2>5. ~Overfills(row, e)
    BY <1>6 DEF Overfills
  <2>6. row' = Advanced(row, e)
    BY <1>1, <2>1, <2>2, <2>5 DEF Record, ApplyOrderEvent
  <2> QED
    BY <2>4, <2>6 DEF Advanced, BeforeSubmission
<1> QED
  BY <1>3, <1>4, <1>5, <1>6

(* What the coordinators record, but for SUBMIT_STARTED, keeps the invariant: *)
(* only an answer from the broker carries its order id.                      *)
LEMMA LocalKeepsInv ==
  ASSUME Inv, NEW type \in EventTypes, type # "FILL",
         NEW id \in {BrokerId, NoBroker}, RecordLocal(type, id),
         UNCHANGED <<placed, book, stream>>,
         id = NoBroker \/ placed = 1,
         call' \in {"none", call}, call' # "received" \/ placed = 1
  PROVE  Inv'
<1>1. /\ ClockInv'
      /\ row'.filled = row.filled
      /\ row'.broker \in {row.broker, id}
      /\ exists'
      /\ row'.status \in BeforeSubmission => row.status \in BeforeSubmission
  BY LocalFacts
<1>2. SubmissionInv'
  BY <1>1 DEF Inv, SubmissionInv
<1>3. KnowledgeInv'
  BY <1>1 DEF Inv, SubmissionInv, KnowledgeInv
<1> QED
  BY <1>1, <1>2, <1>3 DEF Inv

(* A callback the broker emits carries the time at which it is emitted. *)
LEMMA EmitFacts ==
  ASSUME Inv, NEW type \in EventTypes, NEW qty \in Nat, NEW status \in BookStatuses,
         book.status # "NONE", Emit(type, qty, status)
  PROVE  Inv'
<1> DEFINE e == [id |-> <<"broker", Len(stream) + 1>>, type |-> type,
                 at |-> now, qty |-> qty, broker |-> BrokerId]
<1>1. stream' = Append(stream, e) /\ stream \in Seq(StreamEvents)
  BY DEF Emit, Inv, ClockInv
<1>2. e \in StreamEvents
  BY <1>1 DEF StreamEvents, Inv, ClockInv
<1>3. stream' \in Seq(StreamEvents)
  BY <1>1, <1>2
<1>4. \A i \in DOMAIN stream' : stream'[i].at <= now
  BY <1>1, <1>2 DEF Inv, ClockInv
<1>5. ClockInv'
  BY <1>3, <1>4 DEF Inv, ClockInv, Emit, ledger
<1>6. placed = 1
  BY DEF Inv, SubmissionInv
<1>7. book' \in [status : BookStatuses \cup {"NONE"}, filled : Nat]
  BY DEF Emit, Inv, SubmissionInv
<1>8. SubmissionInv'
  BY <1>6, <1>7 DEF Inv, SubmissionInv, Emit, ledger
<1>9. KnowledgeInv'
  BY <1>6 DEF Inv, KnowledgeInv, Emit, ledger
<1> QED
  BY <1>5, <1>8, <1>9 DEF Inv

LEMMA NextInv == Inv /\ [Next]_vars => Inv'
<1> SUFFICES ASSUME Inv, [Next]_vars PROVE Inv'
  OBVIOUS
<1>1. CASE Create
  BY <1>1 DEF Create, Open, Inv, ClockInv, SubmissionInv, KnowledgeInv, broker, handler
<1>2. CASE Decide
  <2>1. PICK type \in {"RISK_REQUESTED", "RISK_APPROVED", "RISK_REJECTED"} :
          RecordLocal(type, NoBroker)
    BY <1>2 DEF Decide
  <2>2. UNCHANGED <<call, broker>>
    BY <1>2 DEF Decide
  <2>3. type \in EventTypes /\ type # "FILL"
    BY DEF EventTypes
  <2>4. UNCHANGED <<placed, book, stream>> /\ call' = call /\ (call' # "received" \/ placed = 1)
    BY <2>2 DEF broker, Inv, SubmissionInv
  <2> QED
    BY <2>1, <2>3, <2>4, LocalKeepsInv
<1>3. CASE Submit
  <2>1. RecordLocal("SUBMIT_STARTED", NoBroker) /\ call' = "sending" /\ UNCHANGED broker
    BY <1>3 DEF Submit
  <2>2. /\ ClockInv' /\ row.status = "APPROVED" /\ row'.status \notin BeforeSubmission
        /\ row'.filled = row.filled /\ row'.broker \in {row.broker, NoBroker} /\ exists'
    BY <2>1, LocalFacts DEF EventTypes, broker
  <2>3. placed = 0
    BY <2>2 DEF Inv, SubmissionInv, BeforeSubmission
  <2>4. SubmissionInv'
    BY <2>1, <2>2, <2>3 DEF Inv, SubmissionInv, broker
  <2>5. KnowledgeInv'
    BY <2>1, <2>2 DEF Inv, KnowledgeInv, broker
  <2> QED
    BY <2>2, <2>4, <2>5 DEF Inv
<1>4. CASE DispatchRefused
  BY <1>4 DEF DispatchRefused, Inv, ClockInv, SubmissionInv, KnowledgeInv, ledger, broker, handler
<1>5. CASE BrokerReceives
  <2>1. ClockInv' /\ KnowledgeInv'
    BY <1>5 DEF BrokerReceives, Inv, ClockInv, SubmissionInv, KnowledgeInv, ledger
  <2>2. placed = 0 /\ placed' = 1 /\ call' = "received" /\ row.status \notin BeforeSubmission
    BY <1>5 DEF BrokerReceives, Inv, SubmissionInv
  <2>3. book' \in [status : BookStatuses \cup {"NONE"}, filled : Nat]
    BY <1>5 DEF BrokerReceives, Inv, SubmissionInv, BookStatuses
  <2> QED
    BY <1>5, <2>1, <2>2, <2>3 DEF BrokerReceives, Inv, SubmissionInv, ledger
<1>6. CASE Confirm
  <2>1. /\ RecordLocal("SUBMIT_CONFIRMED", BrokerId)
        /\ call' = "none" /\ placed = 1 /\ UNCHANGED <<placed, book, stream>>
    BY <1>6 DEF Confirm, broker, Inv, SubmissionInv
  <2> QED
    BY <2>1, LocalKeepsInv DEF EventTypes
<1>7. CASE Uncertain
  <2>1. /\ RecordLocal("SUBMISSION_UNKNOWN", NoBroker)
        /\ UNCHANGED <<placed, book, stream>>
        /\ call' \in {"none", call} /\ call' # "received"
    BY <1>7 DEF Uncertain, broker
  <2> QED
    BY <2>1, LocalKeepsInv DEF EventTypes
<1>8. CASE CoordinatorDies
  BY <1>8 DEF CoordinatorDies, Inv, ClockInv, SubmissionInv, KnowledgeInv, ledger, broker, handler
<1>9. CASE RequestCancel
  <2>1. /\ RecordLocal("CANCEL_REQUESTED", NoBroker)
        /\ UNCHANGED <<placed, book, stream>>
        /\ call' = call /\ (call' # "received" \/ placed = 1)
    BY <1>9 DEF RequestCancel, Inv, SubmissionInv
  <2> QED
    BY <2>1, LocalKeepsInv DEF EventTypes
<1>10. CASE BrokerAcks \/ BrokerRejects \/ BrokerExpires \/ BrokerCancels
  BY <1>10, EmitFacts
  DEF BrokerAcks, BrokerRejects, BrokerExpires, BrokerCancels, Working, EventTypes, BookStatuses
<1>11. CASE BrokerFills
  <2>1. PICK q \in 1 .. Quantity - book.filled :
          /\ book.status \in Working
          /\ Emit("FILL", q, IF book.filled + q = Quantity THEN "FILLED" ELSE "PARTIALLY_FILLED")
    BY <1>11 DEF BrokerFills
  <2>2. q \in Nat
    BY QuantityAssumption DEF Inv, SubmissionInv
  <2> QED
    BY <2>1, <2>2, EmitFacts DEF Working, EventTypes, BookStatuses
<1>12. ASSUME NEW i \in DOMAIN stream, Deliver(i) PROVE Inv'
  <2>1. UNCHANGED <<inOrder, now, locals, call, broker>>
    BY <1>12 DEF Deliver
  <2>2. placed = 1 /\ row.status \notin BeforeSubmission
    BY <1>12 DEF Inv, SubmissionInv
  <2>3. stream[i] \in StreamEvents /\ stream[i].at <= now
    BY <1>12 DEF Inv, ClockInv
  <2>4. CASE Record(stream[i])
    <3>1. IsEvent(stream[i])
      BY <2>3 DEF IsEvent, StreamEvents
    <3>2. /\ row' \in Rows /\ row'.lastAt <= now /\ row'.status \notin BeforeSubmission
          /\ exists'
      BY <2>2, <2>3, <2>4, <3>1, RecordFacts
    <3> QED
      BY <2>1, <2>2, <3>2 DEF Inv, ClockInv, SubmissionInv, KnowledgeInv, broker
  <2>5. CASE UNCHANGED ledger
    BY <2>1, <2>5 DEF Inv, ClockInv, SubmissionInv, KnowledgeInv, broker, ledger
  <2> QED
    BY <1>12, <2>4, <2>5 DEF Deliver
<1>13. CASE Tick
  <2>1. SubmissionInv' /\ KnowledgeInv'
    BY <1>13 DEF Tick, Inv, SubmissionInv, KnowledgeInv, ledger, broker
  <2>2. now' = now + 1 /\ now \in Nat /\ UNCHANGED <<row, locals, stream>>
    BY <1>13 DEF Tick, Inv, ClockInv, ledger, broker
  <2>3. row.lastAt \in Nat /\ row'.lastAt <= now'
    BY <2>2 DEF Inv, ClockInv, Rows
  <2>4. ASSUME NEW i \in DOMAIN stream PROVE stream[i].at <= now'
    <3>1. stream[i] \in StreamEvents /\ stream[i].at <= now
      BY <2>4 DEF Inv, ClockInv
    <3> QED
      BY <2>2, <3>1 DEF StreamEvents
  <2> QED
    BY <2>1, <2>2, <2>3, <2>4 DEF Inv, ClockInv
<1>14. CASE UNCHANGED vars
  BY <1>14 DEF vars, ledger, broker, handler, Inv, ClockInv, SubmissionInv, KnowledgeInv
<1> QED
  BY <1>1, <1>2, <1>3, <1>4, <1>5, <1>6, <1>7, <1>8, <1>9, <1>10, <1>11, <1>12, <1>13, <1>14
  DEF Next

(* One local order is at most one order at the broker, however coordinators  *)
(* die and take over (state_machine.py:79-98, upstox.py:53-60).              *)
THEOREM OneBrokerOrder == Spec => []AtMostOneBrokerOrder
<1>1. Inv => AtMostOneBrokerOrder
  BY DEF Inv, SubmissionInv, AtMostOneBrokerOrder
<1> QED
  BY InitInv, NextInv, <1>1, PTL DEF Spec

-----------------------------------------------------------------------------
(* What one comparison of at most one local order with at most one order at  *)
(* the broker finds.                                                         *)

(* A local order without a broker id that was given to the broker. *)
LEMMA UnassignedIsUnsafe ==
  ASSUME exists, row.broker = NoBroker, row.status \notin BeforeSubmission
  PROVE  ~Safe
<1>1. LocalOrders[1].broker = NoBroker /\ LocalOrders[1].status = row.status
      /\ DOMAIN LocalOrders = {1}
  BY DEF LocalOrders
<1>2. R!Issue("MISSING_BROKER_ORDER", NoBroker) \in R!Unassigned(LocalOrders)
  BY <1>1 DEF R!Unassigned, R!PreBrokerStates, BeforeSubmission
<1> QED
  BY <1>2 DEF Safe, R!SafeToTrade, R!ReconcileIssues

(* An order at the broker that no local order refers to. *)
LEMMA UnknownIsUnsafe ==
  ASSUME placed > 0, row.broker # BrokerId
  PROVE  ~Safe
<1>1. DOMAIN BrokerReport = {1} /\ BrokerReport[1].broker = BrokerId
  BY DEF BrokerReport
<1>2. DOMAIN LocalOrders \subseteq {1}
      /\ \A i \in DOMAIN LocalOrders : LocalOrders[i].broker # BrokerId
  BY DEF LocalOrders
<1>3. 1 \in R!FirstOf(BrokerReport)
  BY <1>1, BrokerAssumption DEF R!FirstOf
<1>4. R!Matched(LocalOrders, BrokerReport) = {}
  BY <1>1, <1>2 DEF R!Matched, R!FirstOf
<1>5. R!Issue("UNKNOWN_BROKER_ORDER", BrokerId) \in
        R!ReconcileIssues(LocalOrders, BrokerReport)
  BY <1>1, <1>3, <1>4 DEF R!ReconcileIssues
<1> QED
  BY <1>5 DEF Safe, R!SafeToTrade

(* A local order compared with the broker's, which differ. *)
LEMMA MismatchIsUnsafe ==
  ASSUME exists, placed > 0, row.broker = BrokerId,
         row.filled # book.filled \/ row.status # book.status
  PROVE  ~Safe
<1>1. DOMAIN LocalOrders = {1} /\ DOMAIN BrokerReport = {1}
      /\ LocalOrders[1].broker = BrokerId /\ BrokerReport[1].broker = BrokerId
      /\ LocalOrders[1].filled = row.filled /\ BrokerReport[1].filled = book.filled
      /\ LocalOrders[1].status = row.status /\ BrokerReport[1].status = book.status
  BY DEF LocalOrders, BrokerReport
<1>2. 1 \in R!FirstOf(LocalOrders) /\ 1 \in R!FirstOf(BrokerReport)
  BY <1>1, BrokerAssumption DEF R!FirstOf
<1>3. <<1, 1>> \in R!Matched(LocalOrders, BrokerReport)
  BY <1>1, <1>2 DEF R!Matched
<1>4. R!Mismatched(LocalOrders, BrokerReport) # {}
  <2>1. CASE row.filled # book.filled
    BY <1>1, <1>3, <2>1 DEF R!Mismatched
  <2>2. CASE row.status # book.status
    BY <1>1, <1>3, <2>2 DEF R!Mismatched
  <2> QED
    BY <2>1, <2>2
<1> QED
  BY <1>4 DEF Safe, R!SafeToTrade, R!ReconcileIssues

(* An order whose submission or fills are in doubt is never reported safe    *)
(* (reconciliation.py:55-136), for every quantity and any course of events.  *)
THEOREM DoubtStaysUnsafe == Spec => []DoubtIsUnsafe
<1>1. ASSUME Inv,
             \/ row.status \in {"SUBMITTING", "RECONCILIATION_REQUIRED"}
             \/ row.filled # book.filled
             \/ placed > 0 /\ row.broker # BrokerId
      PROVE  ~Safe
  <2>1. row.broker \in {BrokerId, NoBroker} /\ placed \in {0, 1}
    BY <1>1 DEF Inv, ClockInv, SubmissionInv, Rows
  <2>2. placed = 0 => row.broker = NoBroker /\ row.filled = book.filled
    BY <1>1 DEF Inv, SubmissionInv, KnowledgeInv
  <2>3. row.status \in {"SUBMITTING", "RECONCILIATION_REQUIRED"} =>
          exists /\ row.status \notin BeforeSubmission
    BY <1>1 DEF Inv, KnowledgeInv, InitialRow, BeforeSubmission
  <2>4. ~exists => row.broker = NoBroker
    BY <1>1 DEF Inv, KnowledgeInv, InitialRow
  <2>5. CASE placed = 0
    BY <1>1, <2>2, <2>3, <2>5, UnassignedIsUnsafe
  <2>6. CASE placed = 1 /\ row.broker # BrokerId
    BY <2>6, UnknownIsUnsafe
  <2>7. CASE placed = 1 /\ row.broker = BrokerId
    <3>1. exists
      BY <2>4, <2>7, BrokerAssumption
    <3>2. row.filled # book.filled \/ row.status # book.status
      BY <1>1, <2>7 DEF Inv, SubmissionInv, BookStatuses
    <3> QED
      BY <2>7, <3>1, <3>2, MismatchIsUnsafe
  <2> QED
    BY <2>1, <2>5, <2>6, <2>7
<1>2. Inv => DoubtIsUnsafe
  BY <1>1 DEF DoubtIsUnsafe
<1> QED
  BY InitInv, NextInv, <1>2, PTL DEF Spec

-----------------------------------------------------------------------------
(* What the local order knows of the stream.  The quantities of a set of     *)
(* callbacks are summed by a function that grows with the stream: additive   *)
(* and monotone, so that sums need no induction.                             *)

Applied == {i \in DOMAIN stream : <<"broker", i>> \in ProcessedIds(log)}

(* f sums the quantities of every set of callbacks. *)
Sums(f, s) ==
  /\ f \in [SUBSET DOMAIN s -> Nat]
  /\ f[{}] = 0
  /\ \A S \in SUBSET DOMAIN s : \A i \in DOMAIN s \ S : f[S \cup {i}] = f[S] + s[i].qty
  /\ \A S, T \in SUBSET DOMAIN s : S \subseteq T => f[S] <= f[T]

EndTypes == {"BROKER_REJECTED", "EXPIRED", "CANCEL_CONFIRMED"}
EndOf(type) ==
  IF type = "BROKER_REJECTED" THEN "REJECTED" ELSE IF type = "EXPIRED" THEN "EXPIRED" ELSE "CANCELLED"
Ends == {"REJECTED", "EXPIRED", "CANCELLED"}
Locked == "RECONCILIATION_REQUIRED"
Unsent == BeforeSubmission \cup {"SUBMITTING", Locked}

(* Callbacks are numbered, and an end the broker gave is its last word. *)
StreamInv ==
  /\ \A i \in DOMAIN stream :
       /\ stream[i].id = <<"broker", i>>
       /\ stream[i].type \in EndTypes \cup {"FILL", "BROKER_ACKNOWLEDGED"}
       /\ (stream[i].type = "FILL") <=> (stream[i].qty > 0)
       /\ stream[i].type \in EndTypes => i = Len(stream) /\ book.status = EndOf(stream[i].type)
  /\ placed = 1 => book.status # "NONE"
  /\ stream = <<>> => book.status \in {"NONE", "SUBMITTED"}
  /\ book.filled <= Quantity
  /\ (book.status = "FILLED") <=> (book.filled = Quantity)
  /\ book.status \in Ends =>
       \E i \in DOMAIN stream : stream[i].type \in EndTypes /\ EndOf(stream[i].type) = book.status

(* Ids of the log are those of local events and of callbacks that were there. *)
DeliveryInv ==
  /\ \A x \in log : x.event.id[1] = "local" \/ \E i \in DOMAIN stream : x.event.id = <<"broker", i>>
  /\ inOrder \in BOOLEAN
  /\ seen \subseteq DOMAIN stream /\ refused \subseteq seen
  /\ seen \ refused \subseteq Applied

RowInv ==
  /\ placed = 0 => row.status \in Unsent
  /\ row.status # Locked =>
       /\ (row.status = "FILLED") <=> (row.filled = Quantity)
       /\ Applied # {} => row.broker = BrokerId
       /\ \A i \in Applied : stream[i].type \in EndTypes => row.status = EndOf(stream[i].type)
  /\ row.status \in Ends =>
       \E i \in Applied : /\ stream[i].type \in EndTypes /\ EndOf(stream[i].type) = row.status
                          /\ inOrder => 1 .. i - 1 \subseteq Applied

(* The local fills are those of the callbacks applied, unless one had to be  *)
(* left out, which locks the order.                                          *)
FilledFrom(f) ==
  /\ Sums(f, stream)
  /\ f[DOMAIN stream] = book.filled
  /\ row.filled <= f[Applied]
  /\ row.status # Locked => row.filled = f[Applied]

FillInv == \E f : FilledFrom(f)

StepInv == Inv /\ StreamInv /\ DeliveryInv /\ RowInv /\ FillInv

-----------------------------------------------------------------------------
(* Where the transitions lead. *)
LEMMA TransitionFacts ==
  ASSUME NEW s \in Rows, NEW e, IsEvent(e), Allowed(s, e)
  PROVE  /\ s.status \notin Ends \cup {"FILLED", Locked}
         /\ e.type = "FILL" => NextStatus(s, e) = IF s.filled + e.qty = Quantity THEN "FILLED"
                                                  ELSE "PARTIALLY_FILLED"
         /\ e.type # "FILL" => NextStatus(s, e) # "FILLED"
         /\ e.type \in EndTypes => NextStatus(s, e) = EndOf(e.type)
         /\ e.type \notin EndTypes => NextStatus(s, e) \notin Ends
         /\ e.type # "SUBMIT_CONFIRMED" /\ s.status \in Unsent => NextStatus(s, e) \in Unsent
<1>1. CASE e.type = "FILL"
  BY <1>1 DEF Allowed, Fillable, NextStatus, Ends, Locked, EndTypes, Unsent, BeforeSubmission
<1>2. CASE e.type # "FILL"
  <2>1. PICK u \in OrderStatuses : <<s.status, e.type, u>> \in Transitions
    BY <1>2 DEF Allowed
  <2>2. <<s.status, e.type, NextStatus(s, e)>> \in Transitions
    BY <1>2, <2>1 DEF NextStatus
  <2> DEFINE t == NextStatus(s, e)
  <2> HIDE DEF t
  <2>3. <<s.status, e.type, t>> \in Transitions
    BY <2>2 DEF t
  <2>4. /\ s.status \notin Ends \cup {"FILLED", Locked} /\ t # "FILLED"
        /\ e.type \in EndTypes => t = EndOf(e.type)
        /\ e.type \notin EndTypes => t \notin Ends
        /\ e.type # "SUBMIT_CONFIRMED" /\ s.status \in Unsent => t \in Unsent
    BY <2>3 DEF Transitions, Ends, EndTypes, EndOf, Locked, Unsent, BeforeSubmission
  <2> QED BY <1>2, <2>4 DEF t
<1> QED BY <1>1, <1>2

(* An event is applied as a whole, or locks the order as it is. *)
LEMMA AppliedOrLocked ==
  ASSUME NEW s \in Rows, NEW e, IsEvent(e), ~Refused(s, e)
  PROVE  LET r == ApplyOrderEvent(s, e)
         IN \/ r.status = Locked /\ r.filled = s.filled
            \/ /\ Allowed(s, e)
               /\ r.status = NextStatus(s, e) /\ r.filled = s.filled + e.qty
               /\ r.broker = IF e.broker # NoBroker THEN e.broker ELSE s.broker
               /\ e.type = "FILL" => s.filled + e.qty <= Quantity
<1>1. ASSUME NEW why
      PROVE  LET r == RequiresReconciliation(s, e, why)
             IN r.status = Locked /\ r.filled = s.filled
  BY DEF RequiresReconciliation, Rows, Locked
<1>2. s.filled + e.qty \in Nat
  BY DEF Rows, IsEvent
<1>3. ~Overfills(s, e) /\ e.type = "FILL" => s.filled + e.qty <= Quantity
  BY <1>2, QuantityAssumption DEF Overfills
<1>4. LET r == Advanced(s, e)
      IN /\ r.status = NextStatus(s, e) /\ r.filled = s.filled + e.qty
         /\ r.broker = IF e.broker # NoBroker THEN e.broker ELSE s.broker
  BY DEF Advanced
<1> QED BY <1>1, <1>3, <1>4 DEF ApplyOrderEvent, Refused

-----------------------------------------------------------------------------
(* The events a coordinator records are of other kinds than the broker's. *)
LocalTypes == EventTypes \ (EndTypes \cup {"FILL"})

LEMMA LocalKeepsRow ==
  ASSUME StepInv, NEW type \in LocalTypes, NEW id \in {BrokerId, NoBroker},
         RecordLocal(type, id), UNCHANGED <<placed, book, stream>>,
         type = "SUBMIT_CONFIRMED" => placed = 1
  PROVE  StreamInv' /\ DeliveryInv' /\ RowInv' /\ FillInv'
<1> DEFINE e == [id |-> <<"local", locals + 1>>, type |-> type, at |-> now,
                 qty |-> 0, broker |-> id]
<1>1. /\ ~Refused(row, e) /\ row' = ApplyOrderEvent(row, e)
      /\ log' = log \cup {[event |-> e, version |-> row'.version]}
      /\ UNCHANGED <<inOrder, seen, refused>>
  BY DEF RecordLocal, Record, handler
<1>2. IsEvent(e) /\ row \in Rows /\ row.filled \in Nat
  BY DEF StepInv, Inv, ClockInv, IsEvent, LocalTypes, Rows
<1>3. e.type = type /\ e.qty = 0 /\ e.broker = id /\ e.id[1] = "local"
  OBVIOUS
<1>4. \A i : e.id # <<"broker", i>>
  OBVIOUS
<1> HIDE DEF e
<1>5. Applied' = Applied
  BY <1>1, <1>4 DEF Applied, ProcessedIds
<1>6. StreamInv'
  BY DEF StepInv, StreamInv
<1>7. DeliveryInv'
  BY <1>1, <1>3, <1>5 DEF StepInv, DeliveryInv
<1>8. \/ row'.status = Locked /\ row'.filled = row.filled
      \/ /\ Allowed(row, e) /\ row'.status = NextStatus(row, e) /\ row'.filled = row.filled
         /\ row'.broker = IF id # NoBroker THEN id ELSE row.broker
  BY <1>1, <1>2, <1>3, AppliedOrLocked
<1>9. CASE row'.status = Locked /\ row'.filled = row.filled
  <2>1. RowInv'
    BY <1>9 DEF RowInv, Locked, Unsent, Ends
  <2>2. FillInv'
    BY <1>5, <1>9 DEF StepInv, FillInv, FilledFrom, Sums
  <2> QED BY <1>6, <1>7, <2>1, <2>2
<1>10. CASE /\ Allowed(row, e) /\ row'.status = NextStatus(row, e) /\ row'.filled = row.filled
            /\ row'.broker = IF id # NoBroker THEN id ELSE row.broker
  <2>1. /\ row.status \notin Ends \cup {"FILLED", Locked}
        /\ NextStatus(row, e) \notin Ends \cup {"FILLED"}
        /\ type # "SUBMIT_CONFIRMED" /\ row.status \in Unsent => NextStatus(row, e) \in Unsent
    BY <1>2, <1>3, <1>10, TransitionFacts DEF LocalTypes
  <2>2. \A i \in Applied : stream[i].type \notin EndTypes
    BY <2>1 DEF StepInv, RowInv, EndOf, Ends
  <2>3. placed = 0 => row'.status \in Unsent
    BY <1>10, <2>1 DEF StepInv, RowInv
  <2>4. row'.filled # Quantity /\ row'.status # "FILLED"
    BY <1>10, <2>1 DEF StepInv, RowInv
  <2>5. Applied # {} => row'.broker = BrokerId
    BY <1>10, <2>1 DEF StepInv, RowInv
  <2>6. RowInv'
    BY <1>5, <1>10, <2>1, <2>2, <2>3, <2>4, <2>5 DEF RowInv
  <2>7. FillInv'
    BY <1>5, <1>10, <2>1 DEF StepInv, FillInv, FilledFrom, Sums
  <2> QED BY <1>6, <1>7, <2>6, <2>7
<1> QED BY <1>8, <1>9, <1>10

(* A callback that is applied for the first time. *)
LEMMA CallbackKeepsRow ==
  ASSUME StepInv, NEW i \in DOMAIN stream, Record(stream[i]),
         inOrder => 1 .. i - 1 \subseteq seen \ refused,
         UNCHANGED <<inOrder, placed, book, stream>>
  PROVE  RowInv' /\ FillInv' /\ Applied' = Applied \cup {i}
<1> DEFINE e == stream[i]
<1>1. /\ e \in StreamEvents /\ e.id = <<"broker", i>> /\ e.broker = BrokerId
      /\ e.type \in EndTypes \cup {"FILL", "BROKER_ACKNOWLEDGED"}
      /\ (e.type = "FILL") <=> (e.qty > 0)
      /\ e.qty \in Nat /\ IsEvent(e)
  <2>1. stream \in Seq(StreamEvents) /\ stream[i] \in StreamEvents
    BY DEF StepInv, Inv, ClockInv
  <2>2. e.broker = BrokerId /\ e.qty \in Nat /\ IsEvent(e)
    BY <2>1 DEF StreamEvents, IsEvent
  <2> QED BY <2>1, <2>2 DEF StepInv, StreamInv
<1>2. /\ ~Refused(row, e) /\ row' = ApplyOrderEvent(row, e)
      /\ log' = log \cup {[event |-> e, version |-> row'.version]}
      /\ e.id \notin ProcessedIds(log)
  BY DEF Record, Duplicate
<1>3. row \in Rows /\ row.filled \in Nat /\ placed = 1 /\ BrokerId # NoBroker
  BY BrokerAssumption DEF StepInv, Inv, ClockInv, SubmissionInv, Rows
<1> HIDE DEF e
<1>4. Applied' = Applied \cup {i} /\ i \notin Applied
  <2>1. ProcessedIds(log') = ProcessedIds(log) \cup {<<"broker", i>>}
    <3> DEFINE entry == [event |-> e, version |-> row'.version]
    <3>1. entry.event.id = <<"broker", i>> /\ log' = log \cup {entry}
      BY <1>1, <1>2
    <3> HIDE DEF entry
    <3> QED BY <3>1 DEF ProcessedIds
  <2>2. \A j : <<"broker", j>> = <<"broker", i>> <=> j = i
    OBVIOUS
  <2> QED BY <1>1, <1>2, <2>1, <2>2 DEF Applied
<1>5. PICK f : FilledFrom(f)
  BY DEF StepInv, FillInv
<1>6. f[Applied'] = f[Applied] + e.qty /\ f[Applied] \in Nat
  BY <1>4, <1>5 DEF FilledFrom, Sums, Applied, e
<1>7. \/ row'.status = Locked /\ row'.filled = row.filled
      \/ /\ Allowed(row, e) /\ row'.status = NextStatus(row, e)
         /\ row'.filled = row.filled + e.qty /\ row'.broker = BrokerId
  BY <1>1, <1>2, <1>3, AppliedOrLocked
<1>8. CASE row'.status = Locked /\ row'.filled = row.filled
  <2>1. RowInv'
    BY <1>3, <1>8 DEF RowInv, Locked, Ends
  <2>2. FilledFrom(f)'
    BY <1>1, <1>3, <1>5, <1>6, <1>8 DEF FilledFrom, Sums
  <2> QED BY <1>4, <2>1, <2>2 DEF FillInv
<1>9. CASE /\ Allowed(row, e) /\ row'.status = NextStatus(row, e)
           /\ row'.filled = row.filled + e.qty /\ row'.broker = BrokerId
  <2>1. /\ row.status \notin Ends \cup {"FILLED", Locked}
        /\ e.type = "FILL" => row'.status = IF row'.filled = Quantity THEN "FILLED"
                                            ELSE "PARTIALLY_FILLED"
        /\ e.type # "FILL" => row'.status # "FILLED"
        /\ e.type \in EndTypes => row'.status = EndOf(e.type)
        /\ e.type \notin EndTypes => row'.status \notin Ends
    BY <1>1, <1>3, <1>9, TransitionFacts
  <2>2. row.filled # Quantity /\ \A j \in Applied : stream[j].type \notin EndTypes
    BY <2>1 DEF StepInv, RowInv, EndOf, Ends
  <2>3. (row'.status = "FILLED") <=> (row'.filled = Quantity)
    <3>1. e.type # "FILL" => row'.filled = row.filled
      BY <1>1, <1>3, <1>9
    <3> QED BY <2>1, <2>2, <3>1
  <2>4. \A j \in Applied' : stream[j].type \in EndTypes => row'.status = EndOf(stream[j].type)
    BY <1>4, <2>1, <2>2 DEF e
  <2>5. ASSUME row'.status \in Ends
        PROVE  \E j \in Applied' : /\ stream[j].type \in EndTypes
                                   /\ EndOf(stream[j].type) = row'.status
                                   /\ inOrder => 1 .. j - 1 \subseteq Applied'
    BY <1>4, <2>1, <2>5 DEF StepInv, DeliveryInv, e
  <2>6. RowInv'
    BY <1>3, <1>9, <2>3, <2>4, <2>5 DEF RowInv
  <2>7. row.filled = f[Applied]
    BY <1>5, <2>1 DEF FilledFrom
  <2>8. FilledFrom(f)'
    BY <1>1, <1>3, <1>5, <1>6, <1>9, <2>7 DEF FilledFrom, Sums
  <2> QED BY <1>4, <2>6, <2>8 DEF FillInv
<1> QED BY <1>7, <1>8, <1>9

(* A delivery of the stream: a record, a repetition, or a refusal. *)
LEMMA DeliverKeeps ==
  ASSUME StepInv, NEW i \in DOMAIN stream, Deliver(i)
  PROVE  StreamInv' /\ DeliveryInv' /\ RowInv' /\ FillInv'
<1>1. /\ UNCHANGED <<inOrder, placed, book, stream>> /\ seen' = seen \cup {i}
      /\ inOrder => 1 .. i - 1 \subseteq seen \ refused
  BY DEF Deliver, broker
<1>2. StreamInv'
  BY <1>1 DEF StepInv, StreamInv
<1>3. stream[i].id = <<"broker", i>>
  BY DEF StepInv, StreamInv
<1>4. CASE Record(stream[i]) /\ refused' = refused \ {i}
  <2>1. RowInv' /\ FillInv' /\ Applied' = Applied \cup {i}
    BY <1>1, <1>4, CallbackKeepsRow
  <2> DEFINE entry == [event |-> stream[i], version |-> row'.version]
  <2>2. log' = log \cup {entry} /\ entry.event.id = <<"broker", i>>
    BY <1>3, <1>4 DEF Record
  <2> HIDE DEF entry
  <2>3. DeliveryInv'
    BY <1>1, <1>4, <2>1, <2>2 DEF StepInv, DeliveryInv
  <2> QED BY <1>2, <2>1, <2>3
<1>5. CASE UNCHANGED ledger /\ (refused' = refused \/ refused' = refused \cup {i})
           /\ (i \in Applied \/ i \in refused')
  <2>1. UNCHANGED <<exists, row, log>> /\ Applied' = Applied
    BY <1>1, <1>5 DEF ledger, Applied
  <2>2. DeliveryInv'
    BY <1>1, <1>5, <2>1 DEF StepInv, DeliveryInv
  <2>3. RowInv' /\ FillInv'
    BY <1>1, <2>1 DEF StepInv, RowInv, FillInv, FilledFrom, Sums
  <2> QED BY <1>2, <2>2, <2>3
<1>6. Duplicate(stream[i]) => i \in Applied
  BY <1>3 DEF Duplicate, Applied
<1> QED BY <1>4, <1>5, <1>6 DEF Deliver

(* A sum function for a stream with one more callback. *)
LEMMA SumsExtend ==
  ASSUME NEW S, NEW s \in Seq(S), NEW e, NEW f, Sums(f, s),
         \A i \in DOMAIN s : s[i].qty \in Nat, e.qty \in Nat
  PROVE  \E g : /\ Sums(g, Append(s, e))
                /\ g[DOMAIN Append(s, e)] = f[DOMAIN s] + e.qty
                /\ \A T \in SUBSET DOMAIN s : g[T] = f[T]
<1> DEFINE n == Len(s) + 1
           t == Append(s, e)
           g == [T \in SUBSET DOMAIN t |-> IF n \in T THEN f[T \ {n}] + e.qty ELSE f[T]]
<1>1. /\ DOMAIN t = DOMAIN s \cup {n} /\ n \notin DOMAIN s
      /\ t[n].qty = e.qty /\ \A i \in DOMAIN s : t[i] = s[i]
  <2>1. DOMAIN s = 1 .. Len(s) /\ Len(s) \in Nat
    OBVIOUS
  <2>2. DOMAIN t = 1 .. Len(s) + 1 /\ t[n] = e /\ \A i \in 1 .. Len(s) : t[i] = s[i]
    BY <2>1
  <2> QED BY <2>1, <2>2
<1> HIDE DEF n, t
<1>2. \A T \in SUBSET DOMAIN t : T \ {n} \in SUBSET DOMAIN s /\ (n \notin T => T \in SUBSET DOMAIN s)
  BY <1>1
<1>3. \A T \in SUBSET DOMAIN s : f[T] \in Nat
  BY DEF Sums
<1>4. g \in [SUBSET DOMAIN t -> Nat]
  BY <1>2, <1>3
<1>5. \A T \in SUBSET DOMAIN t : g[T] = IF n \in T THEN f[T \ {n}] + e.qty ELSE f[T]
  OBVIOUS
<1> HIDE DEF g
<1>6. g[{}] = 0
  BY <1>5 DEF Sums
<1>7. ASSUME NEW T \in SUBSET DOMAIN t, NEW i \in DOMAIN t \ T
      PROVE  g[T \cup {i}] = g[T] + t[i].qty
  <2>1. T \cup {i} \in SUBSET DOMAIN t
    OBVIOUS
  <2>2. CASE i = n
    <3>1. (T \cup {n}) \ {n} = T /\ n \in T \cup {n} /\ n \notin T
      BY <1>7, <2>2
    <3> QED BY <1>1, <1>5, <2>1, <2>2, <3>1
  <2>3. CASE i # n
    <3>1. i \in DOMAIN s \ (T \ {n}) /\ t[i].qty = s[i].qty /\ s[i].qty \in Nat
      BY <1>1, <2>3
    <3>2. f[(T \ {n}) \cup {i}] = f[T \ {n}] + s[i].qty /\ f[T \ {n}] \in Nat
      BY <1>2, <1>3, <3>1 DEF Sums
    <3>3. (T \cup {i}) \ {n} = (T \ {n}) \cup {i} /\ (n \in T \cup {i} <=> n \in T)
      BY <2>3
    <3>4. CASE n \in T
      <4>1. g[T] = f[T \ {n}] + e.qty
        BY <1>5, <3>4
      <4>2. g[T \cup {i}] = f[(T \ {n}) \cup {i}] + e.qty
        BY <1>5, <2>1, <3>3, <3>4
      <4>3. g[T \cup {i}] = (f[T \ {n}] + s[i].qty) + e.qty
        BY <3>2, <4>2
      <4> QED BY <3>1, <3>2, <4>1, <4>3
    <3>5. CASE n \notin T
      <4>1. T \ {n} = T /\ (T \ {n}) \cup {i} = T \cup {i}
        BY <3>5
      <4> QED BY <1>5, <2>1, <3>1, <3>2, <3>3, <3>5, <4>1
    <3> QED BY <3>4, <3>5
  <2> QED BY <2>2, <2>3
<1>8. ASSUME NEW T \in SUBSET DOMAIN t, NEW U \in SUBSET DOMAIN t, T \subseteq U
      PROVE  g[T] <= g[U]
  <2>1. T \ {n} \subseteq U \ {n} /\ (n \in T => n \in U)
    BY <1>8
  <2>2. f[T \ {n}] <= f[U \ {n}] /\ f[T \ {n}] \in Nat /\ f[U \ {n}] \in Nat
    BY <1>2, <1>3, <2>1 DEF Sums
  <2>3. (n \notin T => T \ {n} = T) /\ (n \notin U => U \ {n} = U)
    OBVIOUS
  <2>4. g[T] = (IF n \in T THEN f[T \ {n}] + e.qty ELSE f[T \ {n}])
        /\ g[U] = (IF n \in U THEN f[U \ {n}] + e.qty ELSE f[U \ {n}])
    BY <1>5, <2>3
  <2> QED BY <2>1, <2>2, <2>4
<1>9. Sums(g, t)
  BY <1>4, <1>6, <1>7, <1>8 DEF Sums
<1>10. g[DOMAIN t] = f[DOMAIN s] + e.qty
  <2>1. DOMAIN t \ {n} = DOMAIN s /\ n \in DOMAIN t
    BY <1>1
  <2> QED BY <1>5, <2>1
<1>11. \A T \in SUBSET DOMAIN s : g[T] = f[T]
  BY <1>1, <1>5
<1> QED BY <1>9, <1>10, <1>11 DEF t

(* A callback that is emitted is new, and the last if it is an end. *)
LEMMA EmitKeeps ==
  ASSUME StepInv, NEW type \in EndTypes \cup {"FILL", "BROKER_ACKNOWLEDGED"},
         NEW qty \in Nat, NEW status \in BookStatuses,
         book.status \in Working, Emit(type, qty, status),
         (type = "FILL") <=> (qty > 0),
         type \in EndTypes => status = EndOf(type),
         type \notin EndTypes => status \notin Ends,
         book.filled + qty <= Quantity,
         (status = "FILLED") <=> (book.filled + qty = Quantity)
  PROVE  StreamInv' /\ DeliveryInv' /\ RowInv' /\ FillInv'
<1> DEFINE n == Len(stream) + 1
           e == [id |-> <<"broker", n>>, type |-> type, at |-> now, qty |-> qty,
                 broker |-> BrokerId]
<1>1. /\ stream' = Append(stream, e)
      /\ book' = [status |-> status, filled |-> book.filled + qty]
      /\ UNCHANGED <<exists, row, log, inOrder, placed, seen, refused>>
  BY DEF Emit, ledger, handler
<1>2. stream \in Seq(StreamEvents) /\ book.filled \in Nat
  BY DEF StepInv, Inv, ClockInv, SubmissionInv
<1>3. e.id = <<"broker", n>> /\ e.type = type /\ e.qty = qty
  OBVIOUS
<1> HIDE DEF e
<1>4. /\ DOMAIN stream = 1 .. Len(stream) /\ Len(stream) \in Nat
      /\ Len(stream') = n /\ DOMAIN stream' = 1 .. n
      /\ stream'[n] = e /\ \A i \in DOMAIN stream : stream'[i] = stream[i]
  BY <1>1, <1>2
<1>5. \A i \in DOMAIN stream : stream[i].type \notin EndTypes
  BY DEF StepInv, StreamInv, Working, EndOf
<1>6. Applied' = Applied
  <2>1. <<"broker", n>> \notin ProcessedIds(log)
    <3> SUFFICES ASSUME NEW x \in log, x.event.id = <<"broker", n>> PROVE FALSE
      BY DEF ProcessedIds
    <3>1. x.event.id[1] # "local"
      OBVIOUS
    <3>2. PICK i \in DOMAIN stream : x.event.id = <<"broker", i>>
      BY <3>1 DEF StepInv, DeliveryInv
    <3> QED BY <1>4, <3>2
  <2>2. DOMAIN stream' = DOMAIN stream \cup {n}
    BY <1>4
  <2> QED BY <1>1, <2>1, <2>2 DEF Applied
<1>7. DeliveryInv'
  BY <1>1, <1>4, <1>6 DEF StepInv, DeliveryInv
<1>8. Applied \subseteq DOMAIN stream /\ \A i \in Applied : stream'[i] = stream[i]
  BY <1>4 DEF Applied
<1>9. RowInv'
  BY <1>1, <1>6, <1>8 DEF StepInv, RowInv
<1>10. StreamInv'
  <2>1. \A i \in DOMAIN stream' : i \in DOMAIN stream \/ i = n
    BY <1>4
  <2>2. ASSUME NEW i \in DOMAIN stream'
        PROVE  /\ stream'[i].id = <<"broker", i>>
               /\ stream'[i].type \in EndTypes \cup {"FILL", "BROKER_ACKNOWLEDGED"}
               /\ (stream'[i].type = "FILL") <=> (stream'[i].qty > 0)
               /\ stream'[i].type \in EndTypes =>
                    i = Len(stream') /\ book'.status = EndOf(stream'[i].type)
    BY <1>1, <1>3, <1>4, <1>5, <2>1 DEF StepInv, StreamInv
  <2>3. book'.status # "NONE" /\ stream' # <<>> /\ book'.filled <= Quantity
        /\ ((book'.status = "FILLED") <=> (book'.filled = Quantity))
    BY <1>1, <1>4 DEF BookStatuses
  <2>4. ASSUME book'.status \in Ends
        PROVE  \E i \in DOMAIN stream' :
                 stream'[i].type \in EndTypes /\ EndOf(stream'[i].type) = book'.status
    <3>1. type \in EndTypes /\ EndOf(type) = book'.status
      BY <1>1, <2>4
    <3> QED BY <1>3, <1>4, <3>1
  <2> QED BY <2>2, <2>3, <2>4 DEF StreamInv
<1>11. FillInv'
  <2>1. PICK f : FilledFrom(f)
    BY DEF StepInv, FillInv
  <2>2. ASSUME NEW i \in DOMAIN stream
        PROVE  stream[i].qty \in Nat
    <3>1. stream[i] \in StreamEvents
      BY <1>2
    <3> QED BY <3>1 DEF StreamEvents
  <2>3. PICK g : /\ Sums(g, stream') /\ g[DOMAIN stream'] = f[DOMAIN stream] + qty
                 /\ \A T \in SUBSET DOMAIN stream : g[T] = f[T]
    BY <1>1, <1>2, <1>3, <2>1, <2>2, SumsExtend DEF FilledFrom
  <2>4. g[Applied'] = f[Applied]
    BY <1>6, <1>8, <2>3
  <2>5. FilledFrom(g)'
    BY <1>1, <2>1, <2>3, <2>4 DEF FilledFrom
  <2> QED BY <2>5 DEF FillInv
<1> QED BY <1>7, <1>9, <1>10, <1>11

(* The other actions leave what the ledger and the stream say alone. *)
LEMMA StutterKeeps ==
  ASSUME StepInv, UNCHANGED <<log, inOrder, placed, book, stream, seen, refused>>,
         row' = row
  PROVE  StreamInv' /\ DeliveryInv' /\ RowInv' /\ FillInv'
<1>1. Applied' = Applied
  BY DEF Applied
<1> QED
  BY <1>1 DEF StepInv, StreamInv, DeliveryInv, RowInv, FillInv, FilledFrom, Sums

LEMMA StepInit == Init => StepInv
<1> SUFFICES ASSUME Init PROVE StepInv
  OBVIOUS
<1>1. /\ log = {} /\ stream = <<>> /\ seen = {} /\ refused = {} /\ placed = 0
      /\ book = [status |-> "NONE", filled |-> 0] /\ row = InitialRow /\ inOrder \in BOOLEAN
  BY DEF Init, LedgerInit
<1>2. DOMAIN stream = {} /\ Applied = {}
  BY <1>1 DEF Applied
<1>3. StreamInv
  BY <1>1, <1>2, QuantityAssumption DEF StreamInv, Ends
<1>4. DeliveryInv
  BY <1>1, <1>2 DEF DeliveryInv
<1>5. row.status = "CREATED" /\ row.filled = 0
  BY <1>1 DEF InitialRow
<1>6. RowInv
  BY <1>1, <1>2, <1>5, QuantityAssumption DEF RowInv, Ends, Unsent, BeforeSubmission
<1>7. FillInv
  <2> DEFINE f == [T \in SUBSET DOMAIN stream |-> 0]
  <2>1. FilledFrom(f)
    BY <1>1, <1>2, <1>5 DEF FilledFrom, Sums
  <2> QED BY <2>1 DEF FillInv
<1> QED BY InitInv, <1>3, <1>4, <1>6, <1>7 DEF StepInv

(* The order is received: the broker's book opens, and the row stays. *)
LEMMA ReceiveKeeps ==
  ASSUME StepInv, BrokerReceives
  PROVE  StreamInv' /\ DeliveryInv' /\ RowInv' /\ FillInv'
<1>1. /\ UNCHANGED <<row, log, inOrder, stream, seen, refused>>
      /\ placed = 0 /\ placed' = 1
      /\ book' = [book EXCEPT !.status = "SUBMITTED"]
  BY DEF BrokerReceives, ledger, handler, StepInv, Inv, SubmissionInv
<1>2. book = [status |-> "NONE", filled |-> 0] /\ stream = <<>>
  BY <1>1 DEF StepInv, Inv, SubmissionInv
<1>3. book' = [status |-> "SUBMITTED", filled |-> 0] /\ DOMAIN stream = {}
  BY <1>1, <1>2
<1>4. Applied' = Applied
  BY <1>1 DEF Applied
<1>5. StreamInv'
  BY <1>1, <1>2, <1>3, QuantityAssumption DEF StreamInv, Ends
<1>6. DeliveryInv'
  BY <1>1, <1>4 DEF StepInv, DeliveryInv
<1>7. RowInv'
  BY <1>1, <1>4 DEF StepInv, RowInv
<1>8. FillInv'
  BY <1>1, <1>2, <1>3, <1>4 DEF StepInv, FillInv, FilledFrom, Sums
<1> QED BY <1>5, <1>6, <1>7, <1>8

LEMMA StepNext == StepInv /\ [Next]_vars => StepInv'
<1> SUFFICES ASSUME StepInv, [Next]_vars PROVE StepInv'
  OBVIOUS
<1> DEFINE Kept == StreamInv' /\ DeliveryInv' /\ RowInv' /\ FillInv'
<1>1. ASSUME Create PROVE Kept
  BY <1>1, StutterKeeps DEF Create, Open, broker, handler
<1>2. ASSUME Decide PROVE Kept
  <2>1. PICK type \in {"RISK_REQUESTED", "RISK_APPROVED", "RISK_REJECTED"} :
          RecordLocal(type, NoBroker)
    BY <1>2 DEF Decide
  <2>2. type \in LocalTypes /\ type # "SUBMIT_CONFIRMED" /\ UNCHANGED <<placed, book, stream>>
    BY <1>2 DEF Decide, LocalTypes, EventTypes, EndTypes, broker
  <2> QED BY <2>1, <2>2, LocalKeepsRow
<1>3. ASSUME Submit \/ Uncertain \/ RequestCancel PROVE Kept
  <2>1. PICK type \in {"SUBMIT_STARTED", "SUBMISSION_UNKNOWN", "CANCEL_REQUESTED"} :
          RecordLocal(type, NoBroker)
    BY <1>3 DEF Submit, Uncertain, RequestCancel
  <2>2. type \in LocalTypes /\ type # "SUBMIT_CONFIRMED" /\ UNCHANGED <<placed, book, stream>>
    BY <1>3 DEF Submit, Uncertain, RequestCancel, LocalTypes, EventTypes, EndTypes, broker
  <2> QED BY <2>1, <2>2, LocalKeepsRow
<1>4. ASSUME Confirm PROVE Kept
  <2>1. /\ RecordLocal("SUBMIT_CONFIRMED", BrokerId) /\ placed = 1
        /\ UNCHANGED <<placed, book, stream>>
    BY <1>4 DEF Confirm, broker, StepInv, Inv, SubmissionInv
  <2>2. "SUBMIT_CONFIRMED" \in LocalTypes
    BY DEF LocalTypes, EventTypes, EndTypes
  <2> QED BY <2>1, <2>2, LocalKeepsRow
<1>5. ASSUME DispatchRefused \/ CoordinatorDies \/ Tick \/ UNCHANGED vars PROVE Kept
  BY <1>5, StutterKeeps
  DEF DispatchRefused, CoordinatorDies, Tick, vars, ledger, broker, handler
<1>6. ASSUME BrokerReceives PROVE Kept
  BY <1>6, ReceiveKeeps
<1>7. ASSUME BrokerAcks \/ BrokerRejects \/ BrokerExpires \/ BrokerCancels PROVE Kept
  <2>1. PICK type \in EndTypes \cup {"BROKER_ACKNOWLEDGED"}, status \in BookStatuses \ {"FILLED"} :
          /\ Emit(type, 0, status) /\ book.status \in Working
          /\ type \in EndTypes => status = EndOf(type)
          /\ type \notin EndTypes => status \notin Ends
    BY <1>7 DEF BrokerAcks, BrokerRejects, BrokerExpires, BrokerCancels, Working, EndTypes,
                EndOf, Ends, BookStatuses
  <2>2. /\ book.filled \in Nat /\ book.filled <= Quantity /\ book.status # "FILLED"
        /\ ((book.status = "FILLED") <=> (book.filled = Quantity))
    BY <2>1 DEF StepInv, Inv, SubmissionInv, StreamInv, Working
  <2>3. book.filled + 0 = book.filled /\ type # "FILL"
    BY <2>1, <2>2 DEF EndTypes
  <2> QED BY <2>1, <2>2, <2>3, EmitKeeps
<1>8. ASSUME BrokerFills PROVE Kept
  <2>1. PICK q \in 1 .. Quantity - book.filled :
          /\ book.status \in Working
          /\ Emit("FILL", q, IF book.filled + q = Quantity THEN "FILLED" ELSE "PARTIALLY_FILLED")
    BY <1>8 DEF BrokerFills
  <2>2. q \in Nat /\ q > 0 /\ book.filled + q <= Quantity
    BY QuantityAssumption DEF StepInv, Inv, SubmissionInv
  <2> DEFINE status == IF book.filled + q = Quantity THEN "FILLED" ELSE "PARTIALLY_FILLED"
  <2>3. /\ status \in BookStatuses /\ status \notin Ends /\ "FILL" \notin EndTypes
        /\ ((status = "FILLED") <=> (book.filled + q = Quantity))
    BY DEF BookStatuses, Ends, EndTypes
  <2>4. Emit("FILL", q, status)
    BY <2>1
  <2> HIDE DEF status
  <2> QED BY <2>1, <2>2, <2>3, <2>4, EmitKeeps
<1>9. ASSUME NEW i \in DOMAIN stream, Deliver(i) PROVE Kept
  BY <1>9, DeliverKeeps
<1>10. Inv'
  BY NextInv DEF StepInv
<1> QED
  BY <1>1, <1>2, <1>3, <1>4, <1>5, <1>6, <1>7, <1>8, <1>9, <1>10 DEF Next, StepInv

LEMMA StepAlways == Spec => []StepInv
  BY StepInit, StepNext, PTL DEF Spec

-----------------------------------------------------------------------------
(* Once an end is applied in order, or every callback is, the fills agree. *)
LEMMA AppliedFills ==
  ASSUME StepInv
  PROVE  /\ row.filled \in Nat /\ row.filled <= book.filled
         /\ row.status # Locked /\ Applied = DOMAIN stream => row.filled = book.filled
<1>1. PICK f : FilledFrom(f)
  BY DEF StepInv, FillInv
<1>2. /\ Applied \in SUBSET DOMAIN stream /\ DOMAIN stream \in SUBSET DOMAIN stream
      /\ Applied \subseteq DOMAIN stream
  BY DEF Applied
<1>3. f[Applied] <= f[DOMAIN stream] /\ f[Applied] \in Nat /\ f[DOMAIN stream] \in Nat
  BY <1>1, <1>2 DEF FilledFrom, Sums
<1>4. row.filled \in Nat
  BY DEF StepInv, Inv, ClockInv, Rows
<1> QED BY <1>1, <1>3, <1>4 DEF FilledFrom

(* Whatever is delivered, the order stays in its types, its fills within its *)
(* quantity (state_machine.py:118-150).                                      *)
THEOREM OrderTypeCorrect == Spec => []TypeOK
<1>1. ASSUME StepInv PROVE TypeOK
  <2>1. row.filled <= Quantity /\ book.filled \in 0 .. Quantity
    BY <1>1, AppliedFills, QuantityAssumption DEF StepInv, Inv, SubmissionInv, StreamInv
  <2>2. book \in [status : BookStatuses \cup {"NONE"}, filled : Nat]
    BY <1>1 DEF StepInv, Inv, SubmissionInv
  <2>3. book \in [status : BookStatuses \cup {"NONE"}, filled : 0 .. Quantity]
    BY <2>1, <2>2
  <2>4. placed \in Nat /\ call \in {"none", "sending", "received", "failed"}
    BY <1>1 DEF StepInv, Inv, SubmissionInv
  <2> QED BY <1>1, <2>1, <2>3, <2>4 DEF TypeOK, StepInv, Inv, ClockInv, DeliveryInv
<1> QED BY <1>1, StepAlways, PTL

(* The local order is never ahead of the broker, for every quantity, stream  *)
(* and order of its deliveries (state_machine.py:108-150).                   *)
THEOREM NeverAhead == Spec => []NeverAheadOfBroker
<1>1. ASSUME StepInv PROVE NeverAheadOfBroker
  <2>1. row.filled \in Nat /\ row.filled <= book.filled
    BY <1>1, AppliedFills
  <2>2. CASE row.status = "FILLED"
    <3>1. row.filled = Quantity
      BY <1>1, <2>2 DEF StepInv, RowInv, Locked
    <3>2. book.filled \in Nat /\ book.filled <= Quantity
      BY <1>1 DEF StepInv, Inv, SubmissionInv, StreamInv
    <3>3. book.filled = Quantity
      BY <2>1, <3>1, <3>2, QuantityAssumption
    <3>4. book.status = "FILLED"
      BY <1>1, <3>3 DEF StepInv, StreamInv
    <3> QED BY <2>1, <2>2, <3>1, <3>3, <3>4 DEF NeverAheadOfBroker
  <2>3. CASE row.status \in Ends
    <3>1. PICK i \in Applied : /\ stream[i].type \in EndTypes
                               /\ EndOf(stream[i].type) = row.status
                               /\ inOrder => 1 .. i - 1 \subseteq Applied
      BY <1>1, <2>3 DEF StepInv, RowInv, Locked, Ends
    <3>2. i = Len(stream) /\ book.status = row.status
      BY <1>1, <3>1 DEF StepInv, StreamInv, Applied
    <3>3. DOMAIN stream = 1 .. Len(stream) /\ Len(stream) \in Nat
      BY <1>1 DEF StepInv, Inv, ClockInv
    <3>4. inOrder => Applied = DOMAIN stream
      <4> SUFFICES ASSUME inOrder, NEW j \in DOMAIN stream PROVE j \in Applied
        BY DEF Applied
      <4>1. j = i \/ j \in 1 .. i - 1
        BY <3>2, <3>3
      <4> QED BY <3>1, <4>1
    <3>5. inOrder => row.filled = book.filled
      BY <1>1, <2>3, <3>4, AppliedFills DEF Ends, Locked
    <3> QED BY <2>1, <3>2, <3>5 DEF NeverAheadOfBroker
  <2> QED BY <2>1, <2>2, <2>3 DEF NeverAheadOfBroker, Ends
<1> QED BY <1>1, StepAlways, PTL

-----------------------------------------------------------------------------
(* An order the broker knows nothing of, and that was not given to it. *)
LEMMA UnsentIsSafe ==
  ASSUME placed = 0, row.broker = NoBroker, row.status \in BeforeSubmission
  PROVE  Safe
<1>1. BrokerReport = <<>>
  BY DEF BrokerReport
<1>2. \A i \in DOMAIN LocalOrders :
        LocalOrders[i].broker = NoBroker /\ LocalOrders[i].status \in R!PreBrokerStates
  BY DEF LocalOrders, R!PreBrokerStates, BeforeSubmission
<1>3. R!FirstOf(LocalOrders) = {} /\ R!FirstOf(BrokerReport) = {}
  BY <1>1, <1>2 DEF R!FirstOf
<1>4. R!Matched(LocalOrders, BrokerReport) = {}
  BY <1>3 DEF R!Matched
<1>5. R!Repeated(LocalOrders) = {} /\ R!Repeated(BrokerReport) = {}
  BY <1>1, <1>2 DEF R!Repeated
<1>6. R!Unassigned(LocalOrders) = {}
  BY <1>2 DEF R!Unassigned
<1>7. R!Mismatched(LocalOrders, BrokerReport) = {}
  BY <1>4 DEF R!Mismatched
<1>8. R!ReconcileIssues(LocalOrders, BrokerReport) = {}
  BY <1>3, <1>5, <1>6, <1>7 DEF R!ReconcileIssues
<1> QED BY <1>8 DEF Safe, R!SafeToTrade

(* An order both sides know, and agree about. *)
LEMMA AgreedIsSafe ==
  ASSUME exists, placed = 1, row.broker = BrokerId,
         row.filled = book.filled, row.status = book.status
  PROVE  Safe
<1>1. /\ DOMAIN LocalOrders = {1} /\ DOMAIN BrokerReport = {1}
      /\ LocalOrders[1].broker = BrokerId /\ BrokerReport[1].broker = BrokerId
      /\ LocalOrders[1].filled = BrokerReport[1].filled
      /\ LocalOrders[1].status = BrokerReport[1].status
      /\ LocalOrders[1].quantity = BrokerReport[1].quantity
  BY DEF LocalOrders, BrokerReport
<1>2. \A j \in 1 .. 1 - 1 : FALSE
  OBVIOUS
<1>3. R!FirstOf(LocalOrders) = {1} /\ R!FirstOf(BrokerReport) = {1}
  BY <1>1, <1>2, BrokerAssumption DEF R!FirstOf
<1>4. R!Matched(LocalOrders, BrokerReport) = {<<1, 1>>}
  BY <1>1, <1>3 DEF R!Matched
<1>5. R!Repeated(LocalOrders) = {} /\ R!Repeated(BrokerReport) = {}
  BY <1>1, <1>3 DEF R!Repeated
<1>6. R!Unassigned(LocalOrders) = {}
  BY <1>1, BrokerAssumption DEF R!Unassigned
<1>7. R!Mismatched(LocalOrders, BrokerReport) = {}
  BY <1>1, <1>4 DEF R!Mismatched
<1>8. R!FirstOf(LocalOrders) \ {p[1] : p \in R!Matched(LocalOrders, BrokerReport)} = {}
      /\ R!FirstOf(BrokerReport) \ {p[2] : p \in R!Matched(LocalOrders, BrokerReport)} = {}
  BY <1>3, <1>4
<1>9. R!ReconcileIssues(LocalOrders, BrokerReport) = {}
  BY <1>5, <1>6, <1>7, <1>8 DEF R!ReconcileIssues
<1> QED BY <1>9 DEF Safe, R!SafeToTrade

(* An order whose callbacks are all recorded reconciles with the broker      *)
(* (state_machine.py:108-150 against reconciliation.py:55-136), for every    *)
(* quantity and stream: nothing is lost but what was refused or never told.  *)
THEOREM DrainedReconciles == Spec => []DrainedMeansReconciled
<1>1. ASSUME StepInv, seen = DOMAIN stream, refused = {}, book.status \notin Working,
             row.status \notin {"SUBMITTING", "RECONCILIATION_REQUIRED"}
      PROVE  Safe
  <2>1. Applied = DOMAIN stream /\ placed \in {0, 1} /\ row.status # Locked
    BY <1>1 DEF StepInv, DeliveryInv, Applied, Inv, SubmissionInv, Locked
  <2>2. CASE placed = 0
    <3>1. row.broker = NoBroker /\ row.status \in BeforeSubmission
      BY <1>1, <2>2 DEF StepInv, Inv, KnowledgeInv, RowInv, Unsent, Locked
    <3> QED BY <2>2, <3>1, UnsentIsSafe
  <2>3. CASE placed = 1
    <3>1. book.status \in Ends \cup {"FILLED"} /\ stream # <<>>
      BY <1>1, <2>3 DEF StepInv, StreamInv, Inv, SubmissionInv, BookStatuses, Working, Ends
    <3>2. Applied # {}
      BY <1>1, <2>1, <3>1 DEF StepInv, Inv, ClockInv
    <3>3. row.broker = BrokerId
      BY <1>1, <2>1, <3>2 DEF StepInv, RowInv
    <3>4. exists
      BY <1>1, <3>3, BrokerAssumption DEF StepInv, Inv, KnowledgeInv, InitialRow
    <3>5. row.filled = book.filled
      BY <1>1, <2>1, AppliedFills
    <3>6. row.status = book.status
      <4>1. CASE book.status = "FILLED"
        BY <1>1, <2>1, <3>5, <4>1 DEF StepInv, StreamInv, RowInv
      <4>2. CASE book.status \in Ends
        <5>1. PICK i \in DOMAIN stream :
                stream[i].type \in EndTypes /\ EndOf(stream[i].type) = book.status
          BY <1>1, <4>2 DEF StepInv, StreamInv
        <5> QED BY <1>1, <2>1, <5>1 DEF StepInv, RowInv
      <4> QED BY <3>1, <4>1, <4>2
    <3> QED BY <2>3, <3>3, <3>4, <3>5, <3>6, AgreedIsSafe
  <2> QED BY <2>1, <2>2, <2>3
<1>2. StepInv => DrainedMeansReconciled
  BY <1>1 DEF DrainedMeansReconciled
<1> QED BY <1>2, StepAlways, PTL

-----------------------------------------------------------------------------
(* A fill that is refused in order finds the submission unconfirmed, or the  *)
(* order locked: an end is the last callback, and a filled order has no      *)
(* quantity left for another fill.                                           *)
RefusedFillsExcused ==
  \A i \in refused' : inOrder /\ stream'[i].type = "FILL" =>
    i \in refused \/ row.status \in {"SUBMITTING", "RECONCILIATION_REQUIRED"}

LEMMA RefusedFill ==
  ASSUME StepInv, NEW i \in DOMAIN stream, i \notin Applied, inOrder,
         1 .. i - 1 \subseteq seen \ refused,
         stream[i].type = "FILL", Refused(row, stream[i])
  PROVE  row.status \in {"SUBMITTING", "RECONCILIATION_REQUIRED"}
<1> SUFFICES ASSUME row.status # "SUBMITTING", row.status # Locked PROVE FALSE
  BY DEF Locked
<1>1. stream[i].qty > 0 /\ stream[i].qty \in Nat /\ placed = 1 /\ row.status \notin BeforeSubmission
  <2>1. stream[i] \in StreamEvents
    BY DEF StepInv, Inv, ClockInv
  <2>2. stream[i].qty \in Nat
    BY <2>1 DEF StreamEvents
  <2> QED BY <2>2 DEF StepInv, StreamInv, Inv, SubmissionInv
<1>2. row.status \in Ends \cup {"FILLED"}
  <2>1. row.status \in OrderStatuses
    BY DEF StepInv, Inv, ClockInv, Rows
  <2> QED BY <1>1, <2>1 DEF Refused, Allowed, Fillable, OrderStatuses, Ends, BeforeSubmission, Locked
<1>3. CASE row.status = "FILLED"
  <2>1. PICK f : FilledFrom(f)
    BY DEF StepInv, FillInv
  <2>2. /\ Applied \in SUBSET DOMAIN stream /\ Applied \cup {i} \in SUBSET DOMAIN stream
        /\ DOMAIN stream \in SUBSET DOMAIN stream /\ Applied \cup {i} \subseteq DOMAIN stream
    BY DEF Applied
  <2>3. f[Applied] = Quantity
    BY <1>3, <2>1 DEF FilledFrom, StepInv, RowInv
  <2>4. f[Applied \cup {i}] = f[Applied] + stream[i].qty
        /\ f[Applied \cup {i}] <= f[DOMAIN stream]
    BY <2>1, <2>2 DEF FilledFrom, Sums
  <2>5. f[DOMAIN stream] <= Quantity /\ f[DOMAIN stream] \in Nat
    BY <2>1, <2>2 DEF FilledFrom, Sums, StepInv, StreamInv
  <2> QED BY <1>1, <2>3, <2>4, <2>5, QuantityAssumption
<1>4. CASE row.status \in Ends
  <2>1. PICK j \in Applied : /\ stream[j].type \in EndTypes
                             /\ 1 .. j - 1 \subseteq Applied
    BY <1>4 DEF StepInv, RowInv
  <2>2. j = Len(stream)
    BY <2>1 DEF StepInv, StreamInv, Applied
  <2>3. DOMAIN stream = 1 .. Len(stream) /\ Len(stream) \in Nat
    BY DEF StepInv, Inv, ClockInv
  <2>4. i = j \/ i \in 1 .. j - 1
    BY <2>2, <2>3
  <2> QED BY <2>1, <2>4
<1> QED BY <1>2, <1>3, <1>4

(* The fills of an in-order stream are kept (state_machine.py:132-144, with  *)
(* docs/architecture/order-lifecycle.md:9-11), for every quantity, stream    *)
(* and course of deliveries.                                                 *)
THEOREM FillsAreKept == Spec => InOrderFillsKept
<1>1. StepInv /\ [Next]_vars => [RefusedFillsExcused]_vars
  <2> SUFFICES ASSUME StepInv, Next, NEW i \in refused', i \notin refused, inOrder,
                      stream'[i].type = "FILL"
               PROVE  row.status \in {"SUBMITTING", "RECONCILIATION_REQUIRED"}
    BY DEF RefusedFillsExcused
  <2>1. PICK j \in DOMAIN stream : Deliver(j)
    <3>1. ASSUME ~\E j \in DOMAIN stream : Deliver(j) PROVE refused' = refused
      BY <3>1 DEF Next, Create, Decide, Submit, DispatchRefused, BrokerReceives, Confirm, Uncertain,
           CoordinatorDies, RequestCancel, RecordLocal, BrokerAcks, BrokerFills, BrokerRejects,
           BrokerExpires, BrokerCancels, Emit, Tick, handler
    <3> QED BY <3>1
  <2>2. stream' = stream /\ (1 .. j - 1 \subseteq seen \ refused)
    BY <2>1 DEF Deliver, broker
  <2>3. i = j /\ ~Duplicate(stream[j]) /\ Refused(row, stream[j])
    BY <2>1 DEF Deliver
  <2>4. i \notin Applied
    BY <2>3 DEF StepInv, StreamInv, Applied, Duplicate
  <2> QED BY <2>1, <2>2, <2>3, <2>4, RefusedFill
<1>2. Spec => [][RefusedFillsExcused]_vars
  BY <1>1, StepAlways, PTL DEF Spec
<1> QED BY <1>2 DEF InOrderFillsKept, RefusedFillsExcused
=============================================================================
