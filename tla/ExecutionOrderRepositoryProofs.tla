------------------- MODULE ExecutionOrderRepositoryProofs -------------------
(***************************************************************************)
(* What holds of the execution repository for every order size, every set  *)
(* of events and every set of concurrent callers.  The argument is one     *)
(* inductive invariant: a snapshot that still has the durable version is   *)
(* the durable row, and the event checked against it is still unrecorded.  *)
(***************************************************************************)
EXTENDS ExecutionOrderRepository, WellFoundedInduction, TLAPS

-----------------------------------------------------------------------------
(* The reducer. *)

(* An allowed event other than a fill has a target status. *)
LEMMA TargetExists ==
  ASSUME NEW s \in OrderRows, NEW e \in Events, Allowed(s, e), e.type # "FILL"
  PROVE  /\ NextStatus(s, e) \in OrderStatuses
         /\ <<s.status, e.type, NextStatus(s, e)>> \in Transitions
<1>1. \E t \in OrderStatuses : <<s.status, e.type, t>> \in Transitions
  BY DEF Allowed
<1> QED
  BY <1>1 DEF NextStatus

(* The reducer returns a row (state_machine.py:141-161). *)
LEMMA AppliedType ==
  ASSUME NEW s \in OrderRows, NEW e \in Events, ~Refused(s, e)
  PROVE  ApplyOrderEvent(s, e) \in OrderRows
<1>1. WellFormedEvent(e) /\ e.broker \in BrokerIds
  BY EventsAssumption DEF BrokerIds
<1>2. ASSUME NEW why \in Reasons PROVE RequiresReconciliation(s, e, why) \in OrderRows
  <2>1. e.at \in Nat /\ s.lastAt \in Nat /\ s.version + 1 \in Nat
    BY <1>1 DEF OrderRows, WellFormedEvent
  <2>2. "RECONCILIATION_REQUIRED" \in OrderStatuses
    BY DEF OrderStatuses
  <2> DEFINE later == IF e.at > s.lastAt THEN e.at ELSE s.lastAt
  <2>3. later \in Nat
    BY <2>1
  <2>4. RequiresReconciliation(s, e, why) =
          [s EXCEPT !.status = "RECONCILIATION_REQUIRED", !.lastAt = later,
                    !.version = s.version + 1, !.reason = why]
    BY DEF RequiresReconciliation
  <2> HIDE DEF later
  <2> QED
    BY <2>1, <2>2, <2>3, <2>4 DEF OrderRows
<1>3. ASSUME Allowed(s, e) PROVE Advanced(s, e) \in OrderRows
  <2>1. NextStatus(s, e) \in OrderStatuses
    BY <1>3, TargetExists DEF NextStatus, OrderStatuses
  <2> QED
    BY <2>1, <1>1 DEF Advanced, OrderRows, WellFormedEvent, Reasons
<1>4. CASE Stale(s, e)
  BY <1>4, <1>2 DEF ApplyOrderEvent, Reasons
<1>5. CASE ~Stale(s, e) /\ ConflictingBroker(s, e)
  BY <1>5, <1>2 DEF ApplyOrderEvent, Reasons
<1>6. CASE ~Stale(s, e) /\ ~ConflictingBroker(s, e) /\ Overfills(s, e)
  BY <1>6, <1>2 DEF ApplyOrderEvent, Reasons
<1>7. CASE ~Stale(s, e) /\ ~ConflictingBroker(s, e) /\ ~Overfills(s, e)
  BY <1>7, <1>3 DEF ApplyOrderEvent, Refused
<1> QED
  BY <1>4, <1>5, <1>6, <1>7

(* Every application counts one version (state_machine.py:148, 159). *)
LEMMA AppliedVersion ==
  ASSUME NEW s \in OrderRows, NEW e \in Events
  PROVE  ApplyOrderEvent(s, e).version = s.version + 1
BY DEF ApplyOrderEvent, RequiresReconciliation, Advanced, OrderRows

(* The reducer keeps the fill within the order and the status true to it    *)
(* (state_machine.py:121-135).                                              *)
LEMMA AppliedFills ==
  ASSUME NEW s \in OrderRows, NEW e \in Events,
         FilledAsStatusSays(s), ~Refused(s, e)
  PROVE  FilledAsStatusSays(ApplyOrderEvent(s, e))
<1>1. WellFormedEvent(e) /\ Quantity \in Nat \ {0}
  BY EventsAssumption, QuantityAssumption
<1>2. ASSUME NEW why PROVE FilledAsStatusSays(RequiresReconciliation(s, e, why))
  BY DEF RequiresReconciliation, FilledAsStatusSays, OrderRows
<1>3. ASSUME Allowed(s, e), ~Overfills(s, e) PROVE FilledAsStatusSays(Advanced(s, e))
  <2>1. CASE e.type = "FILL"
    BY <2>1, <1>1, <1>3
    DEF Allowed, Overfills, Advanced, NextStatus, FilledAsStatusSays, Fillable,
        OrderRows, WellFormedEvent
  <2>2. CASE e.type # "FILL"
    <3> DEFINE t == NextStatus(s, e)
    <3>1. e.qty = 0
      BY <2>2, <1>1 DEF WellFormedEvent
    <3>2. t \in OrderStatuses /\ <<s.status, e.type, t>> \in Transitions
      BY <2>2, <1>3, TargetExists
    <3>3. Advanced(s, e).status = t /\ Advanced(s, e).filled = s.filled
      BY <3>1 DEF Advanced, OrderRows
    <3>4. /\ t \notin {"FILLED", "PARTIALLY_FILLED"}
          /\ t = "CANCEL_PENDING" =>
               s.status \in {"SUBMITTED", "ACKNOWLEDGED", "PARTIALLY_FILLED"}
          /\ t = "CANCELLED" => s.status = "CANCEL_PENDING"
          /\ t \notin {"CANCEL_PENDING", "CANCELLED", "RECONCILIATION_REQUIRED"} =>
               s.status \in {"CREATED", "RISK_PENDING", "APPROVED", "SUBMITTING",
                            "SUBMITTED", "ACKNOWLEDGED"}
      BY <3>2 DEF Transitions
    <3>5. s.filled \in Nat /\ s.status \in OrderStatuses
      BY DEF OrderRows
    <3> HIDE DEF t
    <3> QED
      BY <1>1, <3>2, <3>3, <3>4, <3>5 DEF FilledAsStatusSays, OrderStatuses
  <2> QED
    BY <2>1, <2>2
<1> QED
  BY <1>2, <1>3 DEF ApplyOrderEvent, Refused

(* An order under reconciliation is never taken out of it, and a terminal    *)
(* order can only be put into it; neither is filled any further.             *)
LEMMA AppliedTerminal ==
  ASSUME NEW s \in OrderRows, NEW e \in Events, ~Refused(s, e),
         s.status \in Terminal \cup {"RECONCILIATION_REQUIRED"}
  PROVE  /\ ApplyOrderEvent(s, e).status = "RECONCILIATION_REQUIRED"
         /\ ApplyOrderEvent(s, e).filled = s.filled
<1>1. ~Allowed(s, e)
  BY DEF Allowed, Fillable, Terminal, Transitions
<1>2. Stale(s, e) \/ ConflictingBroker(s, e)
  BY <1>1 DEF Refused
<1> QED
  BY <1>2 DEF ApplyOrderEvent, RequiresReconciliation, OrderRows

-----------------------------------------------------------------------------
(* The inductive invariant. *)

(* What a caller inside apply() may rely on: its snapshot is never newer     *)
(* than the row, a snapshot of the durable version is the durable row, and   *)
(* while that lasts the event it checked is still new.                       *)
SnapshotsSound ==
  \A w \in Workers : pc[w] \in Running =>
    /\ exists
    /\ base[w].version <= row.version
    /\ base[w].version = row.version => base[w] = row
    /\ pc[w] \in {"reduced", "updated"} =>
         /\ ~Refused(base[w], evt[w])
         /\ base[w].version = row.version => ~Duplicate(evt[w])
    /\ pc[w] = "updated" => holder = w /\ base[w].version = row.version

(* Whoever has the row lock has updated the row and can end its transaction. *)
LockIsOwned == holder # NoWorker => pc[holder] = "updated"

IInv == TypeOK /\ FillsMatchStatus /\ LogIsAHistory /\ SnapshotsSound /\ LockIsOwned

LEMMA InitIInv == Init => IInv
<1> SUFFICES ASSUME Init PROVE IInv
  OBVIOUS
<1>1. InitialRow \in OrderRows
  BY DEF InitialRow, OrderRows, OrderStatuses, Reasons, BrokerIds
<1>2. TypeOK
  BY <1>1, EventsAssumption DEF Init, LedgerInit, TypeOK, Running, Ended
<1>3. FillsMatchStatus
  BY QuantityAssumption
  DEF Init, LedgerInit, FillsMatchStatus, FilledAsStatusSays, InitialRow
<1>4. LogIsAHistory
  BY DEF Init, LedgerInit, LogIsAHistory, InitialRow
<1>5. SnapshotsSound
  BY DEF Init, SnapshotsSound, Running
<1>6. LockIsOwned
  BY DEF Init, LockIsOwned
<1> QED
  BY <1>2, <1>3, <1>4, <1>5, <1>6 DEF IInv

(* A commit is one step of the ledger: the caller's snapshot is the durable  *)
(* row and its event is new.                                                 *)
LEMMA CommitRecords ==
  ASSUME IInv, NEW w \in Workers, Commit(w)
  PROVE  evt[w] \in Events /\ Record(evt[w])
<1>1. pc[w] = "updated" /\ pc[w] \in Running
  BY DEF Commit, Running
<1>2. exists /\ base[w] = row /\ ~Refused(row, evt[w])
      /\ ~Duplicate(evt[w])
  BY <1>1 DEF IInv, SnapshotsSound
<1> QED
  BY <1>2 DEF Commit, Record, IInv, TypeOK

(* A ledger step keeps the row typed, the fills right and the log a history. *)
LEMMA RecordKeeps ==
  ASSUME IInv, NEW e \in Events, Record(e)
  PROVE  /\ row' \in OrderRows
         /\ row'.version = row.version + 1
         /\ log' \subseteq [event : Events, version : Nat]
         /\ FillsMatchStatus'
         /\ LogIsAHistory'
<1>1. row \in OrderRows /\ log \subseteq [event : Events, version : Nat]
  BY DEF IInv, TypeOK
<1>2. ~Refused(row, e) /\ row' = ApplyOrderEvent(row, e)
  BY DEF Record
<1>3. row' \in OrderRows
  BY <1>1, <1>2, AppliedType
<1>4. row'.version = row.version + 1 /\ row.version \in Nat /\ row'.version \in Nat
  BY <1>1, <1>2, <1>3, AppliedVersion DEF OrderRows
<1>5. FillsMatchStatus'
  BY <1>1, <1>2, AppliedFills DEF IInv, FillsMatchStatus
<1>6. log' = log \cup {[event |-> e, version |-> row'.version]}
  BY DEF Record
<1>7. log' \subseteq [event : Events, version : Nat]
  BY <1>1, <1>4, <1>6
<1>8. LogIsAHistory'
  <2>1. /\ \A x \in log : x.version \in 1 .. row.version
        /\ \A v \in 1 .. row.version : \E x \in log : x.version = v
        /\ \A x, y \in log : (x.version = y.version \/ x.event.id = y.event.id) => x = y
    BY DEF IInv, LogIsAHistory
  <2>3. \A x \in log : x.event.id # e.id
    BY DEF Record, Duplicate, ProcessedIds
  <2>4. /\ \A x \in log' : x.version \in 1 .. row'.version
        /\ \A v \in 1 .. row'.version : \E x \in log' : x.version = v
    <3> DEFINE new == [event |-> e, version |-> row'.version]
    <3>1. log' = log \cup {new} /\ new.version = row'.version
      BY <1>6
    <3> HIDE DEF new
    <3>2. \A v \in 1 .. row'.version : v \in 1 .. row.version \/ v = row'.version
      BY <1>4
    <3>3. \A v \in 1 .. row.version : v \in 1 .. row'.version
      BY <1>4
    <3>4. row'.version \in 1 .. row'.version
      BY <1>4
    <3> QED
      BY <3>1, <3>2, <3>3, <3>4, <2>1
  <2>5. \A x, y \in log' : (x.version = y.version \/ x.event.id = y.event.id) => x = y
    <3> DEFINE new == [event |-> e, version |-> row'.version]
    <3>1. \A x \in log : x.version # new.version /\ x.event.id # new.event.id
      BY <2>1, <2>3, <1>4
    <3>2. \A x \in log' : x \in log \/ x = new
      BY <1>6
    <3> HIDE DEF new
    <3> QED
      BY <2>1, <3>1, <3>2
  <2> QED
    BY <2>4, <2>5 DEF LogIsAHistory
<1> QED
  BY <1>3, <1>4, <1>5, <1>7, <1>8

(* Every step keeps the inductive invariant. *)
LEMMA NextIInv == IInv /\ [Next]_vars => IInv'
<1> SUFFICES ASSUME IInv, [Next]_vars PROVE IInv'
  OBVIOUS
<1> USE DEF IInv
<1>0. UNCHANGED durable => FillsMatchStatus' /\ LogIsAHistory'
  BY DEF durable, FillsMatchStatus, LogIsAHistory
<1>1. ASSUME NEW w \in Workers, Create(w) PROVE IInv'
  <2>1. TypeOK'
    BY <1>1 DEF Create, Open, TypeOK
  <2>2. FillsMatchStatus' /\ LogIsAHistory'
    BY <1>1 DEF Create, Open, FillsMatchStatus, LogIsAHistory
  <2>3. SnapshotsSound'
    BY <1>1 DEF Create, Open, SnapshotsSound, Duplicate
  <2>4. LockIsOwned'
    BY <1>1 DEF Create, LockIsOwned
  <2> QED
    BY <2>1, <2>2, <2>3, <2>4
<1>2. ASSUME NEW w \in Workers, NEW e \in Events, LoadRecord(w, e) PROVE IInv'
  <2>1. TypeOK'
    BY <1>2 DEF LoadRecord, Goto, durable, TypeOK, Running
  <2>2. row.version \in Nat
    BY DEF TypeOK, OrderRows
  <2>3. SnapshotsSound'
    BY <1>2, <2>2 DEF LoadRecord, Goto, durable, TypeOK, SnapshotsSound, Duplicate
  <2>4. LockIsOwned'
    BY <1>2 DEF LoadRecord, Goto, TypeOK, LockIsOwned, Ended
  <2> QED
    BY <1>0, <1>2, <2>1, <2>3, <2>4 DEF LoadRecord
<1>3. ASSUME NEW w \in Workers, LoadEventIds(w) PROVE IInv'
  <2>1. TypeOK'
    BY <1>3 DEF LoadEventIds, Goto, durable, TypeOK, Running, Ended
  <2>2. SnapshotsSound'
    BY <1>3 DEF LoadEventIds, Goto, durable, TypeOK, SnapshotsSound, Running, Duplicate
  <2>3. LockIsOwned'
    BY <1>3 DEF LoadEventIds, Goto, TypeOK, LockIsOwned
  <2> QED
    BY <1>0, <1>3, <2>1, <2>2, <2>3 DEF LoadEventIds
<1>4. ASSUME NEW w \in Workers, UpdateRow(w) PROVE IInv'
  <2>1. TypeOK'
    BY <1>4 DEF UpdateRow, Goto, durable, TypeOK, Running, Ended
  <2>2. SnapshotsSound'
    BY <1>4, WorkersAssumption
    DEF UpdateRow, Goto, durable, TypeOK, SnapshotsSound, Running, Duplicate
  <2>3. LockIsOwned'
    BY <1>4 DEF UpdateRow, Goto, TypeOK, LockIsOwned
  <2> QED
    BY <1>0, <1>4, <2>1, <2>2, <2>3 DEF UpdateRow
<1>5. ASSUME NEW w \in Workers, Commit(w) PROVE IInv'
  <2>1. evt[w] \in Events /\ Record(evt[w])
    BY <1>5, CommitRecords
  <2>2. /\ row' \in OrderRows
        /\ row'.version = row.version + 1
        /\ log' \subseteq [event : Events, version : Nat]
        /\ FillsMatchStatus'
        /\ LogIsAHistory'
    BY <2>1, RecordKeeps
  <2>3. TypeOK'
    BY <1>5, <2>2 DEF Commit, Goto, TypeOK, Running, Ended
  <2>4. SnapshotsSound'
    <3> SUFFICES ASSUME NEW v \in Workers, pc'[v] \in Running
                 PROVE  /\ exists'
                        /\ base'[v].version < row'.version
                        /\ pc'[v] \in {"reduced", "updated"} => ~Refused(base'[v], evt'[v])
                        /\ pc'[v] # "updated"
      BY <1>5, <2>2 DEF SnapshotsSound, TypeOK, OrderRows, Commit
    <3>1. v # w /\ pc[v] = pc'[v] /\ pc[w] = "updated"
      BY <1>5 DEF Commit, Goto, TypeOK, Running
    <3>2. exists /\ base[v].version <= row.version
      BY <3>1 DEF SnapshotsSound
    <3>3. base[v].version \in Nat /\ row.version \in Nat
      BY DEF TypeOK, OrderRows
    <3>4. pc[v] # "updated"
      BY <3>1 DEF SnapshotsSound, Running
    <3>5. pc[v] \in {"reduced", "updated"} => ~Refused(base[v], evt[v])
      BY <3>1 DEF SnapshotsSound
    <3> QED
      BY <1>5, <2>2, <3>1, <3>2, <3>3, <3>4, <3>5 DEF Commit
  <2>5. LockIsOwned'
    BY <1>5 DEF Commit, Goto, TypeOK, LockIsOwned
  <2> QED
    BY <2>2, <2>3, <2>4, <2>5
<1>6. ASSUME NEW w \in Workers, Rollback(w) PROVE IInv'
  <2>1. TypeOK'
    BY <1>6 DEF Rollback, Goto, durable, TypeOK, Ended
  <2>2. SnapshotsSound'
    <3>1. \A v \in Workers : pc'[v] \in Running => v # w /\ pc'[v] = pc[v]
      BY <1>6 DEF Rollback, Goto, TypeOK, Running
    <3>2. \A v \in Workers : v # w /\ pc[v] = "updated" => holder = v /\ holder' = v
      BY <1>6 DEF Rollback, SnapshotsSound, Running
    <3>3. durable' = durable /\ base' = base /\ evt' = evt
      BY <1>6 DEF Rollback, durable
    <3> SUFFICES ASSUME NEW v \in Workers, pc'[v] \in Running
                 PROVE  /\ exists
                        /\ base[v].version <= row.version
                        /\ base[v].version = row.version => base[v] = row
                        /\ pc[v] \in {"reduced", "updated"} =>
                             /\ ~Refused(base[v], evt[v])
                             /\ base[v].version = row.version =>
                                  ~Duplicate(evt[v])
                        /\ pc[v] = "updated" =>
                             holder' = v /\ base[v].version = row.version
      BY <3>1, <3>3 DEF durable, SnapshotsSound, Duplicate
    <3> QED
      BY <3>1, <3>2 DEF SnapshotsSound
  <2>3. LockIsOwned'
    BY <1>6 DEF Rollback, Goto, TypeOK, LockIsOwned
  <2> QED
    BY <1>0, <1>6, <2>1, <2>2, <2>3 DEF Rollback
<1>7. CASE UNCHANGED vars
  BY <1>7 DEF vars, TypeOK, FillsMatchStatus, LogIsAHistory, SnapshotsSound, LockIsOwned, Duplicate
<1> QED
  BY <1>1, <1>2, <1>3, <1>4, <1>5, <1>6, <1>7 DEF Next

LEMMA Invariance == Spec => []IInv
BY InitIInv, NextIInv, PTL DEF Spec

-----------------------------------------------------------------------------
(* Types are kept whatever the callers do. *)
THEOREM TypeCorrect == Spec => []TypeOK
BY Invariance, PTL DEF IInv

(* No interleaving of callers overfills an order or leaves a status that     *)
(* lies about its fill.                                                      *)
THEOREM FillsCorrect == Spec => []FillsMatchStatus
BY Invariance, PTL DEF IInv

(* The event log is a gapless history without duplicates. *)
THEOREM LogCorrect == Spec => []LogIsAHistory
BY Invariance, PTL DEF IInv

(* A caller past its UPDATE still holds the durable row and a new event, and *)
(* the row lock is nobody else's.                                            *)
THEOREM WriterCorrect == Spec => []WriterIsCurrent
<1>1. IInv => WriterIsCurrent
  BY DEF IInv, SnapshotsSound, LockIsOwned, WriterIsCurrent, Running
<1> QED
  BY <1>1, Invariance, PTL

-----------------------------------------------------------------------------
(* Restart reconstruction. *)

LEMMA LeastNumber ==
  ASSUME NEW S \in SUBSET Nat, S # {}
  PROVE  \E n \in S : \A m \in S : n <= m
<1>1. IsWellFoundedOn(OpToRel(<, Nat), Nat)
  BY NatLessThanWellFounded
<1>2. PICK n \in S : \A m \in S : ~(<<m, n>> \in OpToRel(<, Nat))
  BY <1>1, WFMin
<1>3. \A m \in S : ~(m < n)
  BY <1>2 DEF OpToRel
<1>4. n \in Nat /\ \A m \in S : m \in Nat /\ n <= m
  BY <1>3
<1> QED
  BY <1>4

LoggedAt(entries, v) == (CHOOSE x \in entries : x.version = v).event

(* The rows h[0], h[1], ... that lead to row s are the ones a replay passes. *)
LeadsTo(h, entries, s) ==
  /\ s.version \in Nat
  /\ h = [v \in 0 .. s.version |-> h[v]]
  /\ h[0] = InitialRow /\ h[s.version] = s
  /\ \A v \in 1 .. s.version : /\ h[v] = ApplyOrderEvent(h[v - 1], LoggedAt(entries, v))
                               /\ ~Refused(h[v - 1], LoggedAt(entries, v))

(* The durable row came about through the logged events. *)
RowHasHistory == \E h : LeadsTo(h, log, row)

(* What is logged at a version stays, and a commit logs its event at the next. *)
LEMMA LoggedStays ==
  ASSUME IInv, IInv', NEW e \in Events, Record(e)
  PROVE  /\ \A v \in 1 .. row.version : LoggedAt(log', v) = LoggedAt(log, v)
         /\ LoggedAt(log', row'.version) = e
<1> DEFINE new == [event |-> e, version |-> row'.version]
<1>1. log' = log \cup {new} /\ new.version = row'.version /\ new.event = e
  BY DEF Record
<1> HIDE DEF new
<1>2. \A x, y \in log' : x.version = y.version => x = y
  BY DEF IInv, LogIsAHistory
<1>3. ASSUME NEW v \in 1 .. row.version PROVE LoggedAt(log', v) = LoggedAt(log, v)
  <2>1. PICK x \in log : x.version = v
    BY DEF IInv, LogIsAHistory
  <2>2. x \in log' /\ \A y \in log' : y.version = v => y = x
    BY <1>1, <1>2, <2>1
  <2>3. (CHOOSE y \in log' : y.version = v) = x
    BY <2>1, <2>2
  <2>4. (CHOOSE y \in log : y.version = v) = x
    BY <1>1, <2>1, <2>2
  <2> QED
    BY <2>3, <2>4 DEF LoggedAt
<1>4. (CHOOSE y \in log' : y.version = row'.version) = new
  BY <1>1, <1>2
<1> QED
  BY <1>1, <1>3, <1>4 DEF LoggedAt

LEMMA RecordLeadsOn ==
  ASSUME IInv, IInv', NEW e \in Events, Record(e), RowHasHistory
  PROVE  RowHasHistory'
<1>1. PICK h : LeadsTo(h, log, row)
  BY DEF RowHasHistory
<1> DEFINE n == row.version
           g == [v \in 0 .. n + 1 |-> IF v = n + 1 THEN row' ELSE h[v]]
<1>2. n \in Nat /\ row'.version = n + 1 /\ row' = ApplyOrderEvent(row, e) /\ ~Refused(row, e)
  BY RecordKeeps DEF IInv, TypeOK, OrderRows, Record
<1>3. /\ \A v \in 1 .. n : LoggedAt(log', v) = LoggedAt(log, v)
      /\ LoggedAt(log', n + 1) = e
  BY <1>2, LoggedStays
<1>4. /\ h[0] = InitialRow /\ h[n] = row
      /\ \A v \in 1 .. n : /\ h[v] = ApplyOrderEvent(h[v - 1], LoggedAt(log, v))
                           /\ ~Refused(h[v - 1], LoggedAt(log, v))
  BY <1>1 DEF LeadsTo
<1>5. /\ g = [v \in 0 .. n + 1 |-> g[v]]
      /\ g[n + 1] = row' /\ \A v \in 0 .. n : g[v] = h[v]
  BY <1>2
<1> HIDE DEF g, n
<1>6. ASSUME NEW v \in 1 .. n + 1
      PROVE  g[v] = ApplyOrderEvent(g[v - 1], LoggedAt(log', v)) /\ ~Refused(g[v - 1], LoggedAt(log', v))
  <2>1. CASE v = n + 1
    <3>1. v - 1 = n /\ n \in 0 .. n
      BY <1>2, <2>1
    <3> QED
      BY <1>2, <1>3, <1>4, <1>5, <2>1, <3>1
  <2>2. CASE v \in 1 .. n
    <3>1. v \in 0 .. n /\ v - 1 \in 0 .. n
      BY <1>2, <2>2
    <3> QED
      BY <1>3, <1>4, <1>5, <2>2, <3>1
  <2> QED
    BY <1>2, <2>1, <2>2
<1>7. g[0] = InitialRow
  BY <1>2, <1>4, <1>5
<1>8. LeadsTo(g, log', row')
  BY <1>2, <1>5, <1>6, <1>7 DEF LeadsTo
<1> QED
  BY <1>8 DEF RowHasHistory

(* There is one way to replay a log. *)
LEMMA OneReplay ==
  ASSUME NEW h, LeadsTo(h, log, row)
  PROVE  LogReplaysToRow
<1> DEFINE n == row.version
           Step(f) == [v \in 0 .. n |-> IF v = 0 THEN InitialRow
                                         ELSE ApplyOrderEvent(f[v - 1], LoggedAt(log, v))]
           replay == CHOOSE f : f = Step(f)
<1>1. n \in Nat /\ h = Step(h)
  <2>1. n \in Nat /\ h = [v \in 0 .. n |-> h[v]]
    BY DEF LeadsTo
  <2>2. \A v \in 0 .. n : h[v] = IF v = 0 THEN InitialRow
                                  ELSE ApplyOrderEvent(h[v - 1], LoggedAt(log, v))
    <3>1. h[0] = InitialRow /\ \A v \in 1 .. n : h[v] = ApplyOrderEvent(h[v - 1], LoggedAt(log, v))
      BY DEF LeadsTo
    <3> HIDE DEF n
    <3>2. \A v \in 0 .. n : v = 0 \/ (v # 0 /\ v \in 1 .. n)
      BY <2>1
    <3> QED
      BY <3>1, <3>2
  <2> QED
    BY <2>1, <2>2
<1>2. replay = Step(replay)
  BY <1>1
<1> DEFINE r == replay
<1> HIDE DEF replay
<1>3. \A v \in 0 .. n : r[v] = h[v]
  <2> DEFINE D == {v \in 0 .. n : r[v] # h[v]}
  <2> SUFFICES ASSUME D # {} PROVE FALSE
    OBVIOUS
  <2>1. D \in SUBSET Nat
    BY <1>1
  <2>2. PICK v \in D : \A m \in D : v <= m
    <3> HIDE DEF D
    <3> QED
      BY <2>1, LeastNumber
  <2>3. v # 0
    BY <1>1, <1>2
  <2>4. v - 1 \in 0 .. n /\ r[v - 1] = h[v - 1]
    <3> HIDE DEF n, r
    <3>1. v \in Nat /\ v - 1 \in 0 .. n
      BY <1>1, <2>2, <2>3
    <3>2. v - 1 \notin D
      BY <2>2, <3>1
    <3> QED
      BY <3>1, <3>2
  <2>5. r[v] = ApplyOrderEvent(r[v - 1], LoggedAt(log, v))
    BY <1>1, <1>2, <2>2, <2>3
  <2>6. h[v] = ApplyOrderEvent(h[v - 1], LoggedAt(log, v))
    BY <1>1, <2>2, <2>3
  <2> QED
    BY <2>2, <2>4, <2>5, <2>6
<1>4. r[n] = row /\ \A v \in 1 .. n : ~Refused(r[v - 1], LoggedAt(log, v))
  <2>1. /\ h[n] = row
        /\ \A v \in 1 .. n : ~Refused(h[v - 1], LoggedAt(log, v))
    BY DEF LeadsTo
  <2> HIDE DEF n, r
  <2>2. n \in 0 .. n /\ \A v \in 1 .. n : v - 1 \in 0 .. n
    BY <1>1
  <2> QED
    BY <1>3, <2>1, <2>2
<1> QED
  BY <1>4 DEF LogReplaysToRow, LoggedAt, replay

(* A restart rebuilds exactly the durable row from the durable events,       *)
(* however many callers wrote it and wherever they were interrupted.         *)
THEOREM LogReplays == Spec => []LogReplaysToRow
<1>1. Init => RowHasHistory
  <2> SUFFICES ASSUME Init PROVE RowHasHistory
    OBVIOUS
  <2>1. row = InitialRow /\ row.version = 0
    BY DEF Init, LedgerInit, InitialRow
  <2>2. LeadsTo([v \in 0 .. 0 |-> InitialRow], log, row)
    BY <2>1 DEF LeadsTo
  <2> QED
    BY <2>2 DEF RowHasHistory
<1>2. IInv /\ IInv' /\ RowHasHistory /\ [Next]_vars => RowHasHistory'
  <2> SUFFICES ASSUME IInv, IInv', RowHasHistory, [Next]_vars PROVE RowHasHistory'
    OBVIOUS
  <2>1. ASSUME NEW w \in Workers, Commit(w) PROVE RowHasHistory'
    BY <2>1, CommitRecords, RecordLeadsOn
  <2>2. CASE UNCHANGED <<row, log>>
    BY <2>2 DEF RowHasHistory
  <2> QED
    BY <2>1, <2>2
    DEF Next, vars, durable, Create, Open, LoadRecord, LoadEventIds, UpdateRow, Rollback
<1>3. RowHasHistory => LogReplaysToRow
  BY OneReplay DEF RowHasHistory
<1> QED
  BY <1>1, <1>2, <1>3, Invariance, PTL DEF Spec

(* The concurrent repository implements the sequential ledger: every durable *)
(* change is one application of the reducer to the state durable before it.  *)
THEOREM ImplementsLedger == Spec => LedgerSpec
<1>1. Init => LedgerInit
  BY DEF Init
<1>2. IInv /\ [Next]_vars => [LedgerNext]_<<exists, row, log>>
  <2> SUFFICES ASSUME IInv, [Next]_vars PROVE [LedgerNext]_<<exists, row, log>>
    OBVIOUS
  <2>1. ASSUME NEW w \in Workers, Create(w) PROVE LedgerNext
    BY <2>1 DEF Create, LedgerNext
  <2>2. ASSUME NEW w \in Workers, Commit(w) PROVE LedgerNext
    BY <2>2, CommitRecords DEF LedgerNext
  <2>3. ASSUME NEW w \in Workers,
               (\E e \in Events : LoadRecord(w, e)) \/ LoadEventIds(w)
               \/ UpdateRow(w) \/ Rollback(w)
        PROVE  UNCHANGED <<exists, row, log>>
    BY <2>3 DEF LoadRecord, LoadEventIds, UpdateRow, Rollback, durable
  <2>4. CASE UNCHANGED vars
    BY <2>4 DEF vars
  <2> QED
    BY <2>1, <2>2, <2>3, <2>4 DEF Next
<1> QED
  BY <1>1, <1>2, Invariance, PTL DEF Spec, LedgerSpec

(* Terminal orders and orders under reconciliation never trade again. *)
THEOREM TerminalStaysFinal == Spec => TerminalIsFinal
<1> DEFINE Final ==
      /\ row.status \in Terminal =>
           /\ row'.status \in {row.status, "RECONCILIATION_REQUIRED"}
           /\ row'.filled = row.filled
      /\ row.status = "RECONCILIATION_REQUIRED" =>
           row'.status = row.status /\ row'.filled = row.filled
<1>1. ASSUME IInv, NEW e \in Events, Record(e) PROVE Final
  <2>1. row \in OrderRows /\ ~Refused(row, e) /\ row' = ApplyOrderEvent(row, e)
    BY <1>1 DEF IInv, TypeOK, Record
  <2> QED
    BY <2>1, AppliedTerminal
<1>2. ASSUME IInv, [LedgerNext]_<<exists, row, log>> PROVE Final
  BY <1>1, <1>2 DEF LedgerNext, Open
<1>3. IInv /\ [LedgerNext]_<<exists, row, log>> => [Final]_vars
  BY <1>2
<1> QED
  BY <1>3, Invariance, ImplementsLedger, PTL DEF LedgerSpec, TerminalIsFinal
=============================================================================
