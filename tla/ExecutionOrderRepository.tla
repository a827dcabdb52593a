---------------------- MODULE ExecutionOrderRepository ----------------------
(***************************************************************************)
(* packages/execution/repository.py: several callers, each in a database   *)
(* transaction of its own (PostgreSQL, READ COMMITTED), apply events to    *)
(* one order.  apply() reads the row and the event ids with two statements,*)
(* runs the reducer in memory, updates the row where the version is still  *)
(* the one it read, inserts the event, and leaves the commit to its caller.*)
(* A caller may roll back, or die, between any two of these steps.         *)
(***************************************************************************)
EXTENDS OrderLedger

CONSTANTS Workers, NoWorker

ASSUME WorkersAssumption == NoWorker \notin Workers

VARIABLES
  holder,   \* the transaction that holds the row lock
  pc,       \* where each caller is in apply(), or how its last call ended
  evt,      \* the event each caller passed
  base      \* the row each caller read

durable == <<exists, row, log>>
vars == <<exists, row, log, holder, pc, evt, base>>

Running == {"loaded", "reduced", "updated"}
Ended == {"idle", "duplicate", "refused", "conflict", "applied"}

Init ==
  /\ LedgerInit
  /\ holder = NoWorker
  /\ pc = [w \in Workers |-> "idle"]
  /\ evt = [w \in Workers |-> CHOOSE e \in Events : TRUE]
  /\ base = [w \in Workers |-> InitialRow]

Goto(w, label) == pc' = [pc EXCEPT ![w] = label]

(* create(): insert the row; a second insert violates the primary key. *)
Create(w) ==
  /\ pc[w] \in Ended
  /\ Open
  /\ UNCHANGED <<holder, pc, evt, base>>

(* apply() begins: load() reads the committed row (LookupError if none). *)
LoadRecord(w, e) ==
  /\ pc[w] \in Ended
  /\ exists
  /\ Goto(w, "loaded")
  /\ evt' = [evt EXCEPT ![w] = e]
  /\ base' = [base EXCEPT ![w] = row]
  /\ UNCHANGED <<durable, holder>>

(* A slip the runs must notice: the event ids are not looked at. *)
LoadEventIdsUnused(w) ==
  /\ pc[w] = "loaded"
  /\ Goto(w, IF Refused(base[w], evt[w]) THEN "refused" ELSE "reduced")
  /\ UNCHANGED <<durable, holder, evt, base>>

(* load() reads the event ids with a second statement, possibly newer than *)
(* the row, and the reducer runs on the pair.                              *)
LoadEventIds(w) ==
  /\ pc[w] = "loaded"
  /\ Goto(w, IF Duplicate(evt[w]) THEN "duplicate"
             ELSE IF Refused(base[w], evt[w]) THEN "refused"
             ELSE "reduced")
  /\ UNCHANGED <<durable, holder, evt, base>>

(* A slip the runs must notice: an UPDATE without the version in its WHERE. *)
UpdateRowBlindly(w) ==
  /\ pc[w] = "reduced"
  /\ holder = NoWorker
  /\ holder' = w /\ Goto(w, "updated")
  /\ UNCHANGED <<durable, evt, base>>

(* UPDATE ... WHERE version = current.version: waits for the row lock, then *)
(* matches or raises RuntimeError; the event row is inserted right after.   *)
UpdateRow(w) ==
  /\ pc[w] = "reduced"
  /\ holder = NoWorker
  /\ IF row.version = base[w].version
     THEN holder' = w /\ Goto(w, "updated")
     ELSE Goto(w, "conflict") /\ UNCHANGED holder
  /\ UNCHANGED <<durable, evt, base>>

(* A slip the runs must notice: the reason is not among the updated columns. *)
CommitWithoutReason(w) ==
  /\ pc[w] = "updated"
  /\ row' = [ApplyOrderEvent(base[w], evt[w]) EXCEPT !.reason = row.reason]
  /\ log' = log \cup {[event |-> evt[w], version |-> row'.version]}
  /\ holder' = NoWorker
  /\ Goto(w, "applied")
  /\ UNCHANGED <<exists, evt, base>>

(* The caller commits: row and event become durable together. *)
Commit(w) ==
  /\ pc[w] = "updated"
  /\ row' = ApplyOrderEvent(base[w], evt[w])
  /\ log' = log \cup {[event |-> evt[w], version |-> row'.version]}
  /\ holder' = NoWorker
  /\ Goto(w, "applied")
  /\ UNCHANGED <<exists, evt, base>>

(* The caller rolls back, is cancelled, or its process dies. *)
Rollback(w) ==
  /\ pc[w] \in Running
  /\ Goto(w, "idle")
  /\ holder' = IF holder = w THEN NoWorker ELSE holder
  /\ UNCHANGED <<durable, evt, base>>

Next ==
  \E w \in Workers :
    \/ Create(w)
    \/ \E e \in Events : LoadRecord(w, e)
    \/ LoadEventIds(w)
    \/ UpdateRow(w)
    \/ Commit(w)
    \/ Rollback(w)

Spec == Init /\ [][Next]_vars

-----------------------------------------------------------------------------
(* Every variable stays in its type. *)
TypeOK ==
  /\ exists \in BOOLEAN
  /\ row \in OrderRows
  /\ log \subseteq [event : Events, version : Nat]
  /\ holder \in Workers \cup {NoWorker}
  /\ pc \in [Workers -> Running \cup Ended]
  /\ evt \in [Workers -> Events]
  /\ base \in [Workers -> OrderRows]

(* However callers interleave, the durable fill never exceeds the order, and *)
(* the status says what was filled: FILLED exactly when all of it is (unless *)
(* the order is under reconciliation), a partial, pending or cancelled order *)
(* has something left, and no fill is left behind in a state that never had  *)
(* one (state_machine.py:121-128, repository.py:83-84).                      *)
FilledAsStatusSays(s) ==
  /\ s.filled <= Quantity
  /\ s.status = "FILLED" => s.filled = Quantity
  /\ s.status = "PARTIALLY_FILLED" => s.filled > 0
  /\ s.status \in {"PARTIALLY_FILLED", "CANCEL_PENDING", "CANCELLED"} =>
       s.filled < Quantity
  /\ s.status \notin {"PARTIALLY_FILLED", "CANCEL_PENDING", "CANCELLED",
                      "FILLED", "RECONCILIATION_REQUIRED"} => s.filled = 0

FillsMatchStatus == FilledAsStatusSays(row)

(* The event log has no gap, no fork and no duplicate: its versions are      *)
(* exactly 1 .. row.version, one entry each, and no event id is in it twice  *)
(* (the optimistic version and the insert of repository.py:76-103).          *)
LogIsAHistory ==
  /\ \A x \in log : x.version \in 1 .. row.version
  /\ \A v \in 1 .. row.version : \E x \in log : x.version = v
  /\ \A x, y \in log : (x.version = y.version \/ x.event.id = y.event.id) => x = y

(* Restart reconstruction: applying the logged events in version order to a  *)
(* new order refuses none of them and gives exactly the durable row          *)
(* (repository.py:107-126).                                                  *)
LogReplaysToRow ==
  LET At(v) == (CHOOSE x \in log : x.version = v).event
      replay[v \in 0 .. row.version] ==
        IF v = 0 THEN InitialRow ELSE ApplyOrderEvent(replay[v - 1], At(v))
  IN /\ replay[row.version] = row
     /\ \A v \in 1 .. row.version : ~Refused(replay[v - 1], At(v))

(* A caller whose UPDATE matched holds the only right to write: what it read *)
(* is still what is durable, and the event it inserts is new, so the insert  *)
(* never meets the unique constraint.  And nobody else holds the row lock:   *)
(* a call that waits for it waits for a caller who can end its transaction   *)
(* (repository.py:76-104).                                                   *)
WriterIsCurrent ==
  /\ \A w \in Workers : pc[w] = "updated" =>
       /\ holder = w
       /\ base[w] = row
       /\ ~Duplicate(evt[w])
  /\ holder # NoWorker => pc[holder] = "updated"

Terminal == {"RISK_REJECTED", "FILLED", "CANCELLED", "REJECTED", "EXPIRED"}

(* A terminal order never trades again: it can only be put under             *)
(* reconciliation, and an order under reconciliation stays there, whatever   *)
(* events arrive (state_machine.py:79-98, 153-161).                          *)
TerminalIsFinal ==
  [][ /\ row.status \in Terminal =>
           /\ row'.status \in {row.status, "RECONCILIATION_REQUIRED"}
           /\ row'.filled = row.filled
      /\ row.status = "RECONCILIATION_REQUIRED" =>
           row'.status = row.status /\ row'.filled = row.filled ]_vars
=============================================================================
