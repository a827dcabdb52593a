---------------------------- MODULE Transactions ----------------------------
(***************************************************************************)
(* How the services of the platform use the database: a call reads with      *)
(* plain SELECTs at READ COMMITTED, keeps what it read, writes at the end,   *)
(* and is committed or rolled back as a whole.  No call reads after its      *)
(* first write, so that a write and the commit it waits for are one step.    *)
(***************************************************************************)
EXTENDS Naturals, Sequences

CONSTANTS
  Workers,    \* callers, each with a session of its own
  MaxCalls    \* bound: calls made

ASSUME CallsAssumption == MaxCalls \in Nat

VARIABLES
  overlap,    \* whether calls may overlap
  calls,      \* how many were made
  txn,        \* the call of each worker
  audits,     \* AuditEventRecord: committed audit events, in order
  told        \* what the last step answered a caller: at most one record

Closed == [at |-> "closed"]

CallsInit ==
  /\ overlap \in BOOLEAN
  /\ calls = 0
  /\ txn = [w \in Workers |-> Closed]
  /\ audits = <<>>
  /\ told = {}

Begin(w, t) ==
  /\ txn[w] = Closed
  /\ calls < MaxCalls
  /\ overlap \/ \A v \in Workers : txn[v] = Closed
  /\ calls' = calls + 1
  /\ txn' = [txn EXCEPT ![w] = t]
  /\ UNCHANGED overlap

Continue(w, t) ==
  /\ txn' = [txn EXCEPT ![w] = t]
  /\ UNCHANGED <<overlap, calls>>

End(w) == Continue(w, Closed)

Audit(event) == audits' = Append(audits, event)

(* A row that is written once: what it is about, and what it says. *)
Entry(key, content) == [key |-> key, content |-> content]

(* What a table says about a key. *)
Existing(table, key) == {r \in table : r.key = key}
=============================================================================
