---------------------------- MODULE OrderLedger ----------------------------
(***************************************************************************)
(* What the execution repository promises its callers: an order is created *)
(* once, and from then on every durable change is one application of the   *)
(* reducer, by one event with a new id, to the state durable just before   *)
(* it, recorded in the event log with the version it produced.             *)
(***************************************************************************)
EXTENDS OrderStateMachine

VARIABLES
  exists,   \* the order has been created
  row,      \* its durable state
  log       \* its durable events, each with the version it resulted in

ProcessedIds(entries) == {x.event.id : x \in entries}

(* A slip the runs must notice: event ids are not looked up. *)
NeverDuplicate(e) == FALSE

(* The code's first check: an event id the order has processed is a no-op. *)
Duplicate(e) == e.id \in ProcessedIds(log)

LedgerInit ==
  /\ exists = FALSE
  /\ row = InitialRow
  /\ log = {}

Open ==
  /\ ~exists
  /\ exists' = TRUE
  /\ UNCHANGED <<row, log>>

Record(e) ==
  /\ exists
  /\ ~Duplicate(e)
  /\ ~Refused(row, e)
  /\ row' = ApplyOrderEvent(row, e)
  /\ log' = log \cup {[event |-> e, version |-> row'.version]}
  /\ UNCHANGED exists

LedgerNext == Open \/ \E e \in Events : Record(e)

LedgerSpec == LedgerInit /\ [][LedgerNext]_<<exists, row, log>>
=============================================================================
