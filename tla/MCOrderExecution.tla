-------------------------- MODULE MCOrderExecution --------------------------
(***************************************************************************)
(* A three-unit order, so that a cancellation can race partial fills, and  *)
(* three instants, so that callbacks can be older than local events.  Five *)
(* local events take the order to the broker; two more are left for cancel *)
(* requests.                                                               *)
(***************************************************************************)
EXTENDS OrderExecution

MCEvents ==
  {e \in [id : {"local", "broker"} \X (1 .. MaxLocal), type : EventTypes,
          at : 1 .. MaxTime, qty : 0 .. Quantity, broker : {BrokerId, NoBroker}] :
     WellFormedEvent(e)}
=============================================================================
