-------------------------- MODULE MCSafetyControls --------------------------
(***************************************************************************)
(* Two callers.  One intent that is approved under the first limits, would   *)
(* be rejected under their revision and in a losing context, which also      *)
(* trips the switch; an operator who engages and releases it.  Two tokens of *)
(* operators, one of them rotated away, and a viewer's; the same revocation  *)
(* with other evidence, and another one.  Two versions of one model, one of  *)
(* them with other metadata a second time, one of another, and a prediction  *)
(* with two inputs.  Two datasets that one session id is asked for; an event *)
(* with two chains, another event about the moment of the first, and one     *)
(* that quotes the future.                                                   *)
(***************************************************************************)
EXTENDS SafetyControls, TLC

CONSTANTS W1, W2, D1, D2

MCWorkers == {W1, W2}

Row(type, value, from) == [type |-> type, value |-> value, enabled |-> TRUE, from |-> from]

MCLimitRows ==
  {Row(type, 50, 0) : type \in LimitTypes} \cup {Row("openPositions", 1, 2)}

MCSwitchRequests == { [enabled |-> TRUE, by |-> "engage"], [enabled |-> FALSE, by |-> "release"] }

Intent == [id |-> "enter", side |-> "BUY", quantity |-> 1, exit |-> FALSE]

CalmAt(time) ==
  [position |-> 0, equity |-> 1000, bid |-> 100, ask |-> 100, now |-> time, quoteAt |-> time,
   killSwitch |-> FALSE, brokerConnected |-> TRUE, reconciliationOk |-> TRUE,
   dataQualityOk |-> TRUE, sessionOpen |-> TRUE, eventLock |-> FALSE,
   dailyPnl |-> 0, weeklyPnl |-> 0, drawdown |-> 0, openPositions |-> 1,
   net |-> 0, gross |-> 0, sector |-> 0, strategy |-> 0, instrument |-> 0,
   ordersLastMinute |-> 0, losses |-> 0, slippageBps |-> 0, options |-> 0,
   addedOptions |-> 0, delta |-> 0, addedDelta |-> 0, gamma |-> 0, addedGamma |-> 0,
   cooldownUntil |-> 0]

Evaluation(context) == [intent |-> Intent, context |-> context, price |-> 100, stop |-> 90]

MCEvaluations ==
  { Evaluation(CalmAt(1)), Evaluation(CalmAt(2)),
    Evaluation([CalmAt(1) EXCEPT !.drawdown = 50]) }

Token(token, role, expires) == [token |-> token, role |-> role, expires |-> expires]

MCTokens ==
  { Token("operator", "operator", 9), Token("previous", "operator", 1),
    Token("viewer", "viewer", 9), Token("lost", "operator", 9) }

MCRevocations ==
  { [token |-> "previous", reason |-> "rotated", correlation |-> "r1"],
    [token |-> "previous", reason |-> "leaked", correlation |-> "r2"],
    [token |-> "operator", reason |-> "leaked", correlation |-> "r3"] }

Registration(name, version, metadata) ==
  [name |-> name, version |-> version, metadata |-> metadata]

MCRegistrations ==
  { Registration("trend", 1, "a"), Registration("trend", 2, "b"), Registration("trend", 2, "c"),
    Registration("range", 1, "d") }

MCPredictions ==
  { [id |-> "p", model |-> [name |-> "trend", version |-> 1], available |-> 0, at |-> 1,
     inputs |-> inputs] : inputs \in {"x", "y"} }

MCDatasets == {D1, D2}

MCSessionRequests == {[id |-> "s", dataset |-> candles] : candles \in MCDatasets}

Chain(at, quoteAt) ==
  [underlying |-> "index", expiry |-> 9, at |-> at,
   entries |-> {[underlying |-> "index", expiry |-> 9, quoteAt |-> quoteAt, greeksAt |-> at]}]

ChainEvent(source, event, chain) ==
  [source |-> source, event |-> event, chain |-> chain, raw |-> chain]

MCChainEvents ==
  { ChainEvent("a", "e", Chain(1, 1)), ChainEvent("a", "e", Chain(2, 1)),
    ChainEvent("a", "f", Chain(1, 0)), ChainEvent("a", "g", Chain(1, 2)) }

MCChainQueries == {[underlying |-> "index", expiry |-> 9, asOf |-> 1]}

Symmetry == Permutations(MCWorkers) \cup Permutations(MCDatasets)
=============================================================================
