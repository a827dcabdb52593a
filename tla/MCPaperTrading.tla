--------------------------- MODULE MCPaperTrading ---------------------------
(***************************************************************************)
(* Two callers.  A buy, a sell that reverses it, and an exit of all that    *)
(* was bought; the exposure limit resizes both entries at the higher price. *)
(* Any order of them opens, reduces, closes, reverses or increases the      *)
(* position.  Prices are multiples of three and only one and two units are  *)
(* ever averaged, so that averages are exact.                               *)
(***************************************************************************)
EXTENDS PaperTrading, TLC

CONSTANTS W1, W2

MCWorkers == {W1, W2}

Intent(id, key, side, quantity, exit) ==
  [id |-> id, key |-> key, side |-> side, quantity |-> quantity, exit |-> exit]

MCIntents ==
  { Intent("enter", "k1", "BUY", 2, FALSE),
    Intent("turn", "k2", "SELL", 3, FALSE),
    Intent("leave", "k3", "SELL", 2, TRUE) }

MCPrices == {3, 6}

MCContext ==
  [position |-> 0, equity |-> 1000, bid |-> 4, ask |-> 4, now |-> 1, quoteAt |-> 1,
   killSwitch |-> FALSE, brokerConnected |-> TRUE, reconciliationOk |-> TRUE,
   dataQualityOk |-> TRUE, sessionOpen |-> TRUE, eventLock |-> FALSE,
   dailyPnl |-> 0, weeklyPnl |-> 0, drawdown |-> 0, openPositions |-> 0,
   net |-> 0, gross |-> 0, sector |-> 0, strategy |-> 0, instrument |-> 0,
   ordersLastMinute |-> 0, losses |-> 0, slippageBps |-> 0, options |-> 0,
   addedOptions |-> 0, delta |-> 0, addedDelta |-> 0, gamma |-> 0, addedGamma |-> 0,
   cooldownUntil |-> 0]

MCLimits ==
  [perTrade |-> 10, dailyLoss |-> 50, weeklyLoss |-> 100, drawdown |-> 100,
   openPositions |-> 9, instrument |-> 1, gross |-> 100, net |-> 100, sector |-> 100,
   strategy |-> 100, quoteAge |-> 5, spreadBps |-> 100, ordersPerMinute |-> 9, losses |-> 9,
   slippageBps |-> 100, options |-> 9, delta |-> 9, gamma |-> 9]

WorkerSymmetry == Permutations(MCWorkers)
=============================================================================
