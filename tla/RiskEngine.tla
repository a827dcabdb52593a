----------------------------- MODULE RiskEngine -----------------------------
(***************************************************************************)
(* evaluate_order_risk of packages/risk_engine/engine.py: a pure function  *)
(* from an intent, a portfolio context and limits to a decision.  Fractions*)
(* are percentages; quantities are counted in the smallest unit the        *)
(* database keeps, so a division rounds down to it.                        *)
(***************************************************************************)
EXTENDS Integers, FiniteSetsExt

Absolute(x) == IF x < 0 THEN -x ELSE x

Decision(outcome, quantity, reasons) ==
  [outcome |-> outcome, quantity |-> quantity, reasons |-> reasons]

Rejected(reasons) == Decision("REJECTED", 0, reasons)

Approves(d) == d.outcome \in {"APPROVED", "RESIZED"}

(* A slip the runs must notice: an exit larger than the position. *)
EvaluateExitUnbounded(intent, context) ==
  LET closing == IF context.position > 0 THEN "SELL" ELSE "BUY"
  IN IF context.position = 0 THEN Rejected({"NO_POSITION_TO_EXIT"})
     ELSE IF intent.side # closing THEN Rejected({"EXIT_INCREASES_POSITION"})
     ELSE Decision("APPROVED", intent.quantity, {"EXIT_APPROVED"})

(* The exit path: bounded by the position, blind to every entry lock. *)
EvaluateExit(intent, context) ==
  LET available == Absolute(context.position)
      closing == IF context.position > 0 THEN "SELL" ELSE "BUY"
  IN IF available = 0 THEN Rejected({"NO_POSITION_TO_EXIT"})
     ELSE IF intent.side # closing THEN Rejected({"EXIT_INCREASES_POSITION"})
     ELSE IF intent.quantity <= available
     THEN Decision("APPROVED", intent.quantity, {"EXIT_APPROVED"})
     ELSE Decision("RESIZED", available, {"EXIT_RESIZED_TO_POSITION"})

(* Every lock, with the condition that sets it. *)
LockConditions(c, limits) ==
  LET age == c.now - c.quoteAt
  IN { <<"KILL_SWITCH", c.killSwitch>>,
       <<"BROKER_DISCONNECTED", ~c.brokerConnected>>,
       <<"RECONCILIATION_UNCERTAIN", ~c.reconciliationOk>>,
       <<"DATA_QUALITY_LOCK", ~c.dataQualityOk>>,
       <<"OUTSIDE_TRADING_SESSION", ~c.sessionOpen>>,
       <<"EVENT_RISK_LOCK", c.eventLock>>,
       <<"STALE_QUOTE", age < 0 \/ age > limits.quoteAge>>,
       <<"ABNORMAL_SPREAD",
         (c.ask - c.bid) * 20000 > limits.spreadBps * (c.ask + c.bid)>>,
       <<"MAXIMUM_DAILY_LOSS", c.dailyPnl * 100 <= -(c.equity * limits.dailyLoss)>>,
       <<"MAXIMUM_WEEKLY_LOSS", c.weeklyPnl * 100 <= -(c.equity * limits.weeklyLoss)>>,
       <<"MAXIMUM_DRAWDOWN", c.drawdown >= limits.drawdown>>,
       <<"MAXIMUM_OPEN_POSITIONS", c.openPositions >= limits.openPositions>>,
       <<"MAXIMUM_NET_EXPOSURE", Absolute(c.net) * 100 >= c.equity * limits.net>>,
       <<"MAXIMUM_ORDER_RATE", c.ordersLastMinute >= limits.ordersPerMinute>>,
       <<"CONSECUTIVE_LOSS_CIRCUIT_BREAKER", c.losses >= limits.losses>>,
       <<"SLIPPAGE_THRESHOLD", c.slippageBps > limits.slippageBps>>,
       <<"MAXIMUM_OPTIONS_EXPOSURE", c.options + c.addedOptions > limits.options>>,
       <<"MAXIMUM_PORTFOLIO_DELTA", Absolute(c.delta + c.addedDelta) > limits.delta>>,
       <<"MAXIMUM_PORTFOLIO_GAMMA", Absolute(c.gamma + c.addedGamma) > limits.gamma>>,
       <<"RISK_COOLDOWN", c.now < c.cooldownUntil>> }

EntryLocks(context, limits) ==
  {l[1] : l \in {l \in LockConditions(context, limits) : l[2]}}

(* The ceilings the order would break. *)
ExceededExposures(intent, context, limits, price) ==
  LET notional == intent.quantity * price
      signed == IF intent.side = "BUY" THEN notional ELSE -notional
      projected ==
        { <<"MAXIMUM_GROSS_EXPOSURE", context.gross + notional, limits.gross>>,
          <<"MAXIMUM_SECTOR_EXPOSURE", context.sector + notional, limits.sector>>,
          <<"MAXIMUM_STRATEGY_ALLOCATION", context.strategy + notional, limits.strategy>>,
          <<"MAXIMUM_NET_EXPOSURE", Absolute(context.net + signed), limits.net>> }
  IN {p[1] : p \in {p \in projected : p[2] * 100 > context.equity * p[3]}}

(* Sizing: what is asked, what the stop distance allows, what is left of    *)
(* the instrument's exposure.                                               *)
ApprovedQuantity(intent, context, limits, price, stop) ==
  LET ceiling == (context.equity * limits.instrument) \div 100
      headroom == Max({0, ceiling - Absolute(context.instrument)})
  IN Min({intent.quantity,
          (context.equity * limits.perTrade) \div (100 * Absolute(price - stop)),
          headroom \div price})

EvaluateEntry(intent, context, limits, price, stop) ==
  LET locks == EntryLocks(context, limits)
      exceeded == ExceededExposures(intent, context, limits, price)
      approved == ApprovedQuantity(intent, context, limits, price, stop)
  IN IF locks # {} THEN Rejected(locks)
     ELSE IF stop = 0 THEN Rejected({"STOP_REQUIRED"})
     ELSE IF stop = price THEN Rejected({"INVALID_STOP_DISTANCE"})
     ELSE IF exceeded # {} THEN Rejected(exceeded)
     ELSE IF approved <= 0 THEN Rejected({"NO_EXPOSURE_CAPACITY"})
     ELSE IF approved < intent.quantity
     THEN Decision("RESIZED", approved, {"POSITION_SIZE_REDUCED"})
     ELSE Decision("APPROVED", approved, {"APPROVED"})

EvaluateOrderRisk(intent, context, limits, price, stop) ==
  IF context.equity <= 0 \/ price <= 0 THEN Rejected({"INVALID_CAPITAL_OR_PRICE"})
  ELSE IF context.bid <= 0 \/ context.ask < context.bid THEN Rejected({"INVALID_QUOTE"})
  ELSE IF intent.exit THEN EvaluateExit(intent, context)
  ELSE EvaluateEntry(intent, context, limits, price, stop)
=============================================================================
