--------------------------- MODULE StrategyBacktest ---------------------------
(***************************************************************************)
(* A backtest whose provider runs the strategies: on every bar it has a      *)
(* snapshot classified, one strategy evaluated and its signal decided, or    *)
(* asks for an exit of its own.                                              *)
(***************************************************************************)
EXTENDS Backtest, Strategies

CONSTANTS
  Snapshots,   \* what may be known at a close, apart from the close itself
  Scores       \* the scores the signal may be given

ASSUME SnapshotsAssumption == Snapshots \subseteq Contexts

VARIABLE basis   \* the snapshot and the strategy behind the queued or open trade

NoBasis == [strategy |-> "none"]

SnapshotAt(m, c) == [m EXCEPT !.close = c.close]

ExitSignal ==
  [action |-> "EXIT", entry |-> NoPrice, stop |-> NoPrice, target |-> NoPrice, risk |-> 0,
   reasons |-> {}]

(* What the provider may answer at the close of a candle, and why.           *)
Answer(name, m, scores) ==
  LET d == Decide(Evaluate(name, m), scores)
  IN [decision |-> d,
      basis |-> IF d.action \in Entries THEN [strategy |-> name, market |-> m] ELSE NoBasis]

Answers ==
  [c \in Candles |->
     {Answer(name, SnapshotAt(m, c), scores) :
        name \in StrategyNames, m \in Snapshots, scores \in Scores}
     \cup {[decision |-> Decide(ExitSignal, scores), basis |-> NoBasis] : scores \in Scores}]

ASSUME AnswersAssumption ==
  \A c \in Candles : \A a \in Answers[c] : a.decision \in Decisions

SInit == Init /\ basis = NoBasis

(* The reason of an entry that was queued, or of the trade that is open.     *)
AnsweredBar ==
  \E c \in Candles : \E a \in Answers[c] :
    /\ BarWith(c, a.decision)
    /\ basis' = IF book'.pending.action \in Entries THEN a.basis
                ELSE IF book'.position = NoPosition THEN NoBasis ELSE basis

SNext == AnsweredBar \/ (Finish /\ UNCHANGED basis)

SSpec == SInit /\ [][SNext]_<<vars, basis>>

-----------------------------------------------------------------------------
Gain(direction, from, to) == IF direction = "LONG" THEN to - from ELSE from - to

(* Whether a reason is good for a trade of this direction, stop and target.  *)
Justified(reason, direction, stop, target) ==
  LET m == reason.market
  IN /\ reason # NoBasis
     /\ m.sessionAllowed /\ ~m.eventRisk /\ Liquidity(m) # "low_liquidity"
     /\ reason.strategy \in {"trend_continuation", "fvg_continuation"} =>
          Trend(m) = TrendOf(direction) /\ m.higherTimeframeTrend = TrendOf(direction)
     /\ Gain(direction, stop, m.close) > 0
     /\ Gain(direction, m.close, target) * 100 >= Gain(direction, stop, m.close) * MinRiskReward

(* Whether an open position has its stop and its target on their sides, and  *)
(* can lose no more at its stop than the policy risks of the equity.         *)
Bounded(p, equity) ==
  LET risk == Gain(p.direction, p.stop, p.price)
  IN /\ risk > 0
     /\ Gain(p.direction, p.price, p.target) > 0
     /\ risk * p.quantity * 100 <= equity * RiskCap

(* No trade is queued and no position open but on a snapshot that let it be: *)
(* in session, without event risk, liquid, with both trends where a strategy *)
(* follows them, and worth its risk at the close it was decided on; and what *)
(* is open can lose no more at its stop than the policy risks of the equity, *)
(* whatever the next open was (strategies/engine.py:134-144, decision_engine/ *)
(* engine.py:153-169, backtesting/engine.py:79-106, 323-354).                *)
PositionsAreJustified ==
  LET p == book.position
      d == book.pending
  IN /\ d.action \in Entries => Justified(basis, d.action, d.stop, d.target)
     /\ p # NoPosition =>
          Justified(basis, p.direction, p.stop, p.target) /\ Bounded(p, book.equity)
=============================================================================
