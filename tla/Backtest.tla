------------------------------- MODULE Backtest -------------------------------
(***************************************************************************)
(* packages/backtesting/engine.py: run_backtest, bar by bar, for whatever    *)
(* candles come and whatever the decision provider says of them.             *)
(*                                                                         *)
(* A bar is one pass of the loop: the decision queued by the bar before is   *)
(* executed at the open, then stop and target are tested, then the provider  *)
(* is asked at the close.  Time is the number of the bar.  Prices, capital   *)
(* and hundredths are integers; the instances choose them so that slippage   *)
(* and costs divide evenly.                                                  *)
(***************************************************************************)
EXTENDS DecisionEngine, Sequences

CONSTANTS
  Candles,         \* records [open, high, low, close]
  Decisions,       \* what the provider may answer
  MaxBars,         \* bound: bars of a backtest
  InitialCapital,
  Slippage,        \* hundredths of the price, against the trade
  CostRate,        \* hundredths of the notional
  FlatCost,
  RiskCap,         \* hundredths of the equity a trade may risk
  NotionalCap      \* hundredths of the equity a position may be worth

ASSUME BacktestAssumption ==
  /\ MaxBars \in Nat /\ InitialCapital \in Nat \ {0}
  /\ {Slippage, CostRate, FlatCost, RiskCap, NotionalCap} \subseteq Nat /\ Slippage < 100
  /\ Candles # {} /\ Candles \subseteq [open : Int, high : Int, low : Int, close : Int]
  /\ \A c \in Candles : c.low > 0 /\ {c.open, c.close} \subseteq c.low .. c.high
  /\ Decisions \subseteq [action : Actions, stop : Int \cup {NoPrice},
                         target : Int \cup {NoPrice}, risk : Int]

VARIABLES
  bars,      \* bars seen
  candle,    \* the last of them
  book,      \* [position, pending, equity, trades, rejected]
  peak,
  curve,     \* marked equity after each bar
  draws,     \* drawdown after each bar [fall, peak]
  finished

vars == <<bars, candle, book, peak, curve, draws, finished>>

NoPosition == [direction |-> "NONE"]
NoDecision == [action |-> "NONE"]

Init ==
  /\ bars = 0 /\ candle = CHOOSE c \in Candles : TRUE
  /\ book = [position |-> NoPosition, pending |-> NoDecision, equity |-> InitialCapital,
             trades |-> <<>>, rejected |-> <<>>]
  /\ peak = InitialCapital
  /\ curve = <<>> /\ draws = <<>>
  /\ finished = FALSE

-----------------------------------------------------------------------------
Opposite(direction) == IF direction = "LONG" THEN "SHORT" ELSE "LONG"
Sign(direction) == IF direction = "LONG" THEN 1 ELSE -1

Slipped(price, direction) == price + Sign(direction) * ((price * Slippage) \div 100)

Cost(notional) == (notional * CostRate) \div 100 + FlatCost

(* Closing: the trade is the position with its way out. *)
TradeOf(p, at, raw, reason) ==
  LET exit == Slipped(raw, Opposite(p.direction))
  IN [direction |-> p.direction, quantity |-> p.quantity, signal |-> p.signal,
      entered |-> p.entered, exited |-> at, price |-> p.price, exit |-> exit,
      stop |-> p.stop, target |-> p.target, reason |-> reason,
      net |-> (exit - p.price) * p.quantity * Sign(p.direction)
              - p.cost - Cost(exit * p.quantity)]

ClosePosition(b, at, raw, reason) ==
  LET trade == TradeOf(b.position, at, raw, reason)
  IN [b EXCEPT !.position = NoPosition, !.trades = Append(@, trade), !.equity = @ + trade.net]

(* The risk policy: the stop and the target must still be on their sides of  *)
(* the fill, and a whole unit must be left of the equity's risk and worth.   *)
ValidAtFill(d, fill) ==
  IF d.action = "LONG" THEN d.stop < fill /\ fill < d.target
  ELSE fill < d.stop /\ d.target < fill

Sized(d, equity, fill) ==
  LET distance == IF d.stop < fill THEN fill - d.stop ELSE d.stop - fill
  IN Min({ (equity * Min({d.risk, RiskCap})) \div (100 * distance),
           (equity * NotionalCap) \div (100 * fill) })

Approves(d, equity, fill) ==
  /\ d.stop # NoPrice /\ d.target # NoPrice /\ d.risk > 0
  /\ ValidAtFill(d, fill)
  /\ Sized(d, equity, fill) > 0

Enter(b, at, d, open) ==
  LET fill == Slipped(open, d.action)
      quantity == Sized(d, b.equity, fill)
  IN IF Approves(d, b.equity, fill)
     THEN [b EXCEPT !.position =
            [direction |-> d.action, quantity |-> quantity, signal |-> d.at, entered |-> at,
             price |-> fill, stop |-> d.stop, target |-> d.target,
             cost |-> Cost(fill * quantity)]]
     ELSE [b EXCEPT !.rejected = Append(@, at)]

(* The decision that is queued is used at the open, whatever it comes to. *)
ExecutePending(b, at, open) ==
  LET d == b.pending
      taken == [b EXCEPT !.pending = NoDecision]
  IN IF d.action = "EXIT" /\ b.position # NoPosition THEN ClosePosition(taken, at, open, "signal")
     ELSE IF d.action \in Entries /\ b.position = NoPosition THEN Enter(taken, at, d, open)
     ELSE taken

ReachesStop(p, c) == IF p.direction = "LONG" THEN c.low <= p.stop ELSE c.high >= p.stop
ReachesTarget(p, c) == IF p.direction = "LONG" THEN c.high >= p.target ELSE c.low <= p.target

StopPrice(p, c) == IF p.direction = "LONG" THEN Min({c.open, p.stop}) ELSE Max({c.open, p.stop})
TargetPrice(p, c) ==
  IF p.direction = "LONG" THEN Max({c.open, p.target}) ELSE Min({c.open, p.target})

(* A slip the runs must notice: the target wins when both are touched.       *)
IntrabarExitTargetFirst(b, at, c) ==
  IF b.position = NoPosition THEN b
  ELSE IF ReachesTarget(b.position, c)
       THEN ClosePosition(b, at, TargetPrice(b.position, c), "target")
  ELSE IF ReachesStop(b.position, c) THEN ClosePosition(b, at, StopPrice(b.position, c), "stop")
  ELSE b

(* The stop wins when both are touched. *)
IntrabarExit(b, at, c) ==
  IF b.position = NoPosition THEN b
  ELSE IF ReachesStop(b.position, c) THEN ClosePosition(b, at, StopPrice(b.position, c), "stop")
  ELSE IF ReachesTarget(b.position, c)
       THEN ClosePosition(b, at, TargetPrice(b.position, c), "target")
  ELSE b

(* A slip the runs must notice: what cannot be executed is queued as well.   *)
QueueAnything(b, at, d) ==
  IF d.action \in Entries \cup {"EXIT"}
  THEN [b EXCEPT !.pending = [action |-> d.action, stop |-> d.stop, target |-> d.target,
                              risk |-> d.risk, at |-> at]]
  ELSE b

(* Only an exit of what is open and an entry into what is not are queued. *)
Queue(b, at, d) ==
  IF \/ d.action = "EXIT" /\ b.position # NoPosition
     \/ d.action \in Entries /\ b.position = NoPosition
  THEN [b EXCEPT !.pending = [action |-> d.action, stop |-> d.stop, target |-> d.target,
                              risk |-> d.risk, at |-> at]]
  ELSE b

Marked(b, c) ==
  LET p == b.position
  IN IF p = NoPosition THEN b.equity
     ELSE b.equity + (c.close - p.price) * p.quantity * Sign(p.direction) - p.cost

(* A slip the runs must notice: the provider's answer is used at the open of *)
(* the bar it was asked about.                                               *)
PlayBarAtOnce(b, at, c, d) ==
  IntrabarExit(ExecutePending(Queue(b, at, d), at, c.open), at, c)

PlayBar(b, at, c, d) ==
  Queue(IntrabarExit(ExecutePending(b, at, c.open), at, c), at, d)

(* A bar c, on which the provider decides d. *)
BarWith(c, d) ==
  /\ ~finished /\ bars < MaxBars
  /\ LET b == PlayBar(book, bars + 1, c, d)
     IN /\ book' = b
        /\ candle' = c
        /\ curve' = Append(curve, Marked(b, c))
        /\ peak' = Max({peak, Marked(b, c)})
        /\ draws' = Append(draws, [fall |-> peak' - Marked(b, c), peak |-> peak'])
  /\ bars' = bars + 1
  /\ UNCHANGED finished

Bar == \E c \in Candles, d \in Decisions : BarWith(c, d)

(* A slip the runs must notice: the last point of the curve stays marked. *)
FinishMarked ==
  /\ ~finished
  /\ book' = IF book.position = NoPosition THEN book
             ELSE ClosePosition(book, bars, candle.close, "end_of_data")
  /\ finished' = TRUE
  /\ UNCHANGED <<bars, candle, peak, curve, draws>>

(* After the last candle what is open is closed at its close. *)
Finish ==
  /\ ~finished
  /\ IF book.position = NoPosition THEN UNCHANGED <<book, peak, curve, draws>>
     ELSE LET b == ClosePosition(book, bars, candle.close, "end_of_data")
          IN /\ book' = b
             /\ peak' = Max({peak, b.equity})
             /\ curve' = [curve EXCEPT ![bars] = b.equity]
             /\ draws' = [draws EXCEPT ![bars] = [fall |-> peak' - b.equity, peak |-> peak']]
  /\ finished' = TRUE
  /\ UNCHANGED <<bars, candle>>

Next == Bar \/ Finish

Spec == Init /\ [][Next]_vars

-----------------------------------------------------------------------------
Closings == {"signal", "stop", "target", "end_of_data"}

Positions ==
  [direction : Entries, quantity : Int, signal : Nat, entered : Nat, price : Int,
   stop : Int, target : Int, cost : Int]

TradeRecords ==
  [direction : Entries, quantity : Int, signal : Nat, entered : Nat, exited : Nat, price : Int,
   exit : Int, stop : Int, target : Int, reason : Closings, net : Int]

Queued ==
  [action : Entries \cup {"EXIT"}, stop : Int \cup {NoPrice}, target : Int \cup {NoPrice},
   risk : Int, at : Nat]

Books ==
  [position : Positions \cup {NoPosition}, pending : Queued \cup {NoDecision}, equity : Int,
   trades : Seq(TradeRecords), rejected : Seq(Nat)]

HasUnits(b) ==
  /\ b.position # NoPosition => b.position.quantity > 0
  /\ \A i \in 1 .. Len(b.trades) : b.trades[i].quantity > 0

(* The book and the curves stay in their types, and what is held has units.  *)
TypeOK ==
  /\ bars \in 0 .. MaxBars /\ candle \in Candles /\ finished \in BOOLEAN
  /\ book \in Books /\ HasUnits(book)
  /\ peak \in Int
  /\ curve \in Seq(Int) /\ Len(curve) = bars
  /\ draws \in Seq([fall : Int, peak : Int]) /\ Len(draws) = bars

TradesInOrder(trades, n) ==
  /\ \A i \in 1 .. Len(trades) : /\ trades[i].entered = trades[i].signal + 1
                                /\ trades[i].entered <= trades[i].exited
                                /\ trades[i].exited <= n
  /\ \A i, j \in 1 .. Len(trades) : i < j => trades[i].exited <= trades[j].signal

PositionInOrder(b, n) ==
  LET p == b.position
  IN p # NoPosition =>
       /\ p.entered = p.signal + 1 /\ p.entered <= n
       /\ \A i \in 1 .. Len(b.trades) : b.trades[i].exited <= p.signal

(* "An entry or exit decision is queued and cannot execute before the next   *)
(* candle open" (docs/architecture/backtesting.md:5-6): what is traded was    *)
(* decided on the bar before and when all earlier trades were over, and      *)
(* nothing is dated later than the bars seen.                                *)
FillsComeLater ==
  /\ TradesInOrder(book.trades, bars)
  /\ PositionInOrder(book, bars)
  /\ book.pending # NoDecision => book.pending.at = bars

(* What b had queued has had its effect in c, after bar n: the position was  *)
(* closed, or one was opened, and perhaps closed again, or refused.          *)
Effective(b, c, n) ==
  LET fresh == Len(b.trades) + 1 .. Len(c.trades)
  IN IF b.pending.action = "EXIT"
     THEN /\ b.position # NoPosition
          /\ \E i \in fresh : /\ c.trades[i].signal = b.position.signal
                              /\ c.trades[i].reason = "signal"
     ELSE \/ c.rejected = Append(b.rejected, n)
          \/ c.position # NoPosition /\ c.position.signal = b.pending.at
          \/ \E i \in fresh : c.trades[i].signal = b.pending.at

(* A decision that was queued takes effect on the next bar: an exit closes   *)
(* the position at its open, an entry opens one or is rejected, and none is  *)
(* forgotten (engine.py:323-354, 365-368).                                   *)
DecisionsTakeEffect ==
  [][bars' > bars /\ book.pending # NoDecision => Effective(book, book', bars')]_vars

(* A trade that was closed on candle c is closed at a price of it that its    *)
(* reason is good for.                                                       *)
FilledFairly(t, c) ==
  LET NoBetter(q) == IF t.direction = "LONG" THEN q <= t.stop ELSE q >= t.stop
  IN \E q \in {c.open, c.close, t.stop, t.target} :
       /\ c.low <= q /\ q <= c.high /\ t.exit = Slipped(q, Opposite(t.direction))
       /\ \/ t.reason = "signal" /\ q = c.open
          \/ t.reason = "end_of_data" /\ q = c.close
          \/ t.reason = "stop" /\ ReachesStop(t, c) /\ NoBetter(q)
          \/ t.reason = "target" /\ ~ReachesStop(t, c)

(* "If both are inside one candle, the stop wins"; "gap-through stops receive *)
(* the adverse open" (:8-10): a trade is closed at a price of its bar, no    *)
(* better than its stop when that was touched, and a position that was not   *)
(* closed was not touched.                                                   *)
FillsAreConservative ==
  LET p == book.position
  IN /\ p # NoPosition /\ ~finished => ~ReachesStop(p, candle) /\ ~ReachesTarget(p, candle)
     /\ \A i \in 1 .. Len(book.trades) :
          book.trades[i].exited = bars => FilledFairly(book.trades[i], candle)

NetOf(trades) ==
  LET net[i \in 0 .. Len(trades)] == IF i = 0 THEN 0 ELSE net[i - 1] + trades[i].net
  IN net[Len(trades)]

(* The equity is the capital and the net result of every trade, also of the  *)
(* one that ends with the data; the curve ends in it once nothing is open;   *)
(* and the drawdown after a bar is that from the highest point of the curve, *)
(* or from a higher mark that the close of the data took the place of        *)
(* (engine.py:313-314, 376-399).                                             *)
BooksAddUp ==
  LET Highest(i) == Max({InitialCapital} \cup {curve[j] : j \in 1 .. i})
      Exact(i) == draws[i].peak = Highest(i)
  IN /\ book.equity = InitialCapital + NetOf(book.trades)
     /\ bars > 0 /\ book.position = NoPosition => curve[bars] = book.equity
     /\ finished => book.position = NoPosition
     /\ \A i \in 1 .. bars :
          /\ draws[i].peak >= Highest(i) /\ draws[i].fall = draws[i].peak - curve[i]
          /\ Exact(i) \/ (finished /\ i = bars)
=============================================================================
