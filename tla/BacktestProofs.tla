---------------------------- MODULE BacktestProofs ----------------------------
(***************************************************************************)
(* Theorems about the backtest, for any candles, any decision provider, any  *)
(* number of bars and any costs: its types, that nothing is executed before  *)
(* the bar after its decision, that no decision is lost, that fills are at   *)
(* prices of their bar and no better than a stop, and that the books add up. *)
(* The strategies are one such provider; what they queue or hold has the     *)
(* reason they, the decision engine and the risk policy ask for.             *)
(***************************************************************************)
EXTENDS StrategyBacktest, SequenceTheorems, WellFoundedInduction, TLAPS

LEMMA MinOfTwo ==
  ASSUME NEW a \in Int, NEW b \in Int
  PROVE  Min({a, b}) \in Int /\ (Min({a, b}) = a \/ Min({a, b}) = b)
<1>1. PICK m \in {a, b} : \A y \in {a, b} : m <= y
  OBVIOUS
<1> QED BY <1>1 DEF Min

LEMMA MaxOfTwo ==
  ASSUME NEW a \in Int, NEW b \in Int
  PROVE  Max({a, b}) \in Int /\ (Max({a, b}) = a \/ Max({a, b}) = b)
<1>1. PICK m \in {a, b} : \A y \in {a, b} : m >= y
  OBVIOUS
<1> QED BY <1>1 DEF Max

-----------------------------------------------------------------------------
(* Prices, costs and trades are what their types say. *)

LEMMA SlippedType ==
  ASSUME NEW price \in Int, NEW direction
  PROVE  Slipped(price, direction) \in Int
<1>1. price * Slippage \in Int
  BY BacktestAssumption
<1>2. (price * Slippage) \div 100 \in Int
  BY <1>1
<1> QED BY <1>2 DEF Slipped, Sign

LEMMA CostType ==
  ASSUME NEW notional \in Int
  PROVE  Cost(notional) \in Int
<1>1. notional * CostRate \in Int
  BY BacktestAssumption
<1>2. (notional * CostRate) \div 100 \in Int
  BY <1>1
<1> QED BY <1>2, BacktestAssumption DEF Cost

LEMMA TradeType ==
  ASSUME NEW p \in Positions, NEW at \in Nat, NEW raw \in Int, NEW reason \in Closings
  PROVE  /\ TradeOf(p, at, raw, reason) \in TradeRecords
         /\ TradeOf(p, at, raw, reason).signal = p.signal
         /\ TradeOf(p, at, raw, reason).entered = p.entered
         /\ TradeOf(p, at, raw, reason).exited = at
         /\ TradeOf(p, at, raw, reason).quantity = p.quantity
         /\ TradeOf(p, at, raw, reason).reason = reason
<1> DEFINE exit == Slipped(raw, Opposite(p.direction))
           gross == (exit - p.price) * p.quantity * Sign(p.direction)
           net == gross - p.cost - Cost(exit * p.quantity)
<1>1. exit \in Int
  BY SlippedType
<1>2. exit * p.quantity \in Int /\ (exit - p.price) * p.quantity \in Int
  BY <1>1 DEF Positions
<1>3. gross \in Int
  BY <1>2 DEF Sign
<1>4. net \in Int
  BY <1>2, <1>3, CostType DEF Positions
<1> HIDE DEF exit, gross, net
<1>5. TradeOf(p, at, raw, reason) =
        [direction |-> p.direction, quantity |-> p.quantity, signal |-> p.signal,
         entered |-> p.entered, exited |-> at, price |-> p.price, exit |-> exit,
         stop |-> p.stop, target |-> p.target, reason |-> reason, net |-> net]
  BY DEF TradeOf, exit, gross, net
<1> QED BY <1>1, <1>4, <1>5 DEF TradeRecords, Positions

-----------------------------------------------------------------------------
(* A book that is in order at bar n. *)
InOrder(b, n) ==
  /\ b \in Books /\ HasUnits(b)
  /\ TradesInOrder(b.trades, n)
  /\ PositionInOrder(b, n)

(* A book in order stays so while time passes. *)
LEMMA InOrderLater ==
  ASSUME NEW b, NEW n \in Nat, InOrder(b, n)
  PROVE  InOrder(b, n + 1)
<1> USE DEF InOrder
<1>1. TradesInOrder(b.trades, n + 1)
  <2>1. b.trades \in Seq(TradeRecords)
    BY DEF Books
  <2>2. \A i \in 1 .. Len(b.trades) : b.trades[i] \in TradeRecords
    BY <2>1
  <2>3. \A i \in 1 .. Len(b.trades) : b.trades[i].exited \in Nat
    BY <2>2 DEF TradeRecords
  <2> QED BY <2>3 DEF TradesInOrder
<1>2. PositionInOrder(b, n + 1)
  <2>1. b.position # NoPosition => b.position.entered \in Nat
    BY DEF Books, Positions
  <2> QED BY <2>1 DEF PositionInOrder
<1> QED BY <1>1, <1>2 DEF InOrder

(* Closing adds the position to the trades, and nothing else. *)
LEMMA CloseInOrder ==
  ASSUME NEW b, NEW n \in Nat, InOrder(b, n), b.position # NoPosition,
         NEW raw \in Int, NEW reason \in Closings
  PROVE  LET c == ClosePosition(b, n, raw, reason)
         IN /\ InOrder(c, n) /\ c.position = NoPosition
            /\ c.pending = b.pending /\ c.rejected = b.rejected
            /\ Len(c.trades) = Len(b.trades) + 1
            /\ \A i \in 1 .. Len(b.trades) : c.trades[i] = b.trades[i]
            /\ c.trades[Len(c.trades)] = TradeOf(b.position, n, raw, reason)
            /\ c.trades[Len(c.trades)].signal = b.position.signal
            /\ c.trades[Len(c.trades)].reason = reason
<1> DEFINE trade == TradeOf(b.position, n, raw, reason)
           c == ClosePosition(b, n, raw, reason)
<1>1. b \in Books /\ b.position \in Positions /\ HasUnits(b)
  BY DEF InOrder, Books
<1>2. trade \in TradeRecords /\ trade.signal = b.position.signal
      /\ trade.entered = b.position.entered /\ trade.exited = n
      /\ trade.quantity = b.position.quantity /\ trade.reason = reason
  BY <1>1, TradeType
<1> HIDE DEF trade
<1>3. c = [b EXCEPT !.position = NoPosition, !.trades = Append(@, trade), !.equity = @ + trade.net]
  BY DEF ClosePosition, trade
<1>4. c \in Books /\ c.position = NoPosition /\ c.pending = b.pending
      /\ c.rejected = b.rejected /\ c.trades = Append(b.trades, trade)
  <2>1. b.trades \in Seq(TradeRecords) /\ Append(b.trades, trade) \in Seq(TradeRecords)
    BY <1>1, <1>2 DEF Books
  <2>2. trade.net \in Int
    BY <1>2 DEF TradeRecords
  <2>3. c = [position |-> NoPosition, pending |-> b.pending, equity |-> b.equity + trade.net,
             trades |-> Append(b.trades, trade), rejected |-> b.rejected]
    BY <1>1, <1>3 DEF Books
  <2> HIDE DEF c
  <2> QED BY <1>1, <2>1, <2>2, <2>3 DEF Books
<1>5. b.trades \in Seq(TradeRecords)
  BY <1>1 DEF Books
<1> HIDE DEF c
<1>6. Len(c.trades) = Len(b.trades) + 1 /\ c.trades[Len(c.trades)] = trade
      /\ \A i \in 1 .. Len(b.trades) : c.trades[i] = b.trades[i]
  BY <1>2, <1>4, <1>5
<1>7. Len(b.trades) \in Nat
  BY <1>5
<1>8. HasUnits(c)
  <2>1. trade.quantity > 0
    BY <1>1, <1>2 DEF HasUnits
  <2>2. \A i \in 1 .. Len(c.trades) : c.trades[i].quantity > 0
    BY <1>1, <1>6, <1>7, <2>1 DEF HasUnits
  <2> QED BY <1>4, <2>2 DEF HasUnits
<1>9. TradesInOrder(c.trades, n)
  <2>1. /\ trade.entered = trade.signal + 1 /\ trade.entered <= n
        /\ \A i \in 1 .. Len(b.trades) : b.trades[i].exited <= trade.signal
    BY <1>2 DEF InOrder, PositionInOrder
  <2>2. TradesInOrder(b.trades, n)
    BY DEF InOrder
  <2> DEFINE k == Len(c.trades)
  <2>3. \A i \in 1 .. k : i \in 1 .. Len(b.trades) \/ (i = k /\ c.trades[i] = trade)
    BY <1>6, <1>7
  <2>4. \A i \in 1 .. k : /\ c.trades[i].entered = c.trades[i].signal + 1
                          /\ c.trades[i].entered <= c.trades[i].exited
                          /\ c.trades[i].exited <= n
    BY <1>2, <1>6, <2>1, <2>2, <2>3 DEF TradesInOrder
  <2>5. \A i, j \in 1 .. k : i < j => c.trades[i].exited <= c.trades[j].signal
    <3> SUFFICES ASSUME NEW i \in 1 .. k, NEW j \in 1 .. k, i < j
                 PROVE  c.trades[i].exited <= c.trades[j].signal
      OBVIOUS
    <3>1. i \in 1 .. Len(b.trades) /\ c.trades[i] = b.trades[i]
      BY <1>6, <1>7
    <3>2. CASE j = k
      BY <1>6, <2>1, <3>1, <3>2
    <3>3. CASE j \in 1 .. Len(b.trades)
      BY <1>6, <2>2, <3>1, <3>3 DEF TradesInOrder
    <3> QED BY <2>3, <3>2, <3>3
  <2> QED BY <2>4, <2>5 DEF TradesInOrder
<1>10. PositionInOrder(c, n)
  BY <1>4 DEF PositionInOrder
<1> QED BY <1>2, <1>4, <1>6, <1>8, <1>9, <1>10 DEF InOrder, c, trade

(* A price after slippage is still positive, and so is what is paid. *)
LEMMA FillPositive ==
  ASSUME NEW price \in Int, price > 0, NEW direction
  PROVE  Slipped(price, direction) \in Int /\ Slipped(price, direction) > 0
<1> DEFINE cut == (price * Slippage) \div 100
<1>1. Slippage \in Nat /\ Slippage < 100
  BY BacktestAssumption
<1>2. price * Slippage \in Nat /\ price * Slippage < price * 100
  BY <1>1
<1>3. cut \in Int /\ 0 <= cut /\ cut < price
  BY <1>2
<1> HIDE DEF cut
<1> QED BY <1>3 DEF Slipped, Sign, cut

(* An approved entry is for whole units at prices that are there. *)
LEMMA ApprovedSize ==
  ASSUME NEW d \in Queued, NEW equity \in Int, NEW fill \in Int, fill > 0,
         Approves(d, equity, fill)
  PROVE  /\ d.stop \in Int /\ d.target \in Int
         /\ Sized(d, equity, fill) \in Int /\ Sized(d, equity, fill) > 0
<1> DEFINE distance == IF d.stop < fill THEN fill - d.stop ELSE d.stop - fill
           risked == equity * Min({d.risk, RiskCap})
           worth == equity * NotionalCap
<1>1. d.stop \in Int /\ d.target \in Int /\ d.risk \in Int
  BY DEF Approves, Queued
<1>2. distance \in Int /\ distance > 0
  BY <1>1 DEF Approves, ValidAtFill
<1>3. Min({d.risk, RiskCap}) \in Int
  BY <1>1, MinOfTwo, BacktestAssumption
<1>4. risked \in Int /\ worth \in Int
  BY <1>3, BacktestAssumption
<1> HIDE DEF distance, risked, worth
<1>5. 100 * distance \in Int /\ 100 * distance > 0 /\ 100 * fill \in Int /\ 100 * fill > 0
  BY <1>2
<1>6. risked \div (100 * distance) \in Int /\ worth \div (100 * fill) \in Int
  BY <1>4, <1>5
<1>7. Min({risked \div (100 * distance), worth \div (100 * fill)}) \in Int
  BY <1>6, MinOfTwo
<1>8. Sized(d, equity, fill) \in Int
  BY <1>7 DEF Sized, distance, risked, worth
<1> QED BY <1>1, <1>8 DEF Approves

(* Entering opens a position that was decided at n, or rejects it. *)
LEMMA EnterInOrder ==
  ASSUME NEW b, NEW n \in Nat, InOrder(b, n), b.position = NoPosition,
         NEW d \in Queued, d.action \in Entries, d.at = n, NEW open \in Int, open > 0
  PROVE  LET e == Enter(b, n + 1, d, open)
         IN /\ InOrder(e, n + 1) /\ e.pending = b.pending /\ e.trades = b.trades
            /\ \/ e.position # NoPosition /\ e.position.signal = n
               \/ e.position = NoPosition /\ e.rejected = Append(b.rejected, n + 1)
<1> DEFINE fill == Slipped(open, d.action)
           quantity == Sized(d, b.equity, fill)
           cost == Cost(fill * quantity)
           p == [direction |-> d.action, quantity |-> quantity, signal |-> d.at,
                 entered |-> n + 1, price |-> fill, stop |-> d.stop, target |-> d.target,
                 cost |-> cost]
           e == Enter(b, n + 1, d, open)
<1>1. fill \in Int /\ fill > 0
  BY FillPositive
<1>2. b \in Books /\ InOrder(b, n + 1) /\ InOrder(b, n)
  BY InOrderLater DEF InOrder
<1>3. CASE Approves(d, b.equity, fill)
  <2>1. d.stop \in Int /\ d.target \in Int /\ quantity \in Int /\ quantity > 0
    BY <1>1, <1>2, <1>3, ApprovedSize DEF Books
  <2>2. cost \in Int
    <3>1. fill * quantity \in Int
      BY <1>1, <2>1
    <3> QED BY <3>1, CostType
  <2>3. e = [b EXCEPT !.position = p]
    BY <1>3 DEF Enter
  <2> HIDE DEF fill, quantity, cost
  <2>4. /\ p \in Positions /\ p # NoPosition /\ p.quantity > 0
        /\ p.signal = n /\ p.entered = n + 1
    BY <1>1, <2>1, <2>2 DEF Positions, NoPosition
  <2> HIDE DEF e, p
  <2>5. e \in Books /\ e.position = p /\ e.trades = b.trades /\ e.pending = b.pending
    BY <1>2, <2>3, <2>4 DEF Books
  <2>6. \A i \in 1 .. Len(b.trades) : b.trades[i].exited <= n
    BY <1>2 DEF InOrder, TradesInOrder
  <2>7. InOrder(e, n + 1)
    BY <1>2, <2>4, <2>5, <2>6 DEF InOrder, HasUnits, PositionInOrder
  <2> QED BY <2>4, <2>5, <2>7 DEF e
<1>4. CASE ~Approves(d, b.equity, fill)
  <2>1. e = [b EXCEPT !.rejected = Append(@, n + 1)]
    BY <1>4 DEF Enter
  <2> HIDE DEF e
  <2>2. Append(b.rejected, n + 1) \in Seq(Nat)
    BY <1>2 DEF Books
  <2>3. /\ e \in Books /\ e.position = NoPosition /\ e.trades = b.trades
        /\ e.pending = b.pending /\ e.rejected = Append(b.rejected, n + 1)
    BY <1>2, <2>1, <2>2 DEF Books
  <2>4. InOrder(e, n + 1)
    BY <1>2, <2>3 DEF InOrder, HasUnits, PositionInOrder
  <2> QED BY <2>3, <2>4 DEF e
<1> QED BY <1>3, <1>4
-----------------------------------------------------------------------------
(* What is queued at bar n can be executed: an exit of what is open, an      *)
(* entry into what is not.                                                   *)
Executable(b, n) ==
  /\ b.pending # NoDecision => b.pending.at = n
  /\ b.pending.action = "EXIT" => b.position # NoPosition
  /\ b.pending.action \in Entries => b.position = NoPosition

LEMMA ExecuteInOrder ==
  ASSUME NEW b, NEW n \in Nat, InOrder(b, n), Executable(b, n), NEW open \in Int, open > 0
  PROVE  LET c == ExecutePending(b, n + 1, open)
         IN /\ InOrder(c, n + 1) /\ c.pending = NoDecision
            /\ Len(c.trades) >= Len(b.trades)
            /\ b.pending # NoDecision => Effective(b, c, n + 1)
<1> DEFINE d == b.pending
           taken == [b EXCEPT !.pending = NoDecision]
           c == ExecutePending(b, n + 1, open)
<1>1. b \in Books /\ b.trades \in Seq(TradeRecords) /\ Len(b.trades) \in Nat
  BY DEF InOrder, Books
<1>2. /\ taken \in Books /\ taken.pending = NoDecision /\ taken.position = b.position
      /\ taken.trades = b.trades /\ taken.rejected = b.rejected
  BY <1>1 DEF Books
<1>3. n + 1 \in Nat
  OBVIOUS
<1>4. d \in Queued \cup {NoDecision} /\ d.action \in Entries \cup {"EXIT", "NONE"}
  BY <1>1 DEF Books, Queued, NoDecision
<1>5. c = IF d.action = "EXIT" /\ b.position # NoPosition
          THEN ClosePosition(taken, n + 1, open, "signal")
          ELSE IF d.action \in Entries /\ b.position = NoPosition
          THEN Enter(taken, n + 1, d, open) ELSE taken
  BY DEF ExecutePending
<1> HIDE DEF taken, c
<1>6. InOrder(taken, n)
  BY <1>2 DEF InOrder, HasUnits, PositionInOrder
<1>7. InOrder(taken, n + 1)
  BY <1>6, InOrderLater
<1>8. CASE d.action = "EXIT"
  <2>1. b.position # NoPosition /\ d # NoDecision
    BY <1>8 DEF Executable, NoDecision
  <2>2. c = ClosePosition(taken, n + 1, open, "signal")
    BY <1>5, <1>8, <2>1
  <2>3. /\ InOrder(c, n + 1) /\ c.pending = NoDecision
        /\ Len(c.trades) = Len(b.trades) + 1
        /\ c.trades[Len(c.trades)].signal = b.position.signal
        /\ c.trades[Len(c.trades)].reason = "signal"
    <3>1. taken.position # NoPosition /\ "signal" \in Closings
      BY <1>2, <2>1 DEF Closings
    <3> HIDE DEF d
    <3> QED BY <1>2, <1>3, <1>7, <2>2, <3>1, CloseInOrder
  <2>4. Effective(b, c, n + 1)
    <3>1. Len(c.trades) \in Len(b.trades) + 1 .. Len(c.trades)
      BY <1>1, <2>3
    <3> QED BY <1>8, <2>1, <2>3, <3>1 DEF Effective
  <2> QED BY <1>1, <2>3, <2>4 DEF c
<1>9. CASE d.action \in Entries
  <2>1. b.position = NoPosition /\ d \in Queued /\ d.at = n /\ d.action # "EXIT"
    BY <1>4, <1>9 DEF Executable, NoDecision, Entries
  <2>2. c = Enter(taken, n + 1, d, open)
    BY <1>5, <1>9, <2>1
  <2>3. /\ InOrder(c, n + 1) /\ c.pending = NoDecision /\ c.trades = taken.trades
        /\ \/ c.position # NoPosition /\ c.position.signal = n
           \/ c.rejected = Append(b.rejected, n + 1)
    <3>1. taken.position = NoPosition /\ d \in Queued /\ d.at = n /\ d.action \in Entries
      BY <1>2, <1>9, <2>1
    <3> HIDE DEF d
    <3> QED BY <1>2, <1>6, <2>2, <3>1, EnterInOrder
  <2>4. Effective(b, c, n + 1)
    BY <2>1, <2>3 DEF Effective
  <2> QED BY <1>1, <1>2, <2>3, <2>4 DEF c
<1>10. CASE d.action = "NONE"
  <2>1. d = NoDecision
    BY <1>4, <1>10 DEF Queued, Entries
  <2>2. c = taken
    BY <1>5, <1>10 DEF Entries
  <2> QED BY <1>1, <1>2, <1>7, <2>1, <2>2 DEF c
<1> QED BY <1>4, <1>8, <1>9, <1>10

(* The test of stop and target keeps the order, and what took effect.        *)
LEMMA ExitInOrder ==
  ASSUME NEW b, NEW n \in Nat, InOrder(b, n), b.pending = NoDecision, NEW k \in Candles
  PROVE  LET c == IntrabarExit(b, n, k)
         IN /\ InOrder(c, n) /\ c.pending = NoDecision
            /\ c.rejected = b.rejected
            /\ Len(c.trades) >= Len(b.trades)
            /\ \A i \in 1 .. Len(b.trades) : c.trades[i] = b.trades[i]
            /\ \/ c.position = b.position
               \/ Len(c.trades) = Len(b.trades) + 1
                  /\ c.trades[Len(c.trades)].signal = b.position.signal
<1> DEFINE c == IntrabarExit(b, n, k)
           p == b.position
<1>1. b \in Books /\ Len(b.trades) \in Nat
  BY DEF InOrder, Books
<1>2. CASE p = NoPosition
  <2>1. c = b
    BY <1>2 DEF IntrabarExit
  <2> QED BY <1>1, <2>1
<1>3. CASE p # NoPosition
  <2>1. p.stop \in Int /\ p.target \in Int /\ k.open \in Int
    BY <1>1, <1>3, BacktestAssumption DEF Books, Positions
  <2>2. StopPrice(p, k) \in Int /\ TargetPrice(p, k) \in Int
    BY <2>1, MinOfTwo, MaxOfTwo DEF StopPrice, TargetPrice
  <2>3. CASE ReachesStop(p, k)
    <3>1. c = ClosePosition(b, n, StopPrice(p, k), "stop")
      BY <1>3, <2>3 DEF IntrabarExit
    <3> HIDE DEF c
    <3>2. "stop" \in Closings
      BY DEF Closings
    <3> QED BY <1>1, <1>3, <2>2, <3>1, <3>2, CloseInOrder DEF c
  <2>4. CASE ~ReachesStop(p, k) /\ ReachesTarget(p, k)
    <3>1. c = ClosePosition(b, n, TargetPrice(p, k), "target")
      BY <1>3, <2>4 DEF IntrabarExit
    <3> HIDE DEF c
    <3>2. "target" \in Closings
      BY DEF Closings
    <3> QED BY <1>1, <1>3, <2>2, <3>1, <3>2, CloseInOrder DEF c
  <2>5. CASE ~ReachesStop(p, k) /\ ~ReachesTarget(p, k)
    <3>1. c = b
      BY <1>3, <2>5 DEF IntrabarExit
    <3> QED BY <1>1, <3>1
  <2> QED BY <2>3, <2>4, <2>5
<1> QED BY <1>2, <1>3

(* Queueing the answer of the provider leaves something executable.          *)
LEMMA QueueInOrder ==
  ASSUME NEW b, NEW n \in Nat, InOrder(b, n), b.pending = NoDecision, NEW d \in Decisions
  PROVE  LET c == Queue(b, n, d)
         IN /\ InOrder(c, n) /\ Executable(c, n) /\ c.trades = b.trades
            /\ c.position = b.position /\ c.rejected = b.rejected
<1> DEFINE c == Queue(b, n, d)
           q == [action |-> d.action, stop |-> d.stop, target |-> d.target,
                 risk |-> d.risk, at |-> n]
           fits == \/ d.action = "EXIT" /\ b.position # NoPosition
                   \/ d.action \in Entries /\ b.position = NoPosition
<1>1. b \in Books
  BY DEF InOrder
<1>2. CASE fits
  <2>1. q \in Queued /\ q.action = d.action /\ q.at = n
    BY <1>2, BacktestAssumption DEF Queued
  <2>2. c = [b EXCEPT !.pending = q]
    BY <1>2 DEF Queue
  <2> HIDE DEF c, q
  <2>3. /\ c \in Books /\ c.pending = q /\ c.trades = b.trades
        /\ c.position = b.position /\ c.rejected = b.rejected
    BY <1>1, <2>1, <2>2 DEF Books
  <2>4. InOrder(c, n)
    BY <2>3 DEF InOrder, HasUnits, PositionInOrder
  <2>5. Executable(c, n)
    BY <1>2, <2>1, <2>3 DEF Executable, Entries
  <2> QED BY <2>3, <2>4, <2>5 DEF c
<1>3. CASE ~fits
  <2>1. c = b
    BY <1>3 DEF Queue
  <2>2. Executable(b, n)
    BY DEF Executable, NoDecision, Entries
  <2> QED BY <2>1, <2>2
<1> QED BY <1>2, <1>3

(* A whole bar.                                                              *)
LEMMA BarInOrder ==
  ASSUME NEW b, NEW n \in Nat, InOrder(b, n), Executable(b, n),
         NEW k \in Candles, NEW d \in Decisions
  PROVE  LET c == PlayBar(b, n + 1, k, d)
         IN /\ InOrder(c, n + 1) /\ Executable(c, n + 1)
            /\ b.pending # NoDecision => Effective(b, c, n + 1)
<1> DEFINE e == ExecutePending(b, n + 1, k.open)
           x == IntrabarExit(e, n + 1, k)
           c == Queue(x, n + 1, d)
<1>1. k.open \in Int /\ k.open > 0 /\ n + 1 \in Nat
  BY BacktestAssumption
<1>2. /\ InOrder(e, n + 1) /\ e.pending = NoDecision
      /\ b.pending # NoDecision => Effective(b, e, n + 1)
      /\ Len(e.trades) >= Len(b.trades)
  BY <1>1, ExecuteInOrder
<1>3. PlayBar(b, n + 1, k, d) = c
  BY DEF PlayBar
<1> HIDE DEF e
<1>4. /\ InOrder(x, n + 1) /\ x.pending = NoDecision /\ x.rejected = e.rejected
      /\ Len(x.trades) >= Len(e.trades)
      /\ \A i \in 1 .. Len(e.trades) : x.trades[i] = e.trades[i]
      /\ \/ x.position = e.position
         \/ Len(x.trades) = Len(e.trades) + 1
            /\ x.trades[Len(x.trades)].signal = e.position.signal
  BY <1>1, <1>2, ExitInOrder
<1> HIDE DEF x
<1>5. /\ InOrder(c, n + 1) /\ Executable(c, n + 1) /\ c.trades = x.trades
      /\ c.position = x.position /\ c.rejected = x.rejected
  BY <1>1, <1>4, QueueInOrder
<1> HIDE DEF c
<1>6. ASSUME b.pending # NoDecision
      PROVE  Effective(b, c, n + 1)
  <2>1. /\ Effective(b, e, n + 1)
        /\ Len(b.trades) \in Nat /\ Len(e.trades) \in Nat /\ Len(x.trades) \in Nat
    BY <1>2, <1>4, <1>6 DEF InOrder, Books
  <2> DEFINE late(r) == Len(b.trades) + 1 .. Len(r.trades)
  <2>2. \A i \in late(e) : i \in late(c) /\ c.trades[i] = e.trades[i]
    BY <1>2, <1>4, <1>5, <2>1
  <2>3. CASE /\ b.pending.action = "EXIT" /\ b.position # NoPosition
             /\ \E i \in late(e) : /\ e.trades[i].signal = b.position.signal
                                    /\ e.trades[i].reason = "signal"
    BY <2>2, <2>3 DEF Effective
  <2>4. CASE /\ b.pending.action # "EXIT"
             /\ \E i \in late(e) : e.trades[i].signal = b.pending.at
    BY <2>2, <2>4 DEF Effective
  <2>5. CASE b.pending.action # "EXIT" /\ e.rejected = Append(b.rejected, n + 1)
    BY <1>4, <1>5, <2>5 DEF Effective
  <2>6. CASE /\ b.pending.action # "EXIT"
             /\ e.position # NoPosition /\ e.position.signal = b.pending.at
    <3>1. CASE x.position = e.position
      BY <1>5, <2>6, <3>1 DEF Effective
    <3>2. CASE /\ Len(x.trades) = Len(e.trades) + 1
               /\ x.trades[Len(x.trades)].signal = e.position.signal
      <4>1. Len(c.trades) \in late(c) /\ c.trades[Len(c.trades)].signal = b.pending.at
        BY <1>2, <1>5, <2>1, <2>6, <3>2
      <4> QED BY <2>6, <4>1 DEF Effective
    <3> QED BY <1>4, <3>1, <3>2
  <2> QED BY <2>1, <2>3, <2>4, <2>5, <2>6 DEF Effective
<1> QED BY <1>3, <1>5, <1>6
-----------------------------------------------------------------------------
(* The invariant that carries the theorems: between two bars the book is in  *)
(* order and what is queued was queued now; until the end it can be executed. *)
IInv ==
  /\ TypeOK
  /\ InOrder(book, bars)
  /\ book.pending # NoDecision => book.pending.at = bars
  /\ ~finished => Executable(book, bars)

LEMMA MarkedType ==
  ASSUME NEW b \in Books, NEW c \in Candles
  PROVE  Marked(b, c) \in Int
<1> DEFINE p == b.position
           gain == (c.close - p.price) * p.quantity
<1>1. b.equity \in Int /\ c.close \in Int /\ p \in Positions \cup {NoPosition}
  BY BacktestAssumption DEF Books
<1>2. CASE p = NoPosition
  BY <1>1, <1>2 DEF Marked
<1>3. CASE p \in Positions
  <2>1. gain \in Int /\ p.cost \in Int
    BY <1>1, <1>3 DEF Positions
  <2>2. gain * Sign(p.direction) \in Int
    BY <2>1 DEF Sign
  <2> QED BY <1>1, <2>1, <2>2 DEF Marked
<1> QED BY <1>1, <1>2, <1>3

LEMMA InitInvariant == Init => IInv
<1> SUFFICES ASSUME Init PROVE IInv
  OBVIOUS
<1> USE DEF Init
<1>1. candle \in Candles /\ MaxBars \in Nat /\ InitialCapital \in Int
  BY BacktestAssumption
<1>2. /\ book.position = NoPosition /\ book.pending = NoDecision
      /\ book.trades = <<>> /\ book \in Books
  BY <1>1 DEF Books
<1>3. TypeOK
  <2>1. curve \in Seq(Int) /\ Len(curve) = 0
    OBVIOUS
  <2>2. draws \in Seq([fall : Int, peak : Int]) /\ Len(draws) = 0
    OBVIOUS
  <2>3. HasUnits(book) /\ peak \in Int /\ bars \in 0 .. MaxBars
    BY <1>1, <1>2 DEF HasUnits
  <2> QED BY <1>1, <1>2, <2>1, <2>2, <2>3 DEF TypeOK
<1>4. InOrder(book, bars)
  BY <1>2 DEF InOrder, HasUnits, TradesInOrder, PositionInOrder
<1>5. Executable(book, bars)
  BY <1>2 DEF Executable, NoDecision, Entries
<1> QED BY <1>2, <1>3, <1>4, <1>5 DEF IInv

LEMMA BarInvariant ==
  ASSUME IInv, Bar
  PROVE  IInv' /\ (book.pending # NoDecision => Effective(book, book', bars'))
<1>1. PICK c \in Candles, d \in Decisions :
        LET b == PlayBar(book, bars + 1, c, d)
        IN /\ book' = b
           /\ candle' = c
           /\ curve' = Append(curve, Marked(b, c))
           /\ peak' = Max({peak, Marked(b, c)})
           /\ draws' = Append(draws, [fall |-> peak' - Marked(b, c), peak |-> peak'])
  BY DEF Bar, BarWith
<1>2. bars \in 0 .. MaxBars /\ bars' = bars + 1 /\ bars < MaxBars /\ ~finished
      /\ finished' = FALSE /\ MaxBars \in Nat
  BY BacktestAssumption DEF Bar, BarWith, IInv, TypeOK
<1>3. bars \in Nat /\ InOrder(book, bars) /\ Executable(book, bars)
  BY <1>2 DEF IInv
<1>4. /\ InOrder(book', bars') /\ Executable(book', bars')
      /\ book.pending # NoDecision => Effective(book, book', bars')
  BY <1>1, <1>2, <1>3, BarInOrder
<1>5. TypeOK'
  <2> DEFINE m == Marked(book', c)
  <2>1. book' \in Books /\ HasUnits(book') /\ m \in Int
    BY <1>4, MarkedType DEF InOrder
  <2>2. curve' = Append(curve, m) /\ peak' = Max({peak, m})
        /\ draws' = Append(draws, [fall |-> peak' - m, peak |-> peak'])
    BY <1>1
  <2> HIDE DEF m
  <2>3. peak' \in Int
    BY <2>1, <2>2, MaxOfTwo DEF IInv, TypeOK
  <2>4. curve' \in Seq(Int) /\ Len(curve') = bars'
    BY <1>2, <2>1, <2>2 DEF IInv, TypeOK
  <2>5. draws' \in Seq([fall : Int, peak : Int]) /\ Len(draws') = bars'
    <3>1. [fall |-> peak' - m, peak |-> peak'] \in [fall : Int, peak : Int]
      BY <2>1, <2>3
    <3> QED BY <1>2, <2>2, <3>1 DEF IInv, TypeOK
  <2>6. bars' \in 0 .. MaxBars /\ candle' \in Candles
    BY <1>1, <1>2
  <2> QED BY <1>2, <2>1, <2>3, <2>4, <2>5, <2>6 DEF TypeOK, HasUnits
<1> QED BY <1>4, <1>5 DEF IInv, InOrder, Executable, TradesInOrder, PositionInOrder, HasUnits

LEMMA FinishInvariant ==
  ASSUME IInv, Finish
  PROVE  IInv'
<1>1. bars' = bars /\ candle' = candle /\ finished' = TRUE /\ bars \in Nat
  BY BacktestAssumption DEF Finish, IInv, TypeOK
<1>2. CASE book.position = NoPosition
  <2>1. UNCHANGED <<book, peak, curve, draws>>
    BY <1>2 DEF Finish
  <2> QED BY <1>1, <2>1 DEF IInv, TypeOK, InOrder, HasUnits, TradesInOrder, PositionInOrder
<1>3. CASE book.position # NoPosition
  <2> DEFINE b == ClosePosition(book, bars, candle.close, "end_of_data")
  <2>1. /\ book' = b
        /\ peak' = Max({peak, b.equity})
        /\ curve' = [curve EXCEPT ![bars] = b.equity]
        /\ draws' = [draws EXCEPT ![bars] = [fall |-> peak' - b.equity, peak |-> peak']]
    BY <1>3 DEF Finish
  <2>2. candle.close \in Int /\ "end_of_data" \in Closings /\ InOrder(book, bars)
    BY BacktestAssumption DEF IInv, TypeOK, Closings
  <2>3. InOrder(b, bars) /\ b.pending = book.pending
    BY <1>1, <1>3, <2>2, CloseInOrder
  <2>4. bars \in 1 .. Len(curve) /\ bars \in 1 .. Len(draws)
    <3>1. book.position \in Positions /\ book.position.entered <= bars
          /\ book.position.entered = book.position.signal + 1
      BY <1>3, <2>2 DEF InOrder, Books, PositionInOrder
    <3>2. bars >= 1
      BY <1>1, <3>1 DEF Positions
    <3> QED BY <1>1, <3>2 DEF IInv, TypeOK
  <2>5. b \in Books /\ HasUnits(b) /\ b.equity \in Int
    BY <2>3 DEF InOrder, Books
  <2> HIDE DEF b
  <2>6. peak' \in Int
    BY <2>1, <2>5, MaxOfTwo DEF IInv, TypeOK
  <2>7. curve' \in Seq(Int) /\ Len(curve') = bars
    BY <2>1, <2>4, <2>5, ExceptSeq DEF IInv, TypeOK
  <2>8. draws' \in Seq([fall : Int, peak : Int]) /\ Len(draws') = bars
    <3>1. [fall |-> peak' - b.equity, peak |-> peak'] \in [fall : Int, peak : Int]
      BY <2>5, <2>6
    <3> QED BY <2>1, <2>4, <3>1, ExceptSeq DEF IInv, TypeOK
  <2>9. TypeOK'
    BY <1>1, <2>1, <2>5, <2>6, <2>7, <2>8 DEF IInv, TypeOK, HasUnits
  <2>10. InOrder(book, bars)'
    BY <1>1, <2>1, <2>3 DEF InOrder, HasUnits, TradesInOrder, PositionInOrder
  <2> QED BY <1>1, <2>1, <2>3, <2>9, <2>10 DEF IInv
<1> QED BY <1>2, <1>3

LEMMA StutterInvariant ==
  ASSUME IInv, UNCHANGED vars
  PROVE  IInv'
BY DEF vars, IInv, TypeOK, InOrder, HasUnits, TradesInOrder, PositionInOrder, Executable

LEMMA InvariantHolds == Spec => []IInv
<1>1. IInv /\ [Next]_vars => IInv'
  BY BarInvariant, FinishInvariant, StutterInvariant DEF Next
<1> QED BY <1>1, InitInvariant, PTL DEF Spec

(* The book and the curves keep their types, and no trade and no position is *)
(* without units, whatever the provider answers (engine.py:79-106, 313-399).  *)
THEOREM TypeCorrect == Spec => []TypeOK
<1>1. IInv => TypeOK
  BY DEF IInv
<1> QED BY <1>1, InvariantHolds, PTL

(* No backtest of any length executes a decision on the bar it was made on,  *)
(* or decides an entry before the trade before it is over (engine.py:323-368). *)
THEOREM FillsLater == Spec => []FillsComeLater
<1>1. IInv => FillsComeLater
  BY DEF IInv, FillsComeLater, InOrder
<1> QED BY <1>1, InvariantHolds, PTL

(* No decision that was queued is lost: the next bar closes, opens or rejects. *)
THEOREM DecisionsAreEffective == Spec => DecisionsTakeEffect
<1>1. ASSUME IInv, [Next]_vars, bars' > bars, book.pending # NoDecision
      PROVE  Effective(book, book', bars')
  <2>1. CASE Bar
    BY <1>1, <2>1, BarInvariant
  <2>2. CASE Finish \/ UNCHANGED vars
    <3>1. bars' = bars /\ bars \in Nat
      BY <1>1, <2>2 DEF Finish, vars, IInv, TypeOK
    <3> QED BY <1>1, <3>1
  <2> QED BY <1>1, <2>1, <2>2 DEF Next
<1>2. IInv /\ [Next]_vars =>
        [bars' > bars /\ book.pending # NoDecision => Effective(book, book', bars')]_vars
  BY <1>1
<1> QED BY <1>2, InvariantHolds, PTL DEF Spec, DecisionsTakeEffect

-----------------------------------------------------------------------------
(* Every trade that was closed at bar n was filled fairly on its candle. *)
FairAt(b, n, c) ==
  \A i \in 1 .. Len(b.trades) : b.trades[i].exited = n => FilledFairly(b.trades[i], c)

(* No trade is dated after the bars seen.                                    *)
LEMMA NoneDatedLater ==
  ASSUME NEW b, NEW n \in Nat, InOrder(b, n), NEW c
  PROVE  FairAt(b, n + 1, c)
<1>1. \A i \in 1 .. Len(b.trades) : b.trades[i] \in TradeRecords
  BY DEF InOrder, Books
<1>2. \A i \in 1 .. Len(b.trades) : b.trades[i].exited \in Nat /\ b.trades[i].exited <= n
  BY <1>1 DEF InOrder, TradesInOrder, TradeRecords
<1> QED BY <1>2 DEF FairAt

(* Closing at a fair price adds a trade that was filled fairly.               *)
LEMMA CloseFair ==
  ASSUME NEW b, NEW n \in Nat, InOrder(b, n), b.position # NoPosition,
         NEW raw \in Int, NEW reason \in Closings, NEW k,
         FairAt(b, n, k), FilledFairly(TradeOf(b.position, n, raw, reason), k)
  PROVE  FairAt(ClosePosition(b, n, raw, reason), n, k)
<1> DEFINE c == ClosePosition(b, n, raw, reason)
           trade == TradeOf(b.position, n, raw, reason)
<1>1. Len(c.trades) = Len(b.trades) + 1 /\ c.trades[Len(c.trades)] = trade
      /\ \A i \in 1 .. Len(b.trades) : c.trades[i] = b.trades[i]
  BY CloseInOrder
<1>2. Len(b.trades) \in Nat
  BY DEF InOrder, Books
<1> HIDE DEF c, trade
<1>3. \A i \in 1 .. Len(c.trades) : i \in 1 .. Len(b.trades) \/ c.trades[i] = trade
  BY <1>1, <1>2
<1> QED BY <1>1, <1>3 DEF FairAt, c, trade

(* The open and the close of a candle, and a level it reaches, are in it.    *)
LEMMA OpenIsFair ==
  ASSUME NEW p \in Positions, NEW n \in Nat, NEW k \in Candles
  PROVE  /\ FilledFairly(TradeOf(p, n, k.open, "signal"), k)
         /\ FilledFairly(TradeOf(p, n, k.close, "end_of_data"), k)
<1>1. /\ k.low \in Int /\ k.high \in Int /\ k.open \in Int /\ k.close \in Int
      /\ k.low <= k.open /\ k.open <= k.high /\ k.low <= k.close /\ k.close <= k.high
  BY BacktestAssumption
<1>2. ASSUME NEW q \in {k.open, k.close}, NEW reason
      PROVE  LET t == TradeOf(p, n, q, reason)
             IN t.exit = Slipped(q, Opposite(t.direction)) /\ t.reason = reason
  BY DEF TradeOf
<1> QED BY <1>1, <1>2 DEF FilledFairly

LEMMA StopIsFair ==
  ASSUME NEW p \in Positions, NEW n \in Nat, NEW k \in Candles, ReachesStop(p, k)
  PROVE  /\ StopPrice(p, k) \in Int
         /\ FilledFairly(TradeOf(p, n, StopPrice(p, k), "stop"), k)
<1> DEFINE q == StopPrice(p, k)
           t == TradeOf(p, n, q, "stop")
<1>1. /\ k.low \in Int /\ k.high \in Int /\ k.open \in Int /\ p.stop \in Int
      /\ k.low <= k.open /\ k.open <= k.high
  BY BacktestAssumption DEF Positions
<1>2. /\ q \in {k.open, p.stop} /\ q \in Int /\ k.low <= q /\ q <= k.high
      /\ IF p.direction = "LONG" THEN q <= p.stop ELSE q >= p.stop
  <2>1. CASE p.direction = "LONG"
    <3>1. PICK m \in {k.open, p.stop} : \A y \in {k.open, p.stop} : m <= y
      BY <1>1
    <3>2. q \in {k.open, p.stop} /\ \A y \in {k.open, p.stop} : q <= y
      BY <2>1, <3>1 DEF StopPrice, Min
    <3>3. k.low <= p.stop
      BY <2>1 DEF ReachesStop
    <3> HIDE DEF q
    <3> QED BY <1>1, <2>1, <3>2, <3>3
  <2>2. CASE p.direction # "LONG"
    <3>1. PICK m \in {k.open, p.stop} : \A y \in {k.open, p.stop} : m >= y
      BY <1>1
    <3>2. q \in {k.open, p.stop} /\ \A y \in {k.open, p.stop} : q >= y
      BY <2>2, <3>1 DEF StopPrice, Max
    <3>3. k.high >= p.stop
      BY <2>2 DEF ReachesStop
    <3> HIDE DEF q
    <3> QED BY <1>1, <2>2, <3>2, <3>3
  <2> QED BY <2>1, <2>2
<1> HIDE DEF q
<1>3. /\ t.exit = Slipped(q, Opposite(t.direction)) /\ t.reason = "stop"
      /\ t.stop = p.stop /\ t.direction = p.direction
  BY DEF TradeOf
<1> HIDE DEF t
<1>4. ReachesStop(t, k)
  BY <1>3 DEF ReachesStop
<1>5. FilledFairly(t, k)
  BY <1>2, <1>3, <1>4 DEF FilledFairly
<1> QED BY <1>2, <1>5 DEF q, t

LEMMA TargetIsFair ==
  ASSUME NEW p \in Positions, NEW n \in Nat, NEW k \in Candles,
         ReachesTarget(p, k), ~ReachesStop(p, k)
  PROVE  /\ TargetPrice(p, k) \in Int
         /\ FilledFairly(TradeOf(p, n, TargetPrice(p, k), "target"), k)
<1> DEFINE q == TargetPrice(p, k)
           t == TradeOf(p, n, q, "target")
<1>1. /\ k.low \in Int /\ k.high \in Int /\ k.open \in Int /\ p.target \in Int
      /\ k.low <= k.open /\ k.open <= k.high
  BY BacktestAssumption DEF Positions
<1>2. q \in {k.open, p.target} /\ q \in Int /\ k.low <= q /\ q <= k.high
  <2>1. CASE p.direction = "LONG"
    <3>1. PICK m \in {k.open, p.target} : \A y \in {k.open, p.target} : m >= y
      BY <1>1
    <3>2. q \in {k.open, p.target} /\ \A y \in {k.open, p.target} : q >= y
      BY <2>1, <3>1 DEF TargetPrice, Max
    <3>3. k.high >= p.target
      BY <2>1 DEF ReachesTarget
    <3> HIDE DEF q
    <3> QED BY <1>1, <2>1, <3>2, <3>3
  <2>2. CASE p.direction # "LONG"
    <3>1. PICK m \in {k.open, p.target} : \A y \in {k.open, p.target} : m <= y
      BY <1>1
    <3>2. q \in {k.open, p.target} /\ \A y \in {k.open, p.target} : q <= y
      BY <2>2, <3>1 DEF TargetPrice, Min
    <3>3. k.low <= p.target
      BY <2>2 DEF ReachesTarget
    <3> HIDE DEF q
    <3> QED BY <1>1, <2>2, <3>2, <3>3
  <2> QED BY <2>1, <2>2
<1> HIDE DEF q
<1>3. /\ t.exit = Slipped(q, Opposite(t.direction)) /\ t.reason = "target"
      /\ t.stop = p.stop /\ t.target = p.target /\ t.direction = p.direction
  BY DEF TradeOf
<1> HIDE DEF t
<1>4. ~ReachesStop(t, k)
  BY <1>3 DEF ReachesStop
<1>5. FilledFairly(t, k)
  BY <1>2, <1>3, <1>4 DEF FilledFairly
<1> QED BY <1>2, <1>5 DEF q, t

(* A position that was not closed was not touched.                           *)
Untouched(b, c) ==
  b.position # NoPosition => ~ReachesStop(b.position, c) /\ ~ReachesTarget(b.position, c)

LEMMA BarIsFair ==
  ASSUME NEW b, NEW n \in Nat, InOrder(b, n), Executable(b, n),
         NEW k \in Candles, NEW d \in Decisions
  PROVE  LET c == PlayBar(b, n + 1, k, d)
         IN FairAt(c, n + 1, k) /\ Untouched(c, k)
<1> DEFINE e == ExecutePending(b, n + 1, k.open)
           x == IntrabarExit(e, n + 1, k)
           c == Queue(x, n + 1, d)
<1>1. k.open \in Int /\ k.open > 0 /\ n + 1 \in Nat
  BY BacktestAssumption
<1>2. InOrder(e, n + 1) /\ e.pending = NoDecision
  BY <1>1, ExecuteInOrder
<1>3. FairAt(e, n + 1, k)
  <2> DEFINE taken == [b EXCEPT !.pending = NoDecision]
  <2>1. b \in Books /\ taken.trades = b.trades /\ taken.position = b.position
        /\ taken \in Books
    BY DEF InOrder, Books
  <2>2. e = IF b.pending.action = "EXIT" /\ b.position # NoPosition
            THEN ClosePosition(taken, n + 1, k.open, "signal")
            ELSE IF b.pending.action \in Entries /\ b.position = NoPosition
            THEN Enter(taken, n + 1, b.pending, k.open) ELSE taken
    BY DEF ExecutePending
  <2> HIDE DEF taken, e
  <2>3. InOrder(taken, n) /\ InOrder(taken, n + 1)
    <3>1. InOrder(taken, n)
      BY <2>1 DEF InOrder, HasUnits, PositionInOrder
    <3> QED BY <3>1, InOrderLater
  <2>4. FairAt(taken, n + 1, k)
    BY <2>3, NoneDatedLater
  <2>5. CASE b.pending.action = "EXIT" /\ b.position # NoPosition
    <3>1. b.position \in Positions /\ "signal" \in Closings
      BY <2>1, <2>5 DEF Books, Closings
    <3>2. FilledFairly(TradeOf(taken.position, n + 1, k.open, "signal"), k)
      BY <1>1, <2>1, <3>1, OpenIsFair
    <3>3. FairAt(ClosePosition(taken, n + 1, k.open, "signal"), n + 1, k)
      BY <1>1, <2>1, <2>3, <2>4, <2>5, <3>1, <3>2, CloseFair
    <3> QED BY <2>2, <2>5, <3>3
  <2>6. CASE b.pending.action \in Entries /\ b.position = NoPosition
    <3>1. e = Enter(taken, n + 1, b.pending, k.open)
      BY <2>2, <2>6
    <3>2. e.trades = taken.trades
      <4>1. \E p : e = [taken EXCEPT !.position = p] \/ e = [taken EXCEPT !.rejected = p]
        BY <3>1 DEF Enter
      <4> QED BY <2>1, <4>1 DEF Books
    <3> QED BY <2>4, <3>2 DEF FairAt
  <2>7. CASE ~(b.pending.action = "EXIT" /\ b.position # NoPosition)
             /\ ~(b.pending.action \in Entries /\ b.position = NoPosition)
    BY <2>2, <2>4, <2>7
  <2> QED BY <2>5, <2>6, <2>7
<1>4. PlayBar(b, n + 1, k, d) = c
  BY DEF PlayBar
<1> HIDE DEF e
<1>5. FairAt(x, n + 1, k) /\ Untouched(x, k)
  <2> DEFINE p == e.position
  <2>1. e \in Books
    BY <1>2 DEF InOrder
  <2>2. CASE p = NoPosition
    <3>1. x = e
      BY <2>2 DEF IntrabarExit
    <3> QED BY <1>3, <2>2, <3>1 DEF Untouched
  <2>3. CASE p # NoPosition
    <3>1. p \in Positions /\ "stop" \in Closings /\ "target" \in Closings
      BY <2>1, <2>3 DEF Books, Closings
    <3>2. CASE ReachesStop(p, k)
      <4>1. x = ClosePosition(e, n + 1, StopPrice(p, k), "stop")
        BY <2>3, <3>2 DEF IntrabarExit
      <4>2. StopPrice(p, k) \in Int
            /\ FilledFairly(TradeOf(e.position, n + 1, StopPrice(p, k), "stop"), k)
        BY <1>1, <3>1, <3>2, StopIsFair
      <4> HIDE DEF x
      <4>3. FairAt(x, n + 1, k) /\ x.position = NoPosition
        BY <1>1, <1>2, <1>3, <2>3, <3>1, <4>1, <4>2, CloseFair, CloseInOrder
      <4> QED BY <4>3 DEF Untouched
    <3>3. CASE ~ReachesStop(p, k) /\ ReachesTarget(p, k)
      <4>1. x = ClosePosition(e, n + 1, TargetPrice(p, k), "target")
        BY <2>3, <3>3 DEF IntrabarExit
      <4>2. TargetPrice(p, k) \in Int
            /\ FilledFairly(TradeOf(e.position, n + 1, TargetPrice(p, k), "target"), k)
        BY <1>1, <3>1, <3>3, TargetIsFair
      <4> HIDE DEF x
      <4>3. FairAt(x, n + 1, k) /\ x.position = NoPosition
        BY <1>1, <1>2, <1>3, <2>3, <3>1, <4>1, <4>2, CloseFair, CloseInOrder
      <4> QED BY <4>3 DEF Untouched
    <3>4. CASE ~ReachesStop(p, k) /\ ~ReachesTarget(p, k)
      <4>1. x = e
        BY <2>3, <3>4 DEF IntrabarExit
      <4> QED BY <1>3, <3>4, <4>1 DEF Untouched
    <3> QED BY <3>2, <3>3, <3>4
  <2> QED BY <2>2, <2>3
<1>6. InOrder(x, n + 1) /\ x.pending = NoDecision
  BY <1>1, <1>2, ExitInOrder
<1> HIDE DEF x
<1>7. c.trades = x.trades /\ c.position = x.position
  BY <1>1, <1>6, QueueInOrder
<1> QED BY <1>4, <1>5, <1>7 DEF FairAt, Untouched

(* On the last bar everything was filled fairly, and what is open was not    *)
(* touched until the data ended.                                             *)
FairInv == FairAt(book, bars, candle) /\ (finished \/ Untouched(book, candle))

LEMMA FairStep ==
  ASSUME IInv, FairInv, [Next]_vars
  PROVE  FairInv'
<1>1. bars \in Nat /\ candle \in Candles
  BY BacktestAssumption DEF IInv, TypeOK
<1>2. CASE Bar
  <2>1. PICK c \in Candles, d \in Decisions :
          book' = PlayBar(book, bars + 1, c, d) /\ candle' = c
    BY <1>2 DEF Bar, BarWith
  <2>2. bars' = bars + 1 /\ ~finished /\ InOrder(book, bars) /\ Executable(book, bars)
    BY <1>2 DEF Bar, BarWith, IInv
  <2>3. FairAt(book', bars', candle') /\ Untouched(book', candle')
    BY <1>1, <2>1, <2>2, BarIsFair
  <2> QED BY <2>3 DEF FairInv, FairAt, Untouched
<1>3. CASE Finish
  <2>1. bars' = bars /\ candle' = candle /\ finished'
    BY <1>3 DEF Finish
  <2>2. CASE book.position = NoPosition
    <3>1. book' = book
      BY <1>3, <2>2 DEF Finish
    <3> QED BY <2>1, <3>1 DEF FairInv, FairAt
  <2>3. CASE book.position # NoPosition
    <3>1. book' = ClosePosition(book, bars, candle.close, "end_of_data")
      BY <1>3, <2>3 DEF Finish
    <3>2. /\ InOrder(book, bars) /\ book.position \in Positions /\ "end_of_data" \in Closings
          /\ candle.close \in Int
      BY <1>1, <2>3, BacktestAssumption DEF IInv, TypeOK, Books, Closings
    <3>3. FilledFairly(TradeOf(book.position, bars, candle.close, "end_of_data"), candle)
      BY <1>1, <3>2, OpenIsFair
    <3>4. FairAt(book', bars, candle)
      BY <1>1, <2>3, <3>1, <3>2, <3>3, CloseFair DEF FairInv
    <3> QED BY <2>1, <3>4 DEF FairInv, FairAt
  <2> QED BY <2>2, <2>3
<1>4. CASE UNCHANGED vars
  BY <1>4 DEF vars, FairInv, FairAt, Untouched
<1> QED BY <1>2, <1>3, <1>4 DEF Next

(* Whatever the candles and the provider: a trade is closed at a price of its *)
(* bar, at the stop or worse if the stop was touched, and what stays open was *)
(* not touched (engine.py:193-232, 323-362).                                  *)
THEOREM FillsNeverFlatter == Spec => []FillsAreConservative
<1>1. Init => FairInv
  BY DEF Init, FairInv, FairAt, Untouched
<1>2. IInv /\ FairInv => FillsAreConservative
  BY DEF IInv, TypeOK, FairInv, FairAt, Untouched, FillsAreConservative
<1> QED BY <1>1, <1>2, FairStep, InvariantHolds, PTL DEF Spec

-----------------------------------------------------------------------------
(* Sums over the trades, by the least number that would be an exception.     *)

LEMMA LeastNumber ==
  ASSUME NEW S \in SUBSET Nat, S # {}
  PROVE  \E n \in S : \A m \in S : n <= m
<1>1. IsWellFoundedOn(OpToRel(<, Nat), Nat)
  BY NatLessThanWellFounded
<1>2. PICK n \in S : \A m \in S : ~ (<<m, n>> \in OpToRel(<, Nat))
  BY <1>1, WFMin
<1>3. \A m \in S : ~(m < n)
  BY <1>2 DEF OpToRel
<1>4. n \in Nat /\ \A m \in S : m \in Nat /\ n <= m
  BY <1>3
<1> QED BY <1>4

(* f adds up the net results of the first n trades.                          *)
SumsNet(f, s, n) == f[0] = 0 /\ \A i \in 1 .. n : f[i] = f[i - 1] + s[i].net

LEMMA SumsNetExists ==
  ASSUME NEW s \in Seq(TradeRecords), NEW k \in 0 .. Len(s)
  PROVE  \E f \in [0 .. k -> Int] : SumsNet(f, s, k)
<1> DEFINE Without == {n \in 0 .. Len(s) : ~\E f \in [0 .. n -> Int] : SumsNet(f, s, n)}
<1>1. \A i \in 1 .. Len(s) : s[i] \in TradeRecords
  OBVIOUS
<1>2. \A i \in 1 .. Len(s) : s[i].net \in Int
  BY <1>1 DEF TradeRecords
<1>3. SUFFICES ASSUME Without # {} PROVE FALSE
  OBVIOUS
<1>4. Without \in SUBSET Nat /\ Len(s) \in Nat
  OBVIOUS
<1>5. PICK n \in Without : \A m \in Without : n <= m
  <2> HIDE DEF Without
  <2> QED BY <1>3, <1>4, LeastNumber
<1>6. CASE n = 0
  <2> DEFINE f == [i \in 0 .. 0 |-> 0]
  <2>1. f \in [0 .. 0 -> Int] /\ SumsNet(f, s, 0)
    BY DEF SumsNet
  <2> QED BY <1>6, <2>1
<1>7. CASE n # 0
  <2>1. n \in 1 .. Len(s) /\ n - 1 \in 0 .. Len(s) /\ n \in Nat /\ n - 1 \notin Without
    <3>1. n \in 0 .. Len(s)
      OBVIOUS
    <3> HIDE DEF Without
    <3> QED BY <1>4, <1>5, <1>7, <3>1
  <2>2. PICK g \in [0 .. n - 1 -> Int] : SumsNet(g, s, n - 1)
    BY <2>1
  <2> DEFINE f == [i \in 0 .. n |-> IF i = n THEN g[n - 1] + s[n].net ELSE g[i]]
  <2>3. f \in [0 .. n -> Int] /\ f[0] = 0
    BY <1>2, <2>1, <2>2 DEF SumsNet
  <2>4. ASSUME NEW i \in 1 .. n PROVE f[i] = f[i - 1] + s[i].net
    <3>1. CASE i = n
      BY <2>1, <3>1
    <3>2. CASE i # n
      BY <2>1, <2>2, <3>2 DEF SumsNet
    <3> QED BY <3>1, <3>2
  <2>5. SumsNet(f, s, n)
    BY <2>3, <2>4 DEF SumsNet
  <2> QED BY <2>3, <2>5
<1> QED BY <1>6, <1>7

(* Two that add up the same trades agree.                                    *)
LEMMA SumsNetAgree ==
  ASSUME NEW s, NEW t, NEW n \in Nat, NEW f, NEW g, SumsNet(f, s, n), SumsNet(g, t, n),
         \A i \in 1 .. n : s[i] = t[i]
  PROVE  f[n] = g[n]
<1> DEFINE Differ == {m \in 0 .. n : f[m] # g[m]}
<1>1. SUFFICES ASSUME Differ # {} PROVE FALSE
  OBVIOUS
<1>2. Differ \in SUBSET Nat
  OBVIOUS
<1>3. PICK m \in Differ : \A i \in Differ : m <= i
  <2> HIDE DEF Differ
  <2> QED BY <1>1, <1>2, LeastNumber
<1>4. m # 0 /\ m \in 1 .. n /\ m - 1 \in 0 .. n /\ m - 1 \notin Differ
  BY <1>3 DEF SumsNet
<1>5. f[m - 1] = g[m - 1] /\ s[m] = t[m]
  BY <1>4
<1>6. f[m] = g[m]
  BY <1>4, <1>5 DEF SumsNet
<1> QED BY <1>3, <1>6

LEMMA NetOfSums ==
  ASSUME NEW s \in Seq(TradeRecords)
  PROVE  \E f : SumsNet(f, s, Len(s)) /\ f[Len(s)] = NetOf(s) /\ NetOf(s) \in Int
<1> DEFINE Adds(h) == h = [i \in 0 .. Len(s) |-> IF i = 0 THEN 0 ELSE h[i - 1] + s[i].net]
           net == CHOOSE h : Adds(h)
<1>1. Len(s) \in Nat
  OBVIOUS
<1>2. PICK f \in [0 .. Len(s) -> Int] : SumsNet(f, s, Len(s))
  BY <1>1, SumsNetExists
<1>3. Adds(f)
  BY <1>1, <1>2 DEF SumsNet
<1>4. Adds(net)
  BY <1>3
<1>5. NetOf(s) = net[Len(s)]
  BY DEF NetOf
<1> HIDE DEF net
<1>6. SumsNet(net, s, Len(s))
  BY <1>1, <1>4 DEF SumsNet
<1>7. net[Len(s)] = f[Len(s)]
  BY <1>1, <1>2, <1>6, SumsNetAgree
<1> QED BY <1>1, <1>2, <1>5, <1>7

(* The net result of no trades, and of one trade more.                       *)
LEMMA NetOfAppend ==
  ASSUME NEW s \in Seq(TradeRecords), NEW t \in TradeRecords
  PROVE  NetOf(Append(s, t)) = NetOf(s) + t.net
<1> DEFINE r == Append(s, t)
           n == Len(s)
<1>1. r \in Seq(TradeRecords) /\ n \in Nat /\ Len(r) = n + 1 /\ r[n + 1] = t
      /\ \A i \in 1 .. n : s[i] = r[i]
  OBVIOUS
<1> HIDE DEF r, n
<1>2. PICK f : SumsNet(f, s, n) /\ f[n] = NetOf(s)
  BY NetOfSums DEF n
<1>3. PICK g : SumsNet(g, r, n + 1) /\ g[n + 1] = NetOf(r)
  BY <1>1, NetOfSums
<1>4. SumsNet(g, r, n)
  BY <1>1, <1>3 DEF SumsNet
<1>5. f[n] = g[n]
  BY <1>1, <1>2, <1>4, SumsNetAgree
<1>6. g[n + 1] = g[n] + r[n + 1].net
  BY <1>1, <1>3 DEF SumsNet
<1> QED BY <1>1, <1>2, <1>3, <1>5, <1>6 DEF r

LEMMA NetOfNone == NetOf(<<>>) = 0
<1>1. <<>> \in Seq(TradeRecords) /\ Len(<<>>) = 0
  OBVIOUS
<1>2. PICK f : SumsNet(f, <<>>, Len(<<>>)) /\ f[Len(<<>>)] = NetOf(<<>>)
  BY <1>1, NetOfSums
<1> QED BY <1>1, <1>2 DEF SumsNet

-----------------------------------------------------------------------------
(* The equity is the capital and what the trades brought. *)
Balanced(b) == b.equity = InitialCapital + NetOf(b.trades)

LEMMA CloseBalanced ==
  ASSUME NEW b, NEW n \in Nat, InOrder(b, n), b.position # NoPosition, Balanced(b),
         NEW raw \in Int, NEW reason \in Closings
  PROVE  Balanced(ClosePosition(b, n, raw, reason))
<1> DEFINE trade == TradeOf(b.position, n, raw, reason)
           c == ClosePosition(b, n, raw, reason)
<1>1. b \in Books /\ b.position \in Positions
  BY DEF InOrder, Books
<1>2. trade \in TradeRecords
  BY <1>1, TradeType
<1>3. c.equity = b.equity + trade.net /\ c.trades = Append(b.trades, trade)
  <2> HIDE DEF trade
  <2>1. c = [b EXCEPT !.position = NoPosition, !.trades = Append(@, trade),
                      !.equity = @ + trade.net]
    BY DEF ClosePosition, trade
  <2> QED BY <1>1, <2>1 DEF Books
<1> HIDE DEF trade, c
<1>4. b.trades \in Seq(TradeRecords) /\ trade.net \in Int /\ InitialCapital \in Int
  BY <1>1, <1>2, BacktestAssumption DEF Books, TradeRecords
<1>5. NetOf(c.trades) = NetOf(b.trades) + trade.net /\ NetOf(b.trades) \in Int
  BY <1>2, <1>3, <1>4, NetOfAppend, NetOfSums
<1> QED BY <1>3, <1>4, <1>5 DEF Balanced, c

LEMMA BarBalanced ==
  ASSUME NEW b, NEW n \in Nat, InOrder(b, n), Executable(b, n), Balanced(b),
         NEW k \in Candles, NEW d \in Decisions
  PROVE  Balanced(PlayBar(b, n + 1, k, d))
<1> DEFINE taken == [b EXCEPT !.pending = NoDecision]
           e == ExecutePending(b, n + 1, k.open)
           x == IntrabarExit(e, n + 1, k)
           c == Queue(x, n + 1, d)
<1>1. k.open \in Int /\ k.open > 0 /\ n + 1 \in Nat
  BY BacktestAssumption
<1>2. InOrder(e, n + 1) /\ e.pending = NoDecision
  BY <1>1, ExecuteInOrder
<1>3. Balanced(e)
  <2>1. /\ b \in Books /\ taken \in Books /\ taken.trades = b.trades
        /\ taken.position = b.position /\ taken.equity = b.equity
    BY DEF InOrder, Books
  <2>2. e = IF b.pending.action = "EXIT" /\ b.position # NoPosition
            THEN ClosePosition(taken, n + 1, k.open, "signal")
            ELSE IF b.pending.action \in Entries /\ b.position = NoPosition
            THEN Enter(taken, n + 1, b.pending, k.open) ELSE taken
    BY DEF ExecutePending
  <2> HIDE DEF taken, e
  <2>3. InOrder(taken, n + 1)
    <3>1. InOrder(taken, n)
      BY <2>1 DEF InOrder, HasUnits, PositionInOrder
    <3> QED BY <3>1, InOrderLater
  <2>4. Balanced(taken) /\ "signal" \in Closings
    BY <2>1 DEF Balanced, Closings
  <2>5. CASE b.pending.action = "EXIT" /\ b.position # NoPosition
    <3>1. Balanced(ClosePosition(taken, n + 1, k.open, "signal"))
      BY <1>1, <2>1, <2>3, <2>4, <2>5, CloseBalanced
    <3> QED BY <2>2, <2>5, <3>1
  <2>6. CASE b.pending.action \in Entries /\ b.position = NoPosition
    <3>1. e = Enter(taken, n + 1, b.pending, k.open)
      BY <2>2, <2>6
    <3>2. \E p : e = [taken EXCEPT !.position = p] \/ e = [taken EXCEPT !.rejected = p]
      BY <3>1 DEF Enter
    <3>3. e.trades = taken.trades /\ e.equity = taken.equity
      BY <2>1, <3>2 DEF Books
    <3> QED BY <2>4, <3>3 DEF Balanced
  <2>7. CASE ~(b.pending.action = "EXIT" /\ b.position # NoPosition)
             /\ ~(b.pending.action \in Entries /\ b.position = NoPosition)
    BY <2>2, <2>4, <2>7
  <2> QED BY <2>5, <2>6, <2>7
<1>4. PlayBar(b, n + 1, k, d) = c
  BY DEF PlayBar
<1> HIDE DEF e
<1>5. Balanced(x)
  <2> DEFINE p == e.position
  <2>1. e \in Books /\ "stop" \in Closings /\ "target" \in Closings
    BY <1>2 DEF InOrder, Closings
  <2>2. CASE p = NoPosition \/ (~ReachesStop(p, k) /\ ~ReachesTarget(p, k))
    BY <1>3, <2>2 DEF IntrabarExit
  <2>3. CASE p # NoPosition /\ ReachesStop(p, k)
    <3>1. x = ClosePosition(e, n + 1, StopPrice(p, k), "stop")
      BY <2>3 DEF IntrabarExit
    <3>2. StopPrice(p, k) \in Int
      BY <1>1, <2>1, <2>3, StopIsFair DEF Books
    <3> HIDE DEF x
    <3> QED BY <1>1, <1>2, <1>3, <2>1, <2>3, <3>1, <3>2, CloseBalanced
  <2>4. CASE p # NoPosition /\ ~ReachesStop(p, k) /\ ReachesTarget(p, k)
    <3>1. x = ClosePosition(e, n + 1, TargetPrice(p, k), "target")
      BY <2>4 DEF IntrabarExit
    <3>2. TargetPrice(p, k) \in Int
      BY <1>1, <2>1, <2>4, TargetIsFair DEF Books
    <3> HIDE DEF x
    <3> QED BY <1>1, <1>2, <1>3, <2>1, <2>4, <3>1, <3>2, CloseBalanced
  <2> QED BY <2>2, <2>3, <2>4
<1>6. InOrder(x, n + 1)
  BY <1>1, <1>2, ExitInOrder
<1> HIDE DEF x
<1>7. c.trades = x.trades /\ c.equity = x.equity
  <2>1. c = x \/ \E q : c = [x EXCEPT !.pending = q]
    BY DEF Queue
  <2> HIDE DEF c
  <2> QED BY <1>6, <2>1 DEF InOrder, Books
<1> QED BY <1>4, <1>5, <1>7 DEF Balanced

-----------------------------------------------------------------------------
(* The points of a curve up to bar i,   the capital before all of them.      *)
Points(s, i) == {InitialCapital} \cup {s[j] : j \in 1 .. i}

IsHighest(h, S) == h \in S /\ \A y \in S : y <= h

LEMMA HighestIsMax ==
  ASSUME NEW S \in SUBSET Int, NEW h, IsHighest(h, S)
  PROVE  Max(S) = h
<1>1. PICK m \in S : m = Max(S) /\ \A y \in S : m >= y
  BY DEF IsHighest, Max
<1>2. h \in Int /\ m \in Int /\ m <= h /\ h <= m
  BY <1>1 DEF IsHighest
<1> QED BY <1>1, <1>2

(* One point more.                                                           *)
LEMMA HighestOfMore ==
  ASSUME NEW S \in SUBSET Int, NEW h, IsHighest(h, S), NEW m \in Int
  PROVE  /\ IsHighest(Max({h, m}), S \cup {m}) /\ Max({h, m}) \in Int
         /\ h <= Max({h, m}) /\ m <= Max({h, m})
<1>1. h \in Int
  BY DEF IsHighest
<1>2. PICK x \in {h, m} : \A y \in {h, m} : x >= y
  BY <1>1
<1>3. Max({h, m}) \in {h, m} /\ \A y \in {h, m} : Max({h, m}) >= y
  BY <1>2 DEF Max
<1> DEFINE z == Max({h, m})
<1> HIDE DEF z
<1>4. z \in {h, m} /\ h <= z /\ m <= z /\ z \in Int
  BY <1>1, <1>3 DEF z
<1>5. IsHighest(z, S \cup {m})
  BY <1>1, <1>4 DEF IsHighest
<1> QED BY <1>4, <1>5 DEF z

(* The fall and the peak of a bar, and the highest point of the curve until   *)
(* then, which is the peak unless the data ended there.                      *)
DrawOf(i) ==
  /\ draws[i].fall = draws[i].peak - curve[i]
  /\ \E h : /\ IsHighest(h, Points(curve, i)) /\ h <= draws[i].peak
            /\ h = draws[i].peak \/ (finished /\ i = bars)

MoneyInv ==
  /\ Balanced(book)
  /\ bars > 0 /\ book.position = NoPosition => curve[bars] = book.equity
  /\ finished => book.position = NoPosition
  /\ ~finished => IsHighest(peak, Points(curve, bars))
  /\ \A i \in 1 .. bars : DrawOf(i)

LEMMA PointsType ==
  ASSUME TypeOK, NEW i \in 0 .. bars
  PROVE  Points(curve, i) \in SUBSET Int
<1>1. curve \in Seq(Int) /\ Len(curve) = bars /\ bars \in Nat /\ InitialCapital \in Int
  BY BacktestAssumption DEF TypeOK
<1>2. \A j \in 1 .. bars : curve[j] \in Int
  BY <1>1
<1> QED BY <1>1, <1>2 DEF Points

LEMMA BarMoney ==
  ASSUME IInv, MoneyInv, Bar
  PROVE  MoneyInv'
<1>1. PICK c \in Candles, d \in Decisions :
        LET b == PlayBar(book, bars + 1, c, d)
        IN /\ book' = b
           /\ curve' = Append(curve, Marked(b, c))
           /\ peak' = Max({peak, Marked(b, c)})
           /\ draws' = Append(draws, [fall |-> peak' - Marked(b, c), peak |-> peak'])
  BY DEF Bar, BarWith
<1> DEFINE m == Marked(book', c)
<1>2. /\ curve' = Append(curve, m) /\ peak' = Max({peak, m})
      /\ draws' = Append(draws, [fall |-> peak' - m, peak |-> peak'])
      /\ book' = PlayBar(book, bars + 1, c, d)
  BY <1>1
<1>3. /\ bars \in Nat /\ bars' = bars + 1 /\ ~finished /\ ~finished'
      /\ Len(curve) = bars /\ Len(draws) = bars /\ TypeOK /\ TypeOK'
      /\ curve \in Seq(Int) /\ draws \in Seq([fall : Int, peak : Int])
  <2>1. IInv' /\ ~finished /\ UNCHANGED finished /\ bars' = bars + 1
    BY BarInvariant DEF Bar, BarWith
  <2> QED BY <2>1, BacktestAssumption DEF IInv, TypeOK
<1>4. m \in Int
  BY <1>3, MarkedType DEF TypeOK
<1>5. Balanced(book)'
  BY <1>2, <1>3, BarBalanced DEF IInv, MoneyInv, Balanced
<1>6. book'.position = NoPosition => m = book'.equity
  BY DEF Marked
<1> HIDE DEF m
<1>7. /\ \A j \in 1 .. bars : curve'[j] = curve[j] /\ draws'[j] = draws[j]
      /\ curve'[bars + 1] = m
      /\ draws'[bars + 1] = [fall |-> peak' - m, peak |-> peak']
  BY <1>2, <1>3, <1>4
<1>8. /\ \A i \in 0 .. bars : Points(curve', i) = Points(curve, i)
      /\ Points(curve', bars + 1) = Points(curve, bars) \cup {m}
  <2>1. ASSUME NEW i \in 0 .. bars PROVE Points(curve', i) = Points(curve, i)
    <3>1. \A j \in 1 .. i : j \in 1 .. bars
      BY <1>3
    <3> QED BY <1>7, <3>1 DEF Points
  <2>2. 1 .. bars + 1 = (1 .. bars) \cup {bars + 1}
    BY <1>3
  <2>3. {curve'[j] : j \in 1 .. bars + 1} = {curve[j] : j \in 1 .. bars} \cup {m}
    BY <1>7, <2>2
  <2> QED BY <2>1, <2>3 DEF Points
<1>9. IsHighest(peak, Points(curve, bars)) /\ Points(curve, bars) \in SUBSET Int
  BY <1>3, PointsType DEF MoneyInv
<1>10. IsHighest(peak', Points(curve', bars + 1)) /\ peak' \in Int
  BY <1>2, <1>4, <1>8, <1>9, HighestOfMore
<1>11. ASSUME NEW i \in 1 .. bars' PROVE DrawOf(i)'
  <2>1. CASE i = bars + 1
    <3>1. draws'[i].fall = draws'[i].peak - curve'[i] /\ draws'[i].peak = peak'
      BY <1>7, <2>1
    <3> QED BY <1>10, <2>1, <3>1 DEF DrawOf
  <2>2. CASE i # bars + 1
    <3>1. i \in 1 .. bars /\ i \in 0 .. bars
      BY <1>3, <2>2
    <3>2. DrawOf(i) /\ draws'[i] = draws[i] /\ curve'[i] = curve[i] /\ Points(curve', i) = Points(curve, i)
      BY <1>7, <1>8, <3>1 DEF MoneyInv
    <3> QED BY <1>3, <3>2 DEF DrawOf
  <2> QED BY <2>1, <2>2
<1>12. /\ bars' > 0 /\ book'.position = NoPosition => curve'[bars'] = book'.equity
       /\ finished' => book'.position = NoPosition
  BY <1>3, <1>6, <1>7
<1>13. ~finished' => IsHighest(peak', Points(curve', bars'))
  BY <1>3, <1>10
<1> QED BY <1>5, <1>11, <1>12, <1>13 DEF MoneyInv

LEMMA FinishMoney ==
  ASSUME IInv, MoneyInv, Finish
  PROVE  MoneyInv'
<1>1. /\ bars' = bars /\ bars \in Nat /\ ~finished /\ finished' /\ TypeOK
      /\ Len(curve) = bars /\ Len(draws) = bars
      /\ curve \in Seq(Int) /\ draws \in Seq([fall : Int, peak : Int])
  BY BacktestAssumption DEF Finish, IInv, TypeOK
<1>2. CASE book.position = NoPosition
  <2>1. UNCHANGED <<book, peak, curve, draws>>
    BY <1>2 DEF Finish
  <2> QED BY <1>1, <1>2, <2>1 DEF MoneyInv, Balanced, DrawOf
<1>3. CASE book.position # NoPosition
  <2> DEFINE b == ClosePosition(book, bars, candle.close, "end_of_data")
             e == b.equity
  <2>1. /\ book' = b
        /\ peak' = Max({peak, e})
        /\ curve' = [curve EXCEPT ![bars] = e]
        /\ draws' = [draws EXCEPT ![bars] = [fall |-> peak' - e, peak |-> peak']]
    BY <1>3 DEF Finish
  <2>2. candle.close \in Int /\ "end_of_data" \in Closings /\ InOrder(book, bars)
    BY BacktestAssumption DEF IInv, TypeOK, Closings
  <2>3. /\ InOrder(b, bars) /\ b.position = NoPosition /\ Balanced(b)
    BY <1>1, <1>3, <2>2, CloseInOrder, CloseBalanced DEF MoneyInv
  <2>4. bars \in 1 .. bars /\ bars - 1 \in 0 .. bars
    <3>1. book.position \in Positions /\ book.position.entered <= bars
          /\ book.position.entered = book.position.signal + 1
      BY <1>3, <2>2 DEF InOrder, Books, PositionInOrder
    <3> QED BY <1>1, <3>1 DEF Positions
  <2>5. e \in Int
    BY <2>3 DEF InOrder, Books
  <2> HIDE DEF b, e
  <2>6. /\ curve'[bars] = e /\ draws'[bars] = [fall |-> peak' - e, peak |-> peak']
        /\ \A j \in 1 .. bars - 1 : curve'[j] = curve[j] /\ draws'[j] = draws[j]
    BY <1>1, <2>1, <2>4
  <2>7. \A i \in 0 .. bars - 1 : Points(curve', i) = Points(curve, i)
    <3> SUFFICES ASSUME NEW i \in 0 .. bars - 1
                 PROVE  Points(curve', i) = Points(curve, i)
      OBVIOUS
    <3>1. \A j \in 1 .. i : j \in 1 .. bars - 1
      BY <1>1
    <3> QED BY <2>6, <3>1 DEF Points
  <2>8. Points(curve', bars) = Points(curve, bars - 1) \cup {e}
    <3>1. 1 .. bars = (1 .. bars - 1) \cup {bars}
      BY <1>1, <2>4
    <3> QED BY <2>6, <3>1 DEF Points
  <2>9. PICK h : IsHighest(h, Points(curve, bars - 1))
    <3>1. CASE bars = 1
      BY <3>1, BacktestAssumption DEF Points, IsHighest
    <3>2. CASE bars # 1
      <4>1. bars - 1 \in 1 .. bars
        BY <2>4, <3>2
      <4> QED BY <4>1 DEF MoneyInv, DrawOf
    <3> QED BY <3>1, <3>2
  <2>10. Points(curve, bars - 1) \in SUBSET Int
    BY <1>1, <2>4, PointsType
  <2>11. h \in Int /\ peak \in Int /\ h <= peak
    <3>1. \A j \in 1 .. bars - 1 : j \in 1 .. bars
      BY <1>1
    <3>2. h \in Points(curve, bars)
      BY <2>9, <3>1 DEF Points, IsHighest
    <3> QED BY <1>1, <2>9, <2>10, <3>2 DEF IsHighest, MoneyInv, TypeOK
  <2>12. IsHighest(Max({h, e}), Points(curve', bars)) /\ Max({h, e}) \in Int
    BY <2>5, <2>8, <2>9, <2>10, HighestOfMore
  <2>13. Max({h, e}) <= peak' /\ peak' \in Int
    <3>1. IsHighest(peak, {peak}) /\ IsHighest(h, {h})
      BY <2>11 DEF IsHighest
    <3>2. peak <= peak' /\ e <= peak' /\ peak' \in Int
      BY <2>1, <2>5, <2>11, <3>1, HighestOfMore
    <3>3. Max({h, e}) \in {h, e}
      BY <2>5, <2>11, MaxOfTwo
    <3> QED BY <2>5, <2>11, <3>2, <3>3
  <2>14. ASSUME NEW i \in 1 .. bars PROVE DrawOf(i)'
    <3>1. CASE i = bars
      <4>1. draws'[i].fall = draws'[i].peak - curve'[i] /\ draws'[i].peak = peak'
        BY <2>6, <3>1
      <4> QED BY <1>1, <2>12, <2>13, <3>1, <4>1 DEF DrawOf
    <3>2. CASE i # bars
      <4>1. i \in 1 .. bars - 1 /\ i \in 0 .. bars - 1
        BY <1>1, <3>2
      <4>2. /\ DrawOf(i) /\ draws'[i] = draws[i] /\ curve'[i] = curve[i]
            /\ Points(curve', i) = Points(curve, i)
        BY <2>6, <2>7, <4>1 DEF MoneyInv
      <4> QED BY <1>1, <3>2, <4>2 DEF DrawOf
    <3> QED BY <3>1, <3>2
  <2>15. curve'[bars'] = book'.equity /\ book'.position = NoPosition /\ Balanced(book)'
    BY <1>1, <2>1, <2>3, <2>6 DEF e, Balanced
  <2> QED BY <1>1, <2>14, <2>15 DEF MoneyInv
<1> QED BY <1>2, <1>3

LEMMA InitMoney == Init => MoneyInv
<1> SUFFICES ASSUME Init PROVE MoneyInv
  OBVIOUS
<1>1. /\ book.equity = InitialCapital /\ book.trades = <<>> /\ bars = 0 /\ ~finished
      /\ peak = InitialCapital /\ InitialCapital \in Int
  BY BacktestAssumption DEF Init
<1>2. Balanced(book)
  BY <1>1, NetOfNone DEF Balanced
<1>3. IsHighest(peak, Points(curve, 0))
  BY <1>1 DEF IsHighest, Points
<1> QED BY <1>1, <1>2, <1>3 DEF MoneyInv

LEMMA MoneyStep ==
  ASSUME IInv, MoneyInv, [Next]_vars
  PROVE  MoneyInv'
<1>1. CASE UNCHANGED vars
  BY <1>1 DEF vars, MoneyInv, Balanced, DrawOf
<1> QED BY <1>1, BarMoney, FinishMoney DEF Next

(* Whatever the candles, the provider, the costs and the length of a backtest: *)
(* its equity is the capital and the net result of all its trades, the curve  *)
(* ends in it, and every drawdown is measured from the highest point before   *)
(* (engine.py:313-314, 376-399).                                              *)
THEOREM BooksAlwaysAddUp == Spec => []BooksAddUp
<1>1. ASSUME IInv, MoneyInv PROVE BooksAddUp
  <2> DEFINE Highest(i) == Max({InitialCapital} \cup {curve[j] : j \in 1 .. i})
  <2>1. ASSUME NEW i \in 1 .. bars
        PROVE  /\ draws[i].peak >= Highest(i) /\ draws[i].fall = draws[i].peak - curve[i]
               /\ draws[i].peak = Highest(i) \/ (finished /\ i = bars)
    <3>1. PICK h : /\ IsHighest(h, Points(curve, i)) /\ h <= draws[i].peak
                   /\ h = draws[i].peak \/ (finished /\ i = bars)
      BY <1>1 DEF MoneyInv, DrawOf
    <3>2. TypeOK /\ i \in 0 .. bars /\ bars \in Nat
      BY <1>1, BacktestAssumption DEF IInv, TypeOK
    <3>3. Points(curve, i) \in SUBSET Int
      BY <3>2, PointsType
    <3>4. Highest(i) = h
      BY <3>1, <3>3, HighestIsMax DEF Points
    <3>5. h \in Int /\ draws[i].peak \in Int
      <4>1. draws[i] \in [fall : Int, peak : Int]
        <5>1. draws \in Seq([fall : Int, peak : Int]) /\ Len(draws) = bars
          BY <3>2 DEF TypeOK
        <5>2. i \in 1 .. Len(draws)
          BY <5>1
        <5> QED BY <5>1, <5>2, ElementOfSeq
      <4>2. draws[i].peak \in Int
        BY <4>1
      <4>3. h \in Points(curve, i)
        BY <3>1 DEF IsHighest
      <4> QED BY <3>3, <4>2, <4>3
    <3> HIDE DEF Highest
    <3>6. DrawOf(i)
      BY <1>1 DEF MoneyInv
    <3> QED BY <3>1, <3>4, <3>5, <3>6 DEF DrawOf
  <2>2. /\ book.equity = InitialCapital + NetOf(book.trades)
        /\ bars > 0 /\ book.position = NoPosition => curve[bars] = book.equity
        /\ finished => book.position = NoPosition
    BY <1>1 DEF MoneyInv, Balanced
  <2> QED BY <2>1, <2>2, Zenon DEF BooksAddUp
<1> QED BY <1>1, InitMoney, MoneyStep, InvariantHolds, PTL DEF Spec

-----------------------------------------------------------------------------

(* A backtest whose decisions are made by strategies is a backtest: what     *)
(* holds for any provider holds for this one (strategies/engine.py, backtesting/ *)
(* engine.py:364-368).                                                        *)
THEOREM StrategiesAreAProvider == SSpec => Spec
<1>1. SInit => Init
  BY DEF SInit
<1>2. AnsweredBar => Bar
  <2> SUFFICES ASSUME AnsweredBar PROVE Bar
    OBVIOUS
  <2>1. PICK c \in Candles : \E a \in Answers[c] : BarWith(c, a.decision)
    BY DEF AnsweredBar
  <2>2. PICK a \in Answers[c] : BarWith(c, a.decision)
    BY <2>1
  <2>3. a.decision \in Decisions
    BY AnswersAssumption
  <2> QED BY <2>2, <2>3 DEF Bar
<1>3. [SNext]_<<vars, basis>> => [Next]_vars
  BY <1>2 DEF SNext, Next
<1> QED BY <1>1, <1>3, PTL DEF SSpec, Spec

-----------------------------------------------------------------------------
(* What a strategy proposes and the decision engine lets pass. *)

LEMMA SnapshotIsContext ==
  ASSUME NEW m \in Snapshots, NEW c \in Candles
  PROVE  SnapshotAt(m, c) \in Contexts
<1>1. c.close \in Nat
  BY BacktestAssumption
<1>2. m \in Contexts
  BY SnapshotsAssumption
<1> QED BY <1>1, <1>2 DEF SnapshotAt, Contexts

LEMMA ContextTypes ==
  ASSUME NEW m \in Contexts
  PROVE  /\ m.close \in Int /\ m.vwap \in Int /\ m.atr \in Nat
         /\ m.eventRisk \in BOOLEAN /\ m.sessionAllowed \in BOOLEAN
BY DEF Contexts

(* A decision to enter is a proposal that was confirmed behind the gate. *)
LEMMA EntryIsProposal ==
  ASSUME NEW m, NEW name, NEW scores, Decide(Evaluate(name, m), scores).action \in Entries
  PROVE  LET d == Decide(Evaluate(name, m), scores)
             s == Proposal(name, d.action, m)
         IN /\ Gate(name, m) = {} /\ Confirms(name, d.action, m)
            /\ EntryReasons(s, scores) = {}
            /\ d.stop = s.stop /\ d.target = s.target
<1> DEFINE s == Evaluate(name, m)
           d == Decide(s, scores)
<1>1. s.action \in Entries /\ RejectionReasons(s, scores) = {} /\ d.action = s.action
      /\ d.stop = s.stop /\ d.target = s.target
  <2> HIDE DEF s
  <2>1. d.action \in Entries
    BY DEF s
  <2> QED BY <2>1 DEF Decide, Entries
<1>2. "NO_TRADE" \notin Entries
  BY DEF Entries
<1>3. Gate(name, m) = {}
  BY <1>1, <1>2 DEF Evaluate, NoTrade
<1>4. \/ Confirms(name, "LONG", m) /\ s = Proposal(name, "LONG", m)
      \/ Confirms(name, "SHORT", m) /\ s = Proposal(name, "SHORT", m)
  BY <1>1, <1>2, <1>3 DEF Evaluate, NoTrade
<1> HIDE DEF s
<1>5. Confirms(name, s.action, m) /\ s = Proposal(name, s.action, m)
  BY <1>4 DEF Proposal
<1>6. EntryReasons(s, scores) = {}
  BY <1>1, <1>2 DEF RejectionReasons
<1> HIDE DEF d
<1> QED BY <1>1, <1>3, <1>5, <1>6 DEF s, d

LEMMA PassesGate ==
  ASSUME NEW m \in Contexts, NEW name, Gate(name, m) = {}
  PROVE  m.sessionAllowed /\ ~m.eventRisk /\ Liquidity(m) # "low_liquidity"
<1>1. /\ m.sessionAllowed \/ "OUTSIDE_TRADING_SESSION" \in Gate(name, m)
      /\ ~m.eventRisk \/ "EVENT_RISK_LOCK" \in Gate(name, m)
      /\ Liquidity(m) # "low_liquidity" \/ "LOW_LIQUIDITY" \in Gate(name, m)
  BY DEF Gate, ClassifyRegime
<1> QED BY <1>1

LEMMA FollowersFollow ==
  ASSUME NEW m, NEW name \in {"trend_continuation", "fvg_continuation"}, NEW d,
         Confirms(name, d, m)
  PROVE  Trend(m) = TrendOf(d) /\ m.higherTimeframeTrend = TrendOf(d)
<1>1. FollowsTrends(d, m)
  BY DEF Confirms, ContinuesTrend, RetracesIntoGap
<1> QED BY <1>1 DEF FollowsTrends

LEMMA WorthItsRisk ==
  ASSUME NEW s, NEW scores, s.action \in Entries, EntryReasons(s, scores) = {}
  PROVE  HasGeometry(s) /\ ~(RewardOf(s) * 100 < RiskOf(s) * MinRiskReward)
<1>1. \/ HasGeometry(s)
      \/ "INVALID_PRICE_GEOMETRY" \in EntryReasons(s, scores)
  BY DEF EntryReasons
<1>2. HasGeometry(s)
  BY <1>1
<1>3. \/ ~(RewardOf(s) * 100 < RiskOf(s) * MinRiskReward)
      \/ "RISK_REWARD_BELOW_THRESHOLD" \in EntryReasons(s, scores)
  BY <1>2 DEF EntryReasons
<1> QED BY <1>2, <1>3

LEMMA AnswerIsJustified ==
  ASSUME NEW m \in Contexts, NEW name \in StrategyNames, NEW scores,
         NEW d, d = Decide(Evaluate(name, m), scores), d.action \in Entries
  PROVE  Justified([strategy |-> name, market |-> m], d.action, d.stop, d.target)
<1> DEFINE s == Proposal(name, d.action, m)
           reason == [strategy |-> name, market |-> m]
<1>1. /\ Gate(name, m) = {} /\ Confirms(name, d.action, m)
      /\ EntryReasons(s, scores) = {} /\ d.stop = s.stop /\ d.target = s.target
  BY EntryIsProposal
<1>2. reason # NoBasis /\ reason.strategy = name /\ reason.market = m
  BY DEF NoBasis, StrategyNames
<1>3. m.sessionAllowed /\ ~m.eventRisk /\ Liquidity(m) # "low_liquidity"
  BY <1>1, PassesGate
<1>4. name \in {"trend_continuation", "fvg_continuation"} =>
        Trend(m) = TrendOf(d.action) /\ m.higherTimeframeTrend = TrendOf(d.action)
  BY <1>1, FollowersFollow
<1>5. s.action = d.action /\ s.entry = m.close
  BY DEF Proposal
<1> HIDE DEF s
<1>6. HasGeometry(s) /\ ~(RewardOf(s) * 100 < RiskOf(s) * MinRiskReward)
  BY <1>1, <1>5, WorthItsRisk
<1>7. m.close \in Int /\ s.stop \in Int /\ s.target \in Int /\ MinRiskReward \in Int
  <2>1. m.close \in Int /\ m.vwap \in Int /\ m.atr \in Nat
    BY ContextTypes
  <2>2. m.atr * StopAtrMultiple \in Int /\ m.atr * StopAtrMultiple * TargetRiskMultiple \in Int
    BY <2>1, StrategyAssumption
  <2>3. SignOf(d.action) \in {1, -1}
    BY DEF SignOf
  <2> QED BY <2>1, <2>2, <2>3, DecisionAssumption DEF s, Proposal, StopOf, TargetOf
<1> DEFINE risk == RiskOf(s)
           reward == RewardOf(s)
<1>8. risk \in Int /\ reward \in Int /\ risk > 0
  <2>1. RiskOf(s) > 0
    BY <1>6 DEF HasGeometry
  <2> QED BY <1>5, <1>7, <2>1 DEF RiskOf, RewardOf
<1>10. ~(reward * 100 < risk * MinRiskReward)
  BY <1>6
<1>9. Gain(d.action, d.stop, m.close) = risk /\ Gain(d.action, m.close, d.target) = reward
  BY <1>1, <1>5, <1>7 DEF RiskOf, RewardOf, Gain
<1> HIDE DEF risk, reward, reason
<1>11. reward * 100 >= risk * MinRiskReward
  <2> DEFINE x == risk * MinRiskReward
             y == reward * 100
  <2>1. x \in Int /\ y \in Int /\ ~(y < x)
    BY <1>7, <1>8, <1>10
  <2> HIDE DEF x, y
  <2>2. y >= x
    BY <2>1
  <2> QED BY <2>2 DEF x, y
<1> QED BY <1>2, <1>3, <1>4, <1>8, <1>9, <1>11 DEF Justified, reason

-----------------------------------------------------------------------------
(* What the risk policy approves can lose no more than its share. *)

LEMMA MinIsBelow ==
  ASSUME NEW a \in Int, NEW b \in Int
  PROVE  Min({a, b}) <= a /\ Min({a, b}) <= b
<1>1. PICK m \in {a, b} : \A y \in {a, b} : m <= y
  OBVIOUS
<1> QED BY <1>1 DEF Min

LEMMA DividedBack ==
  ASSUME NEW a \in Int, NEW k \in Int, k > 0
  PROVE  (a \div k) * k <= a /\ a \div k \in Int
OBVIOUS

LEMMA Scaled ==
  ASSUME NEW a \in Int, NEW b \in Int, NEW k \in Int, k >= 0, a <= b
  PROVE  a * k <= b * k
OBVIOUS

LEMMA ApprovedIsBounded ==
  ASSUME NEW d \in Queued, d.action \in Entries, NEW equity \in Int, NEW fill \in Int, fill > 0,
         Approves(d, equity, fill), NEW p, p.direction = d.action, p.price = fill,
         p.stop = d.stop, p.target = d.target, p.quantity = Sized(d, equity, fill)
  PROVE  Bounded(p, equity)
<1> DEFINE risk == Gain(d.action, d.stop, fill)
           share == Min({d.risk, RiskCap})
           worth == (equity * NotionalCap) \div (100 * fill)
           units == (equity * share) \div (100 * risk)
           q == Sized(d, equity, fill)
<1>1. d.stop \in Int /\ d.target \in Int /\ d.risk \in Int /\ d.risk > 0 /\ q \in Int /\ q > 0
  BY ApprovedSize DEF Approves, Queued
<1>2. /\ risk \in Int /\ risk > 0 /\ Gain(d.action, fill, d.target) > 0
      /\ risk = IF d.stop < fill THEN fill - d.stop ELSE d.stop - fill
  BY <1>1 DEF Approves, ValidAtFill, Gain, Entries
<1>3. RiskCap \in Nat /\ NotionalCap \in Nat
  BY BacktestAssumption
<1>4. share \in Int /\ share <= RiskCap /\ share >= 0
  BY <1>1, <1>3, MinOfTwo, MinIsBelow
<1>5. q = Min({units, worth})
  BY <1>2 DEF Sized
<1> HIDE DEF risk, share, q
<1>6. 100 * risk \in Int /\ 100 * risk > 0 /\ 100 * fill \in Int /\ 100 * fill > 0
      /\ equity * share \in Int /\ equity * NotionalCap \in Int
  BY <1>2, <1>3, <1>4
<1>7. units \in Int /\ worth \in Int /\ units * (100 * risk) <= equity * share
  BY <1>6, DividedBack
<1> HIDE DEF units, worth
<1>8. q <= units
  BY <1>5, <1>7, MinIsBelow
<1>9. q * (100 * risk) <= units * (100 * risk)
  BY <1>1, <1>6, <1>7, <1>8, Scaled
<1>10. q * (100 * risk) <= equity * share /\ q * (100 * risk) \in Int
  <2> DEFINE k == 100 * risk
  <2>1. k \in Int
    BY <1>6
  <2> HIDE DEF k
  <2>2. q * k \in Int /\ units * k \in Int
    BY <1>1, <1>7, <2>1
  <2> QED BY <1>6, <1>7, <1>9, <2>2 DEF k
<1>11. q * (100 * risk) > 0
  BY <1>1, <1>6
<1>12. equity >= 0
  <2>1. equity * share > 0
    BY <1>6, <1>10, <1>11
  <2>2. ASSUME equity < 0 PROVE FALSE
    BY <1>4, <2>1, <2>2
  <2> QED BY <2>2
<1>13. share * equity <= RiskCap * equity
  BY <1>3, <1>4, <1>12, Scaled
<1>14. risk * q * 100 <= equity * RiskCap
  <2>1. risk * q * 100 = q * (100 * risk)
    BY <1>1, <1>2
  <2>2. share * equity = equity * share /\ RiskCap * equity = equity * RiskCap
        /\ equity * RiskCap \in Int
    BY <1>3, <1>4
  <2> QED BY <1>6, <1>10, <1>13, <2>1, <2>2
<1> QED BY <1>2, <1>14 DEF Bounded, risk, q

-----------------------------------------------------------------------------
(* A book whose queued entry and whose position have a good reason. *)
Backed(b, reason) ==
  /\ b.pending.action \in Entries =>
       Justified(reason, b.pending.action, b.pending.stop, b.pending.target)
  /\ b.position # NoPosition =>
       /\ Justified(reason, b.position.direction, b.position.stop, b.position.target)
       /\ Bounded(b.position, b.equity)

LEMMA NoEntryInNone == NoDecision.action \notin Entries
BY DEF NoDecision, Entries

LEMMA CloseBacked ==
  ASSUME NEW b \in Books, NEW n, NEW raw, NEW why, NEW reason,
         b.pending.action \in Entries =>
           Justified(reason, b.pending.action, b.pending.stop, b.pending.target)
  PROVE  Backed(ClosePosition(b, n, raw, why), reason)
<1> DEFINE c == ClosePosition(b, n, raw, why)
<1>1. c.position = NoPosition /\ c.pending = b.pending
  BY DEF ClosePosition, Books
<1> HIDE DEF c
<1>2. Backed(c, reason)
  BY <1>1 DEF Backed
<1> QED BY <1>2 DEF c

(* What is opened at the next open has the reason it was queued for. *)
LEMMA EnterBacked ==
  ASSUME NEW b \in Books, b.position = NoPosition, b.pending = NoDecision,
         NEW n \in Nat, NEW d \in Queued, d.action \in Entries, NEW open \in Int, open > 0,
         NEW reason, Justified(reason, d.action, d.stop, d.target)
  PROVE  Backed(Enter(b, n, d, open), reason)
<1> DEFINE fill == Slipped(open, d.action)
           q == Sized(d, b.equity, fill)
           p == [direction |-> d.action, quantity |-> q, signal |-> d.at, entered |-> n,
                 price |-> fill, stop |-> d.stop, target |-> d.target, cost |-> Cost(fill * q)]
           e == Enter(b, n, d, open)
<1>1. fill \in Int /\ fill > 0 /\ b.equity \in Int
  BY FillPositive DEF Books
<1>2. CASE Approves(d, b.equity, fill)
  <2>1. e = [b EXCEPT !.position = p]
    BY <1>2 DEF Enter
  <2>2. /\ p.direction = d.action /\ p.price = fill /\ p.stop = d.stop
        /\ p.target = d.target /\ p.quantity = Sized(d, b.equity, fill)
    OBVIOUS
  <2> HIDE DEF e, p
  <2>3. e.position = p /\ e.pending = NoDecision /\ e.equity = b.equity
    BY <2>1 DEF Books
  <2> HIDE DEF fill
  <2>4. Bounded(p, b.equity)
    BY <1>1, <1>2, <2>2, ApprovedIsBounded
  <2>5. Backed(e, reason)
    BY <2>2, <2>3, <2>4, NoEntryInNone DEF Backed
  <2> QED BY <2>5 DEF e
<1>3. CASE ~Approves(d, b.equity, fill)
  <2>1. e = [b EXCEPT !.rejected = Append(@, n)]
    BY <1>3 DEF Enter
  <2> HIDE DEF e
  <2>2. e.position = NoPosition /\ e.pending = NoDecision
    BY <2>1 DEF Books
  <2>3. Backed(e, reason)
    BY <2>2, NoEntryInNone DEF Backed
  <2> QED BY <2>3 DEF e
<1> QED BY <1>2, <1>3

LEMMA ExecuteBacked ==
  ASSUME NEW b \in Books, NEW n \in Nat, NEW open \in Int, open > 0,
         NEW reason, Backed(b, reason)
  PROVE  Backed(ExecutePending(b, n, open), reason)
<1> DEFINE d == b.pending
           taken == [b EXCEPT !.pending = NoDecision]
           e == ExecutePending(b, n, open)
<1>1. /\ taken \in Books /\ taken.pending = NoDecision /\ taken.position = b.position
      /\ taken.equity = b.equity
  BY DEF Books
<1>2. d \in Queued \/ d = NoDecision
  BY DEF Books
<1>3. e = IF d.action = "EXIT" /\ b.position # NoPosition
          THEN ClosePosition(taken, n, open, "signal")
          ELSE IF d.action \in Entries /\ b.position = NoPosition
          THEN Enter(taken, n, d, open) ELSE taken
  BY DEF ExecutePending
<1> HIDE DEF taken, e
<1>4. CASE d.action = "EXIT" /\ b.position # NoPosition
  <2>1. Backed(ClosePosition(taken, n, open, "signal"), reason)
    BY <1>1, CloseBacked, NoEntryInNone
  <2> QED BY <1>3, <1>4, <2>1 DEF e
<1>5. CASE d.action \in Entries /\ b.position = NoPosition
  <2>1. d \in Queued /\ Justified(reason, d.action, d.stop, d.target) /\ d.action # "EXIT"
    BY <1>2, <1>5, NoEntryInNone DEF Backed, Entries
  <2>2. e = Enter(taken, n, d, open)
    BY <1>3, <1>5, <2>1
  <2> HIDE DEF d
  <2>3. Backed(Enter(taken, n, d, open), reason)
    BY <1>1, <1>5, <2>1, EnterBacked
  <2> QED BY <2>2, <2>3 DEF e
<1>6. CASE /\ ~(d.action = "EXIT" /\ b.position # NoPosition)
           /\ ~(d.action \in Entries /\ b.position = NoPosition)
  <2>1. e = taken
    BY <1>3, <1>6
  <2>2. Backed(taken, reason)
    BY <1>1, NoEntryInNone DEF Backed
  <2> QED BY <2>1, <2>2 DEF e
<1> QED BY <1>4, <1>5, <1>6

LEMMA ExitBacked ==
  ASSUME NEW b \in Books, b.pending = NoDecision, NEW n, NEW k, NEW reason, Backed(b, reason)
  PROVE  Backed(IntrabarExit(b, n, k), reason)
<1>1. \/ IntrabarExit(b, n, k) = b
      \/ IntrabarExit(b, n, k) = ClosePosition(b, n, StopPrice(b.position, k), "stop")
      \/ IntrabarExit(b, n, k) = ClosePosition(b, n, TargetPrice(b.position, k), "target")
  BY DEF IntrabarExit
<1>2. \A raw, why : Backed(ClosePosition(b, n, raw, why), reason)
  BY CloseBacked, NoEntryInNone
<1> QED BY <1>1, <1>2

(* Queueing an answer brings its reason along, and keeps that of a position. *)
LEMMA QueueBacked ==
  ASSUME NEW b \in Books, b.pending = NoDecision, NEW n, NEW d, NEW reason, Backed(b, reason),
         NEW new, d.action \in Entries => Justified(new, d.action, d.stop, d.target),
         NEW next,
         next = IF Queue(b, n, d).pending.action \in Entries THEN new
                ELSE IF Queue(b, n, d).position = NoPosition THEN NoBasis ELSE reason
  PROVE  Backed(Queue(b, n, d), next)
<1> DEFINE c == Queue(b, n, d)
           q == [action |-> d.action, stop |-> d.stop, target |-> d.target,
                 risk |-> d.risk, at |-> n]
           fits == \/ d.action = "EXIT" /\ b.position # NoPosition
                   \/ d.action \in Entries /\ b.position = NoPosition
<1>1. CASE fits
  <2>1. c = [b EXCEPT !.pending = q]
    BY <1>1 DEF Queue
  <2>2. q.action = d.action /\ q.stop = d.stop /\ q.target = d.target
    OBVIOUS
  <2> HIDE DEF c, q
  <2>3. c.pending = q /\ c.position = b.position /\ c.equity = b.equity
    BY <2>1 DEF Books
  <2>4. next = IF c.pending.action \in Entries THEN new
               ELSE IF c.position = NoPosition THEN NoBasis ELSE reason
    BY DEF c
  <2>5. Backed(c, next)
    <3>1. CASE d.action = "EXIT" /\ b.position # NoPosition
      <4>1. q.action \notin Entries
        BY <2>2, <3>1 DEF Entries
      <4> QED BY <2>3, <2>4, <3>1, <4>1 DEF Backed
    <3>2. CASE d.action \in Entries /\ b.position = NoPosition
      BY <2>2, <2>3, <2>4, <3>2 DEF Backed
    <3> QED BY <1>1, <3>1, <3>2
  <2> QED BY <2>5 DEF c
<1>2. CASE ~fits
  <2>1. c = b
    BY <1>2 DEF Queue
  <2>2. next = IF b.position = NoPosition THEN NoBasis ELSE reason
    BY <2>1, NoEntryInNone
  <2> HIDE DEF c
  <2>3. Backed(b, next)
    BY <2>2, NoEntryInNone DEF Backed
  <2> QED BY <2>1, <2>3 DEF c
<1> QED BY <1>1, <1>2

-----------------------------------------------------------------------------
LEMMA AnswersAreJustified ==
  ASSUME NEW c \in Candles, NEW a \in Answers[c], a.decision.action \in Entries
  PROVE  Justified(a.basis, a.decision.action, a.decision.stop, a.decision.target)
<1>1. ASSUME NEW name \in StrategyNames, NEW m \in Snapshots, NEW scores \in Scores,
             a = Answer(name, SnapshotAt(m, c), scores)
      PROVE  Justified(a.basis, a.decision.action, a.decision.stop, a.decision.target)
  <2> DEFINE s == SnapshotAt(m, c)
             d == Decide(Evaluate(name, s), scores)
  <2>1. s \in Contexts
    BY SnapshotIsContext
  <2>2. a.decision = d /\ a.basis = IF d.action \in Entries
                                    THEN [strategy |-> name, market |-> s] ELSE NoBasis
    BY <1>1 DEF Answer
  <2> HIDE DEF s
  <2>3. d.action \in Entries
    BY <2>2
  <2>4. Justified([strategy |-> name, market |-> s], d.action, d.stop, d.target)
    BY <2>1, <2>3, AnswerIsJustified
  <2> HIDE DEF d
  <2> QED BY <2>2, <2>3, <2>4
<1>2. ASSUME NEW scores \in Scores, a = [decision |-> Decide(ExitSignal, scores), basis |-> NoBasis]
      PROVE  FALSE
  <2>1. Decide(ExitSignal, scores).action = "EXIT"
    BY DEF Decide, ExitSignal, Entries
  <2> QED BY <1>2, <2>1 DEF Entries
<1> QED BY <1>1, <1>2 DEF Answers

LEMMA InitBacked == SInit => PositionsAreJustified
BY NoEntryInNone DEF SInit, Init, PositionsAreJustified

LEMMA BarBacked ==
  ASSUME IInv, PositionsAreJustified, AnsweredBar
  PROVE  PositionsAreJustified'
<1>1. PICK c \in Candles :
        \E a \in Answers[c] :
          /\ BarWith(c, a.decision)
          /\ basis' = IF book'.pending.action \in Entries THEN a.basis
                      ELSE IF book'.position = NoPosition THEN NoBasis ELSE basis
  BY DEF AnsweredBar
<1>2. PICK a \in Answers[c] :
        /\ BarWith(c, a.decision)
        /\ basis' = IF book'.pending.action \in Entries THEN a.basis
                    ELSE IF book'.position = NoPosition THEN NoBasis ELSE basis
  BY <1>1
<1> DEFINE n == bars + 1
           e == ExecutePending(book, n, c.open)
           x == IntrabarExit(e, n, c)
<1>3. ~finished /\ bars \in Nat /\ book' = Queue(x, n, a.decision)
  BY <1>2 DEF BarWith, PlayBar, IInv, TypeOK
<1>4. book \in Books /\ InOrder(book, bars) /\ Executable(book, bars)
  BY <1>3 DEF IInv, TypeOK
<1>5. n \in Nat /\ c.open \in Int /\ c.open > 0
  BY <1>3, BacktestAssumption
<1>6. Backed(book, basis)
  BY DEF PositionsAreJustified, Backed
<1>7. Backed(e, basis)
  BY <1>4, <1>5, <1>6, ExecuteBacked
<1>8. InOrder(e, n) /\ e.pending = NoDecision
  BY <1>3, <1>4, <1>5, ExecuteInOrder
<1> HIDE DEF e, n
<1>9. InOrder(x, n) /\ x.pending = NoDecision
  BY <1>5, <1>8, ExitInOrder
<1>10. Backed(x, basis)
  BY <1>7, <1>8, ExitBacked DEF InOrder
<1> HIDE DEF x
<1>11. a.decision.action \in Entries =>
         Justified(a.basis, a.decision.action, a.decision.stop, a.decision.target)
  BY AnswersAreJustified
<1>12. Backed(Queue(x, n, a.decision), basis')
  BY <1>2, <1>3, <1>9, <1>10, <1>11, QueueBacked DEF InOrder
<1>13. Backed(book', basis')
  BY <1>3, <1>12
<1> QED BY <1>13 DEF PositionsAreJustified, Backed

LEMMA FinishBacked ==
  ASSUME IInv, PositionsAreJustified, Finish, UNCHANGED basis
  PROVE  PositionsAreJustified'
<1>1. book \in Books /\ Backed(book, basis)
  BY DEF IInv, TypeOK, PositionsAreJustified, Backed
<1>2. \/ book' = book
      \/ book' = ClosePosition(book, bars, candle.close, "end_of_data")
  BY DEF Finish
<1>3. Backed(ClosePosition(book, bars, candle.close, "end_of_data"), basis)
  BY <1>1, CloseBacked DEF Backed
<1>4. Backed(book', basis')
  BY <1>1, <1>2, <1>3
<1> QED BY <1>4 DEF PositionsAreJustified, Backed

(* No trade is queued and no position open, in a backtest of any length on   *)
(* any candles and snapshots, but for a reason the strategies, the decision  *)
(* engine and the risk policy accept (strategies/engine.py:134-144,          *)
(* decision_engine/engine.py:153-169, backtesting/engine.py:79-106).          *)
THEOREM StrategyPositionsAreJustified == SSpec => []PositionsAreJustified
<1>1. IInv /\ PositionsAreJustified /\ [SNext]_<<vars, basis>> => PositionsAreJustified'
  <2>1. ASSUME PositionsAreJustified, UNCHANGED <<vars, basis>>
        PROVE  PositionsAreJustified'
    BY <2>1 DEF vars, PositionsAreJustified, Justified, Bounded
  <2> QED BY <2>1, BarBacked, FinishBacked DEF SNext
<1>2. SSpec => []IInv
  BY StrategiesAreAProvider, InvariantHolds, PTL
<1> QED BY <1>1, <1>2, InitBacked, PTL DEF SSpec
=============================================================================
