---------------------------- MODULE PaperTrading ----------------------------
(***************************************************************************)
(* A paper account under concurrent callers: the risk authority decides    *)
(* intents (risk_engine/persistence.py), the paper broker fills approved   *)
(* ones and marks the account (paper_trading/broker.py).  Each call is a   *)
(* database transaction of its own at READ COMMITTED: it reads with plain  *)
(* SELECTs, keeps what it read in memory, flushes its writes under row     *)
(* locks, and is committed or rolled back by its caller.                   *)
(*                                                                         *)
(* Reading the position makes the session flush the ledger and the order   *)
(* first, so a fill reads the position while it holds the ledger row.      *)
(***************************************************************************)
EXTENDS PaperAccounting, RiskEngine, FiniteSets

CONSTANTS
  Workers, NoWorker,
  Intents,       \* order intents: [id, key, side, quantity, exit]
  Prices,        \* market prices
  InitialCash,
  CalmContext,   \* a portfolio context in which no entry lock is set
  Limits         \* the effective risk limits

ASSUME PaperAssumption ==
  /\ NoWorker \notin Workers
  /\ InitialCash \in Nat \ {0} /\ Slippage \in Nat /\ Charge \in Nat
  /\ \A p \in Prices : p \in Nat /\ p > Slippage
  /\ \A i \in Intents : i.quantity \in Nat \ {0} /\ i.side \in {"BUY", "SELL"}
  /\ "position" \in DOMAIN CalmContext

VARIABLES
  overlap,     \* whether transactions on the account may overlap
  ledger,      \* cash balance and peak equity
  position,    \* the position in the traded instrument
  orders,      \* filled paper orders
  decisions,   \* persisted risk decisions
  snapshot,    \* the P&L snapshot the last step inserted, if it did
  opened,      \* the account has a ledger
  holder,      \* the transaction that holds the ledger row
  txn          \* the open transaction of each caller

vars == <<overlap, opened, ledger, position, orders, decisions, snapshot, holder, txn>>

Closed == [at |-> "closed"]
NoSnapshot == [equity |-> 0, peak |-> 0]

Init ==
  /\ overlap \in BOOLEAN
  /\ opened = FALSE
  /\ ledger = [cash |-> InitialCash, peak |-> InitialCash]
  /\ position = NoPosition
  /\ orders = {}
  /\ decisions = {}
  /\ snapshot = NoSnapshot
  /\ holder = NoWorker
  /\ txn = [w \in Workers |-> Closed]

Begin(w, t) ==
  /\ txn[w] = Closed
  /\ overlap \/ \A v \in Workers : txn[v] = Closed
  /\ txn' = [txn EXCEPT ![w] = t]

Continue(w, t) == txn' = [txn EXCEPT ![w] = t]

End(w) == txn' = [txn EXCEPT ![w] = Closed]

DecisionsFor(i) == {d \in decisions : d.intent = i}

OrdersWithKey(key) == {o \in orders : o.intent.key = key}

(* initialize_account: a second one changes nothing, or is refused. *)
InitializeAccount(w) ==
  /\ Begin(w, Closed)
  /\ opened' = TRUE
  /\ UNCHANGED <<overlap, ledger, position, orders, decisions, holder>>

-----------------------------------------------------------------------------
(* The risk authority. *)

(* The caller builds the risk context from the committed position, which    *)
(* only the exit path looks at.                                             *)
BeginEvaluation(w, i) ==
  /\ Begin(w, [at |-> "evaluating", intent |-> i,
               held |-> IF i.exit THEN position.quantity ELSE 0])
  /\ UNCHANGED <<overlap, opened, ledger, position, orders, decisions, holder>>

(* evaluate(): the persisted decision is returned, or refused if it was made *)
(* on other inputs; otherwise the intent is decided and the decision stored. *)
Decide(w, price) ==
  /\ txn[w].at = "evaluating"
  /\ LET i == txn[w].intent
         context == [CalmContext EXCEPT !.position = txn[w].held]
         d == EvaluateOrderRisk(i, context, Limits, price, price - 1)
     IN decisions' = IF DecisionsFor(i) # {} THEN decisions
                     ELSE decisions \cup {[intent |-> i, decision |-> d, held |-> txn[w].held]}
  /\ End(w)
  /\ UNCHANGED <<overlap, opened, ledger, position, orders, holder>>

-----------------------------------------------------------------------------
(* execute_market. *)

(* The checks on the decision, the look-up of the idempotency key (an        *)
(* existing order is answered as a duplicate and nothing is written), and   *)
(* the read of the ledger.  A key taken between the look-up and this read   *)
(* fails the flush, just as one taken later.                                *)
BeginFill(w, d, price) ==
  /\ opened
  /\ Approves(d.decision)
  /\ d.decision.quantity \in 1 .. d.intent.quantity
  /\ OrdersWithKey(d.intent.key) = {}
  /\ Begin(w, [at |-> "ledger read", intent |-> d.intent, quantity |-> d.decision.quantity,
               price |-> FillPrice(d.intent.side, price), cash |-> ledger.cash,
               position |-> NoPosition])
  /\ UNCHANGED <<overlap, opened, ledger, position, orders, decisions, holder>>

(* The fill with the position it leaves, from the one it reads.             *)
Flushed(fill) ==
  [at |-> "flushed", intent |-> fill.intent, quantity |-> fill.quantity,
   price |-> fill.price, cash |-> fill.cash,
   position |-> UpdatePosition(position, fill.intent.side, fill.quantity, fill.price)]

(* Slips the runs must notice: a position read before the flush, and an      *)
(* order whose key is not unique.                                           *)
FlushFillUnlocked(w) ==
  /\ txn[w].at = "ledger read"
  /\ OrdersWithKey(txn[w].intent.key) = {}
  /\ holder' = w
  /\ Continue(w, Flushed(txn[w]))
  /\ UNCHANGED <<overlap, opened, ledger, position, orders, decisions>>

FlushFillAnyKey(w) ==
  /\ txn[w].at = "ledger read"
  /\ holder = NoWorker
  /\ holder' = w
  /\ Continue(w, Flushed(txn[w]))
  /\ UNCHANGED <<overlap, opened, ledger, position, orders, decisions>>

(* The query for the position flushes the ledger and the order first: the   *)
(* flush waits for the ledger row, and the order's key may be taken by now. *)
FlushFill(w) ==
  /\ txn[w].at = "ledger read"
  /\ holder = NoWorker
  /\ IF OrdersWithKey(txn[w].intent.key) # {}
     THEN End(w) /\ UNCHANGED holder
     ELSE /\ holder' = w
          /\ Continue(w, Flushed(txn[w]))
  /\ UNCHANGED <<overlap, opened, ledger, position, orders, decisions>>

CommitFill(w) ==
  /\ txn[w].at = "flushed"
  /\ ledger' = [ledger EXCEPT !.cash =
       txn[w].cash + CashFlow(txn[w].intent.side, txn[w].quantity, txn[w].price)]
  /\ position' = txn[w].position
  /\ orders' = orders \cup {[intent |-> txn[w].intent, quantity |-> txn[w].quantity,
                             price |-> txn[w].price]}
  /\ holder' = NoWorker
  /\ End(w)
  /\ UNCHANGED <<overlap, opened, decisions>>

-----------------------------------------------------------------------------
(* mark_to_market. *)

BeginMark(w, price) ==
  /\ opened
  /\ Begin(w, [at |-> "marking", price |-> price, cash |-> ledger.cash, peak |-> ledger.peak])
  /\ UNCHANGED <<overlap, opened, ledger, position, orders, decisions, holder>>

ReadPosition(w) ==
  /\ txn[w].at = "marking"
  /\ Continue(w, [at |-> "marked", peak |-> txn[w].peak,
                  equity |-> Equity(txn[w].cash, position, txn[w].price)])
  /\ UNCHANGED <<overlap, opened, ledger, position, orders, decisions, holder>>

(* A slip the runs must notice: the peak is simply the last equity. *)
CommitMarkLastEquity(w) ==
  /\ txn[w].at = "marked"
  /\ snapshot' = [equity |-> txn[w].equity, peak |-> txn[w].equity]
  /\ holder = NoWorker
  /\ ledger' = [ledger EXCEPT !.peak = txn[w].equity]
  /\ End(w)
  /\ UNCHANGED <<overlap, opened, position, orders, decisions, holder>>

(* Only a peak that changed is written, and that needs the ledger row. *)
CommitMark(w) ==
  /\ txn[w].at = "marked"
  /\ LET peak == Larger(txn[w].peak, txn[w].equity)
     IN /\ snapshot' = [equity |-> txn[w].equity, peak |-> peak]
        /\ IF peak = txn[w].peak THEN UNCHANGED ledger
           ELSE holder = NoWorker /\ ledger' = [ledger EXCEPT !.peak = peak]
  /\ End(w)
  /\ UNCHANGED <<overlap, opened, position, orders, decisions, holder>>

Rollback(w) ==
  /\ txn[w] # Closed
  /\ holder' = IF holder = w THEN NoWorker ELSE holder
  /\ End(w)
  /\ UNCHANGED <<overlap, opened, ledger, position, orders, decisions>>

Next ==
  \/ \E w \in Workers : CommitMark(w)
  \/ /\ snapshot' = NoSnapshot
     /\ \E w \in Workers :
          \/ InitializeAccount(w)
          \/ \E i \in Intents : BeginEvaluation(w, i)
          \/ \E price \in Prices : Decide(w, price)
          \/ \E d \in decisions, price \in Prices : BeginFill(w, d, price)
          \/ FlushFill(w)
          \/ CommitFill(w)
          \/ \E price \in Prices : BeginMark(w, price)
          \/ ReadPosition(w)
          \/ Rollback(w)

Spec == Init /\ [][Next]_vars

-----------------------------------------------------------------------------
(* The account stays in its types, whatever is rounded and however large the *)
(* losses, and the ledger row is held by the fill that has been flushed.     *)
Positions == [quantity : Int, average : Nat, realized : Int]

TypeOK ==
  /\ overlap \in BOOLEAN /\ opened \in BOOLEAN
  /\ ledger \in [cash : Int, peak : Int]
  /\ position \in Positions
  /\ \A o \in orders : o.intent \in Intents /\ o.quantity \in 1 .. o.intent.quantity
  /\ \A d \in decisions : d.intent \in Intents /\ d.held \in Int
  /\ holder \in Workers \cup {NoWorker}
  /\ \A w \in Workers : (holder = w) <=> (txn[w].at = "flushed")

SumOver(Value(_)) == MapThenSumSet(Value, orders)

(* The position is the sum of the fills, whatever overlaps: a fill reads it  *)
(* only after its flush has taken the ledger row (broker.py:140, 263-299).   *)
PositionAddsUp ==
  LET Value(o) == Signed(o.intent.side, o.quantity)
  IN position.quantity = SumOver(Value)

(* "Buys debit notional plus charges and sells credit notional minus         *)
(* charges" (docs/architecture/paper-trading.md:18-19): cash is the opening  *)
(* capital and every filled order's cash flow.                               *)
CashAddsUp ==
  LET Value(o) == CashFlow(o.intent.side, o.quantity, o.price)
  IN ledger.cash = InitialCash + SumOver(Value)

(* As long as an account's transactions do not overlap, its cash adds up, and *)
(* cash plus the position at cost is capital plus realized profit: the       *)
(* position's average and realized P&L lose nothing over openings, increases,*)
(* partial closes and reversals (broker.py:281-299).                         *)
BooksBalanceInTurn ==
  ~overlap =>
    /\ CashAddsUp
    /\ ledger.cash + position.quantity * position.average = InitialCash + position.realized

(* No average is rounded: the cost of each fill that adds to the position is *)
(* a whole number of units for each unit held.                               *)
NothingRounded ==
  [][ \A o \in orders' \ orders :
        LET held == Size(position.quantity)
        IN SameDirection(position.quantity, Signed(o.intent.side, o.quantity)) =>
             (held * position.average + o.quantity * o.price) % (held + o.quantity) = 0 ]_vars

(* One idempotency key fills once and one intent is decided once, also when  *)
(* callers retry or race each other (broker.py:119-126, persistence.py:81-105),*)
(* and what was filled is what was approved.                                 *)
FilledOnceAsDecided ==
  /\ \A o, p \in orders : o.intent.key = p.intent.key => o = p
  /\ \A d, e \in decisions : d.intent = e.intent => d = e
  /\ \A o \in orders : \E d \in decisions :
       d.intent = o.intent /\ Approves(d.decision) /\ d.decision.quantity = o.quantity

(* A snapshot of an account whose transactions do not overlap is an equity   *)
(* the account really had, and its peak never falls and is never passed      *)
(* (broker.py:185-246).                                                      *)
MarksAreTrueInTurn ==
  [][ ~overlap =>
        /\ ledger'.peak >= ledger.peak
        /\ snapshot' # NoSnapshot =>
             /\ snapshot'.peak = ledger'.peak /\ snapshot'.equity <= ledger'.peak
             /\ \E price \in Prices : snapshot'.equity = Equity(ledger'.cash, position, price)
    ]_vars

Exits(o) == o.intent.exit /\ o \notin orders

ReducesPosition(o) ==
  /\ Size(position'.quantity) = Size(position.quantity) - o.quantity
  /\ position'.quantity = 0 \/ SameDirection(position.quantity, position'.quantity)

(* An exit decided on the position it is filled against closes part or all   *)
(* of it, and nothing else (engine.py:154-164, broker.py:281-298).           *)
FreshExitReduces ==
  [][ \A o \in orders' :
        /\ Exits(o)
        /\ \E d \in DecisionsFor(o.intent) : d.held = position.quantity
        => ReducesPosition(o) ]_vars

(* "safe reduction during a kill switch without allowing the exit request to *)
(* reverse or increase exposure" (docs/architecture/risk-engine.md:25-26):   *)
(* an exit that is filled reduces the position.                              *)
ExitReduces == [][ \A o \in orders' : Exits(o) => ReducesPosition(o) ]_vars
=============================================================================
